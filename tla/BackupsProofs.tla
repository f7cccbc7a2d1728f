---------------------------- MODULE BackupsProofs ----------------------------
(***************************************************************************)
(* The invariants of Backups for any number of namespaces, partitions,     *)
(* versions and calls, and any settings.  IInv is inductive: the types of  *)
(* the tasks' locals; which tables a task can still hold, and that one     *)
(* which is yet to be created has no rows (Ages); the schemas of a restore *)
(* under way (Schemas); the reservations; that whoever is past its look    *)
(* for a name has the name to itself (Naming); and that what the timer is  *)
(* about to remove is outnumbered still (Retained).                        *)
(*                                                                         *)
(* And those of SnapshotsPage, where backups are looked into and restored, *)
(* for any archives, namespaces, clicks and tasks in flight: its inductive *)
(* invariant (SnapshotsIInv) keeps every answer with what it answers and   *)
(* every dialog with its one task.                                         *)
(***************************************************************************)
EXTENDS Backups, SnapshotsPage, FiniteSetTheorems, SequenceTheorems, TLAPS

Generations == {NONE} \cup (0..MaxDrops)

TaskState == [at : Places, kind : {NONE, "one", "all", "restore"}, ns : Namespaces \cup {NONE},
              todo : SUBSET Namespaces, now : 0..LastSecond, attempt : 1..MaxPerSecond,
              of : {NONE} \cup (Namespaces \X Generations), left : SUBSET Partitions,
              archive : Archive, taken : SUBSET Namespaces, tidy : SUBSET Stamps]

(* A task that works on a namespace or a table has one.                      *)
Placed(x) ==
  /\ x.at \in {"build", "keys", "rows", "reserve", "create", "write", "tidy", "table",
               "attributes", "insert"} => x.ns \in Namespaces
  /\ x.at = "build" => x.of \in Namespaces \X Generations
  /\ x.at \in {"keys", "rows", "attributes", "insert"} => x.of \in Tables

GoodTask == {x \in TaskState : Placed(x)}

Typed ==
  /\ TypeOK
  /\ task \in [Tasks -> GoodTask]
  /\ drops \in 0..MaxDrops
  /\ gaps \in [Tables -> SUBSET Versions]

(* A table that is held, or current, is no newer than the last one; one yet  *)
(* to be created has no rows.                                               *)
Ages ==
  /\ \A n \in Namespaces : current[n] # NONE => current[n] <= drops
  /\ \A j \in Tasks : task[j].of \in Tables =>
       task[j].of[2] < drops \/ task[j].of[2] = current[task[j].of[1]]
  /\ \A n \in Namespaces, d \in 0..MaxDrops :
       (d >= drops /\ current[n] # d) => table[<<n, d>>].rows = NoRows

(* The schemas that came with an archive are in the table before its rows    *)
(* are, or were collected from it.                                           *)
Awaited(j) == task[j].archive.schemas \cap Brought(j)

Schemas ==
  /\ RowsKeepTheirSchemas
  /\ \A j \in Tasks : At(j, "insert") =>
       Awaited(j) \subseteq table[task[j].of].schemas \cup gaps[task[j].of]

(* A task that is past its look for a name has the name to itself, but for   *)
(* names of "raced"; and once it has the file it writes through, the file.   *)
Naming ==
  \A j \in Tasks :
    /\ task[j].at \in {"create", "write"} =>
         folder[task[j].ns][Stamp(j)] = NONE \/ <<task[j].ns, Stamp(j)>> \in raced
    /\ task[j].at = "write" => reserved[task[j].ns][Stamp(j)] = j

Outnumbered(n, s) == Cardinality(Newer(Listed(n), s)) >= MaxBackups

Retained ==
  /\ \A n \in Namespaces, s \in Stamps, archive \in Archive :
       <<n, s, archive>> \in promised =>
         folder[n][s] = archive \/ Outnumbered(n, s) \/ <<n, s>> \in raced
  /\ \A j \in Tasks : At(j, "tidy") => \A s \in task[j].tidy : Outnumbered(task[j].ns, s)

IInv == Typed /\ Ages /\ Schemas /\ ReservationsAreHeld /\ Naming /\ Retained

-----------------------------------------------------------------------------
(* What is listed, and what is newer.                                        *)

LEMMA StampsFinite == IsFiniteSet(Stamps)
<1>1. IsFiniteSet(0..LastSecond) /\ IsFiniteSet(1..MaxPerSecond)
  BY FS_Interval, NamesAssumption
<1> QED BY <1>1, FS_Product DEF Stamps

LEMMA NewerCount ==
  ASSUME NEW S \in SUBSET Stamps, NEW T \in SUBSET Stamps, S \subseteq T
  PROVE  /\ Cardinality(S) \in Nat /\ Cardinality(T) \in Nat
         /\ Cardinality(S) <= Cardinality(T)
<1>1. IsFiniteSet(S) /\ IsFiniteSet(T)
  BY StampsFinite, FS_Subset
<1> QED BY <1>1, FS_CardinalityType, FS_Subset

LEMMA StampOrder ==
  ASSUME NEW s \in Stamps, NEW t \in Stamps, NEW u \in Stamps
  PROVE  /\ ~Older(s, s)
         /\ Older(s, t) /\ Older(t, u) => Older(s, u)
         /\ s # t => Older(s, t) \/ Older(t, s)
BY NamesAssumption DEF Stamps, Older

(* What comes does not make an archive less outnumbered.                     *)
LEMMA MoreListed ==
  ASSUME NEW n, Listed(n) \subseteq Listed(n)', NEW s, Outnumbered(n, s)
  PROVE  Outnumbered(n, s)'
<1>1. Newer(Listed(n), s) \subseteq Newer(Listed(n)', s)
  BY DEF Newer
<1>2. Newer(Listed(n), s) \subseteq Stamps /\ Newer(Listed(n)', s) \subseteq Stamps
  BY DEF Newer, Listed
<1>3. PICK S \in SUBSET Stamps : S = Newer(Listed(n), s)
  BY <1>2
<1>4. PICK T \in SUBSET Stamps : T = Newer(Listed(n)', s)
  BY <1>2
<1>5. Outnumbered(n, s)' <=> Cardinality(T) >= MaxBackups
  BY <1>4 DEF Outnumbered, Newer
<1> QED BY <1>1, <1>3, <1>4, <1>5, NewerCount, SettingsAssumption DEF Outnumbered

(* Nor does the removal of one that is outnumbered itself: whatever it was   *)
(* counted for is older than all that it is counted by.                      *)
LEMMA OldestGoes ==
  ASSUME NEW n, NEW x \in Stamps, Outnumbered(n, x), Listed(n)' = Listed(n) \ {x},
         NEW s \in Stamps, Outnumbered(n, s)
  PROVE  Outnumbered(n, s)'
<1>1. PICK S : S = Newer(Listed(n), s)
  OBVIOUS
<1>2. PICK X : X = Newer(Listed(n), x)
  OBVIOUS
<1>3. PICK T : T = Newer(Listed(n)', s)
  OBVIOUS
<1>4. S \subseteq Stamps /\ X \subseteq Stamps /\ T \subseteq Stamps
  BY <1>1, <1>2, <1>3 DEF Newer, Listed
<1>5. /\ Cardinality(S) >= MaxBackups /\ Cardinality(X) >= MaxBackups
      /\ Outnumbered(n, s)' <=> Cardinality(T) >= MaxBackups
  BY <1>1, <1>2, <1>3 DEF Outnumbered, Newer
<1>6. S \subseteq T \/ X \subseteq T
  <2>1. CASE Older(s, x)
    <3>1. \A t \in X : t \in Listed(n) /\ Older(x, t) /\ t \in Stamps
      BY <1>2 DEF Newer, Listed
    <3>2. \A t \in X : t # x /\ Older(s, t)
      BY <2>1, <3>1, StampOrder
    <3> QED BY <1>3, <3>1, <3>2 DEF Newer
  <2>2. CASE ~Older(s, x)
    BY <1>1, <1>3, <2>2 DEF Newer
  <2> QED BY <2>1, <2>2
<1> QED BY <1>4, <1>5, <1>6, NewerCount, SettingsAssumption

-----------------------------------------------------------------------------
(* A task moves on and touches nothing but its own locals.                   *)

LEMMA TaskGoes ==
  ASSUME Typed, NEW j \in Tasks, NEW next \in GoodTask, Goes(j, next)
  PROVE  /\ task' \in [Tasks -> GoodTask]
         /\ task'[j] = next
         /\ \A k \in Tasks : k # j => task'[k] = task[k]
BY DEF Typed, Goes

LEMMA TaskFields ==
  ASSUME NEW x \in GoodTask
  PROVE  /\ x \in TaskState /\ Placed(x)
         /\ x.at \in Places /\ x.attempt \in 1..MaxPerSecond /\ x.archive \in Archive
         /\ x.todo \cup x.taken \subseteq Namespaces /\ x.tidy \subseteq Stamps
         /\ x.left \subseteq Partitions /\ x.now \in 0..LastSecond
BY DEF GoodTask, TaskState

(* The part of TypeOK that speaks of the tasks follows from their type.      *)
LEMMA TasksTyped ==
  ASSUME task \in [Tasks -> GoodTask]
  PROVE  \A j \in Tasks :
           /\ task[j].at \in Places
           /\ task[j].attempt \in 1..MaxPerSecond
           /\ task[j].archive \in Archive
           /\ task[j].todo \cup task[j].taken \subseteq Namespaces
           /\ task[j].tidy \subseteq Stamps
           /\ task[j].left \subseteq Partitions
BY TaskFields

LEMMA TasksTypedNext ==
  ASSUME task' \in [Tasks -> GoodTask]
  PROVE  \A j \in Tasks :
           /\ task'[j].at \in Places
           /\ task'[j].attempt \in 1..MaxPerSecond
           /\ task'[j].archive \in Archive
           /\ task'[j].todo \cup task'[j].taken \subseteq Namespaces
           /\ task'[j].tidy \subseteq Stamps
           /\ task'[j].left \subseteq Partitions
BY TaskFields

(* What a restore is about to insert depends on nothing but its locals.      *)
LEMMA BroughtSame ==
  ASSUME NEW k, task'[k] = task[k]
  PROVE  Brought(k)' = Brought(k) /\ Awaited(k)' = Awaited(k)
BY DEF Brought, Awaited

(* It may have seen the name it takes next, if that is one of "raced".       *)
LEMMA TaskMovesOn ==
  ASSUME IInv, NEW j \in Tasks, NEW next \in GoodTask, Goes(j, next),
         UNCHANGED <<clock, current, table, folder, reserved, drops, promised, gaps>>,
         raced \subseteq raced', raced' \subseteq Namespaces \X Stamps,
         lastTaken' \in {NONE} \cup (0..clock),
         task[j].at # "write", next.at \notin {"insert", "write"},
         \/ next.of = task[j].of
         \/ next.of \notin Tables
         \/ next.of[2] = current[next.of[1]],
         next.at = "create" =>
           \/ folder[next.ns][<<next.now, next.attempt>>] = NONE
           \/ <<next.ns, <<next.now, next.attempt>>>> \in raced',
         next.at = "tidy" => \A s \in next.tidy : Outnumbered(next.ns, s)
  PROVE  IInv'
<1>1. /\ task' \in [Tasks -> GoodTask] /\ task'[j] = next
      /\ \A k \in Tasks : k # j => task'[k] = task[k]
  BY TaskGoes DEF IInv
<1>2. Typed'
  BY <1>1, TasksTypedNext DEF IInv, Typed, TypeOK
<1>3. Ages'
  BY <1>1 DEF IInv, Ages
<1>4. Schemas'
  BY <1>1, BroughtSame DEF IInv, Schemas, RowsKeepTheirSchemas, At
<1>5. ReservationsAreHeld'
  BY <1>1 DEF IInv, ReservationsAreHeld, At, Stamp
<1>6. Retained'
  <2>1. \A n, s : Outnumbered(n, s)' <=> Outnumbered(n, s)
    BY DEF Outnumbered, Listed, Newer
  <2> QED BY <1>1, <2>1 DEF IInv, Retained, At
<1>7. Naming'
  BY <1>1 DEF IInv, Naming, Stamp
<1> QED BY <1>2, <1>3, <1>4, <1>5, <1>6, <1>7 DEF IInv

LEMMA TaskMoves ==
  ASSUME IInv, NEW j \in Tasks, NEW next \in GoodTask, Goes(j, next),
         UNCHANGED <<clock, current, table, folder, reserved, drops, promised, raced, gaps>>,
         lastTaken' \in {NONE} \cup (0..clock),
         task[j].at # "write", next.at \notin {"insert", "create", "write"},
         \/ next.of = task[j].of
         \/ next.of \notin Tables
         \/ next.of[2] = current[next.of[1]],
         next.at = "tidy" => \A s \in next.tidy : Outnumbered(next.ns, s)
  PROVE  IInv'
<1>1. raced \subseteq raced' /\ raced' \subseteq Namespaces \X Stamps
  BY DEF IInv, Typed, TypeOK
<1> QED BY <1>1, TaskMovesOn

(* Where a call begins, and where it ends.                                   *)
LEMMA IdleIsGood ==
  ASSUME NEW place \in {"idle", "ended"}
  PROVE  /\ [Idle EXCEPT !.at = place] \in GoodTask
         /\ [Idle EXCEPT !.at = place].of = NONE
         /\ [Idle EXCEPT !.at = place].at = place
<1>1. EmptyArchive \in Archive
  BY DEF EmptyArchive, Archive, NoRows
<1>2. [Idle EXCEPT !.at = place] \in TaskState
  BY <1>1, NamesAssumption DEF Idle, TaskState, Places
<1> QED BY <1>2 DEF Idle, GoodTask, Placed

LEMMA EndingMoves ==
  ASSUME IInv, NEW j \in Tasks, Ends(j) \/ Goes(j, [Idle EXCEPT !.at = "ended"]),
         UNCHANGED <<clock, current, table, folder, reserved, drops, promised, raced, gaps, lastTaken>>,
         task[j].at # "write"
  PROVE  IInv'
<1>1. PICK place \in {"idle", "ended"} : Goes(j, [Idle EXCEPT !.at = place])
  BY DEF Ends
<1> DEFINE next == [Idle EXCEPT !.at = place]
<1>2. next \in GoodTask /\ next.of = NONE /\ next.at = place
  BY IdleIsGood
<1>3. Goes(j, next) /\ lastTaken' \in {NONE} \cup (0..clock)
  BY <1>1 DEF IInv, Typed, TypeOK
<1> HIDE DEF next
<1> QED BY <1>2, <1>3, ApartAssumption, TaskMoves

-----------------------------------------------------------------------------
(* Who asks for an archive, and how it is built.                             *)

LEMMA CallsStep ==
  ASSUME IInv, NEW j \in Tasks,
         \/ j = TIMER /\ TimerTick
         \/ CallAll(j)
         \/ \E n \in Namespaces :
              CallOne(j, n) \/ CallUpload(j, n) \/ \E s \in Stamps : CallRestore(j, n, s)
  PROVE  IInv'
<1>0. /\ clock \in 0..LastSecond /\ current \in [Namespaces -> Generations]
      /\ folder \in [Namespaces -> [Stamps -> Archive \cup {NONE}]]
      /\ clock \in {NONE} \cup (0..clock) /\ lastTaken \in {NONE} \cup (0..clock)
  BY NamesAssumption DEF IInv, Typed, TypeOK, Generations
<1>1. EmptyArchive \in Archive /\ \A archive \in Uploads : archive \in Archive
  <2>1. OfTable({}) \in Archive /\ EmptyArchive \in Archive
    BY DEF EmptyArchive, OfTable, Archive, NoRows
  <2> DEFINE blobs == [p \in Partitions |-> BROKEN]
  <2>2. blobs \in [Partitions -> Versions \cup {NONE, BROKEN}]
    OBVIOUS
  <2> HIDE DEF blobs
  <2>3. [OfTable({}) EXCEPT !.rows = blobs] \in Archive
    BY <2>1, <2>2 DEF Archive
  <2> QED BY <2>1, <2>3 DEF Uploads, blobs
<1>2. 1 \in 1..MaxPerSecond
  BY NamesAssumption
<1>3. CASE CallAll(j) \/ (j = TIMER /\ TimerTick)
  <2> DEFINE next == [Idle EXCEPT !.at = "next", !.kind = "all", !.todo = Namespaces, !.now = clock]
  <2>1. next \in GoodTask /\ next.of = NONE /\ next.at = "next"
    BY <1>0, <1>1, <1>2 DEF Idle, GoodTask, TaskState, Placed, Places
  <2>2. Goes(j, next) /\ task[j].at = "idle"
    BY <1>3 DEF TimerTick, CallAll, At
  <2>3. /\ UNCHANGED <<clock, current, table, folder, reserved, drops, promised, raced, gaps>>
        /\ lastTaken' \in {NONE} \cup (0..clock)
    BY <1>0, <1>3 DEF TimerTick, CallAll, data, files, counters, history
  <2> HIDE DEF next
  <2> QED BY <2>1, <2>2, <2>3, ApartAssumption, TaskMoves
<1>4. ASSUME NEW n \in Namespaces, CallOne(j, n) PROVE IInv'
  <2> DEFINE next == [Idle EXCEPT !.at = "build", !.kind = "one", !.ns = n, !.of = TableOf(n),
                                  !.now = clock]
  <2>1. next \in GoodTask /\ next.of = <<n, current[n]>> /\ next.at = "build"
    BY <1>0, <1>1, <1>2 DEF Idle, GoodTask, TaskState, Placed, Places, TableOf
  <2>2. Goes(j, next) /\ task[j].at = "idle"
    BY <1>4 DEF CallOne, At
  <2>3. UNCHANGED <<clock, current, table, folder, reserved, drops, promised, raced, gaps, lastTaken>>
    BY <1>4 DEF CallOne, data, files, counters, history
  <2>4. next.of[2] = current[next.of[1]]
    BY <2>1
  <2> HIDE DEF next
  <2> QED BY <1>0, <2>1, <2>2, <2>3, <2>4, TaskMoves
<1>5. ASSUME NEW n \in Namespaces, CallUpload(j, n) PROVE IInv'
  <2>1. PICK archive \in Uploads :
          Goes(j, [Idle EXCEPT !.at = "reserve", !.kind = "one", !.ns = n, !.archive = archive,
                               !.now = clock])
    BY <1>5 DEF CallUpload
  <2> DEFINE next == [Idle EXCEPT !.at = "reserve", !.kind = "one", !.ns = n,
                                  !.archive = archive, !.now = clock]
  <2>2. next \in GoodTask /\ next.of = NONE /\ next.at = "reserve"
    BY <1>0, <1>1, <1>2 DEF Idle, GoodTask, TaskState, Placed, Places
  <2>3. Goes(j, next) /\ task[j].at = "idle"
    BY <1>5, <2>1 DEF CallUpload, At
  <2>4. UNCHANGED <<clock, current, table, folder, reserved, drops, promised, raced, gaps, lastTaken>>
    BY <1>5 DEF CallUpload, data, files, counters, history
  <2> HIDE DEF next
  <2> QED BY <1>0, <2>2, <2>3, <2>4, ApartAssumption, TaskMoves
<1>6. ASSUME NEW n \in Namespaces, NEW stamp \in Stamps, CallRestore(j, n, stamp) PROVE IInv'
  <2>1. PICK archive \in Archive : archive = folder[n][stamp]
    BY <1>0, <1>6 DEF CallRestore
  <2>2. PICK only \in SUBSET Partitions :
          Goes(j, [Idle EXCEPT !.at = "table", !.kind = "restore", !.ns = n,
                               !.archive = archive, !.left = only])
    <3>1. \A only \in {Partitions} \cup {{p} : p \in Partitions} : only \in SUBSET Partitions
      OBVIOUS
    <3> QED BY <1>6, <2>1, <3>1, Zenon DEF CallRestore
  <2> DEFINE next == [Idle EXCEPT !.at = "table", !.kind = "restore", !.ns = n,
                                  !.archive = archive, !.left = only]
  <2>3. next \in GoodTask /\ next.of = NONE /\ next.at = "table"
    <3>0. 0 \in 0..LastSecond
      BY NamesAssumption
    <3>1. next \in TaskState
      BY <1>2, <3>0 DEF Idle, TaskState, Places
    <3>2. next.of = NONE /\ next.at = "table" /\ next.ns = n
      BY DEF Idle
    <3> QED BY <3>1, <3>2 DEF GoodTask, Placed
  <2>4. Goes(j, next) /\ task[j].at = "idle"
    BY <1>6, <2>2 DEF CallRestore, At
  <2>5. UNCHANGED <<clock, current, table, folder, reserved, drops, promised, raced, gaps, lastTaken>>
    BY <1>6 DEF CallRestore, data, files, counters, history
  <2>6. task[j].at # "write" /\ next.at \notin {"insert", "tidy", "create", "write"} /\ next.of \notin Tables
    BY <2>3, <2>4, ApartAssumption
  <2> HIDE DEF next
  <2> QED BY <1>0, <2>3, <2>4, <2>5, <2>6, TaskMoves
<1> QED BY <1>3, <1>4, <1>5, <1>6

LEMMA NextNamespaceStep ==
  ASSUME IInv, NEW j \in Tasks, NextNamespace(j)
  PROVE  IInv'
<1>0. /\ task[j].at = "next" /\ task[j] \in GoodTask
      /\ current \in [Namespaces -> Generations]
      /\ lastTaken \in {NONE} \cup (0..clock)
  BY DEF IInv, Typed, TypeOK, NextNamespace, At, Generations
<1>1. UNCHANGED <<clock, current, table, folder, reserved, drops, promised, raced, gaps, lastTaken>>
  BY DEF NextNamespace, data, files, counters, history
<1>2. EmptyArchive \in Archive /\ 1 \in 1..MaxPerSecond
  BY NamesAssumption DEF EmptyArchive, Archive, NoRows
<1>3. CASE task[j].todo = {} /\ j = TIMER
  <2> DEFINE next == [task[j] EXCEPT !.at = "list"]
  <2>1. next \in GoodTask /\ next.of = task[j].of /\ next.at = "list"
    BY <1>0 DEF GoodTask, TaskState, Placed, Places
  <2>2. Goes(j, next)
    BY <1>3 DEF NextNamespace, Moves
  <2> HIDE DEF next
  <2> QED BY <1>0, <1>1, <2>1, <2>2, TaskMoves
<1>4. CASE task[j].todo = {} /\ j # TIMER
  <2>1. Ends(j)
    BY <1>4 DEF NextNamespace
  <2> QED BY <1>0, <1>1, <2>1, EndingMoves
<1>5. CASE task[j].todo # {}
  <2>1. PICK n \in task[j].todo :
          Goes(j, IF current[n] = NONE THEN [task[j] EXCEPT !.todo = @ \ {n}]
                  ELSE [[task[j] EXCEPT !.todo = @ \ {n}] EXCEPT
                          !.at = "build", !.ns = n, !.of = TableOf(n),
                          !.attempt = 1, !.archive = EmptyArchive])
    BY <1>5 DEF NextNamespace
  <2>2. n \in Namespaces
    BY <1>0 DEF GoodTask, TaskState
  <2> DEFINE rest == [task[j] EXCEPT !.todo = @ \ {n}]
             build == [rest EXCEPT !.at = "build", !.ns = n, !.of = TableOf(n),
                                   !.attempt = 1, !.archive = EmptyArchive]
  <2>3. rest \in GoodTask /\ rest.of = task[j].of /\ rest.at = "next"
    BY <1>0 DEF GoodTask, TaskState, Placed, Places
  <2>4. Goes(j, IF current[n] = NONE THEN rest ELSE build)
    BY <2>1
  <2> HIDE DEF rest
  <2>5. build \in GoodTask /\ build.of = <<n, current[n]>> /\ build.at = "build"
    <3>1. TableOf(n) \in Namespaces \X Generations /\ TableOf(n) = <<n, current[n]>>
      BY <1>0, <2>2 DEF TableOf
    <3>2. rest \in TaskState
      BY <2>3 DEF GoodTask
    <3>3. build \in TaskState
      BY <1>2, <2>2, <3>1, <3>2 DEF TaskState, Places
    <3>4. build.of = TableOf(n) /\ build.at = "build" /\ build.ns = n
      BY <3>2 DEF TaskState
    <3> QED BY <2>2, <3>1, <3>3, <3>4 DEF GoodTask, Placed
  <2>6. build.of[2] = current[build.of[1]]
    BY <2>5
  <2> HIDE DEF build
  <2> QED BY <1>0, <1>1, <2>3, <2>4, <2>5, <2>6, TaskMoves
<1> QED BY <1>3, <1>4, <1>5

LEMMA BuildsStep ==
  ASSUME IInv, NEW j \in Tasks, ReadAttributes(j) \/ ListPartitions(j) \/ ReadPartition(j)
  PROVE  IInv'
<1>0. /\ task[j].at \in {"build", "keys", "rows"} /\ task[j] \in GoodTask
      /\ table \in [Tables -> [schemas : SUBSET Versions,
                               rows : [Partitions -> Versions \cup {NONE}]]]
      /\ lastTaken \in {NONE} \cup (0..clock)
  BY DEF IInv, Typed, TypeOK, ReadAttributes, ListPartitions, ReadPartition, At
<1>1. UNCHANGED <<clock, current, table, folder, reserved, drops, promised, raced, gaps, lastTaken>>
  BY DEF ReadAttributes, ListPartitions, ReadPartition, data, files, counters, history
<1>2. ASSUME NEW next \in GoodTask, Goes(j, next), next.of = task[j].of,
             next.at \in {"reserve", "keys", "rows"}
      PROVE  IInv'
  BY <1>0, <1>1, <1>2, TaskMoves
<1>3. CASE ReadAttributes(j)
  <2>1. task[j].of \in Namespaces \X Generations /\ task[j].at = "build"
    BY <1>0, <1>3 DEF GoodTask, Placed, ReadAttributes, At
  <2>2. CASE task[j].of[2] = NONE
    <3> DEFINE next == [task[j] EXCEPT !.at = "reserve"]
    <3>1. next \in GoodTask /\ next.of = task[j].of /\ next.at = "reserve"
      BY <1>0 DEF GoodTask, TaskState, Placed, Places
    <3>2. Goes(j, next)
      BY <1>3, <2>2 DEF ReadAttributes
    <3> HIDE DEF next
    <3> QED BY <1>2, <3>1, <3>2
  <2>3. CASE task[j].of[2] # NONE
    <3> DEFINE archive == OfTable(table[task[j].of].schemas)
               next == [task[j] EXCEPT !.at = "keys", !.archive = archive]
    <3>1. task[j].of \in Tables
      BY <2>1, <2>3 DEF Generations, Tables
    <3>2. archive \in Archive
      BY <1>0, <3>1 DEF OfTable, Archive, NoRows
    <3>3. Goes(j, next)
      BY <1>3, <2>3 DEF ReadAttributes
    <3> HIDE DEF archive
    <3>4. next \in GoodTask /\ next.of = task[j].of /\ next.at = "keys"
      BY <1>0, <3>1, <3>2 DEF GoodTask, TaskState, Placed, Places
    <3> HIDE DEF next
    <3> QED BY <1>2, <3>3, <3>4
  <2> QED BY <2>2, <2>3
<1>4. CASE ListPartitions(j)
  <2> DEFINE keys == Held(table[task[j].of])
             place == IF keys = {} THEN "reserve" ELSE "rows"
             next == [task[j] EXCEPT !.at = place, !.left = keys]
  <2>1. keys \subseteq Partitions
    BY DEF Held
  <2>2. Goes(j, next) /\ task[j].at = "keys"
    BY <1>4 DEF ListPartitions, At
  <2> HIDE DEF keys
  <2>3. place \in {"reserve", "rows"}
    OBVIOUS
  <2> HIDE DEF place
  <2>4. next \in GoodTask /\ next.of = task[j].of /\ next.at = place
    BY <1>0, <2>1, <2>2, <2>3 DEF GoodTask, TaskState, Placed, Places
  <2> HIDE DEF next
  <2> QED BY <1>2, <2>2, <2>3, <2>4
<1>5. CASE ReadPartition(j)
  <2>1. task[j].at = "rows" /\ task[j].of \in Tables
    BY <1>0, <1>5 DEF ReadPartition, At, GoodTask, Placed
  <2>2. PICK p \in task[j].left :
          Goes(j, [task[j] EXCEPT !.at = IF task[j].left = {p} THEN "reserve" ELSE "rows",
                                  !.left = @ \ {p},
                                  !.archive.rows[p] = table[task[j].of].rows[p]])
    BY <1>5 DEF ReadPartition
  <2>3. p \in Partitions
    BY <1>0, TaskFields
  <2> DEFINE row == table[task[j].of].rows[p]
             archive == [task[j].archive EXCEPT !.rows[p] = row]
             place == IF task[j].left = {p} THEN "reserve" ELSE "rows"
             next == [task[j] EXCEPT !.at = place, !.left = @ \ {p}, !.archive = archive]
  <2>4. row \in Versions \cup {NONE}
    BY <1>0, <2>1, <2>3
  <2>5. Goes(j, next)
    <3>1. [task[j] EXCEPT !.at = place, !.left = @ \ {p}, !.archive.rows[p] = row] = next
      BY <1>0 DEF GoodTask, TaskState
    <3> QED BY <2>2, <3>1
  <2> HIDE DEF row
  <2>6. archive \in Archive
    BY <1>0, <2>3, <2>4, TaskFields DEF Archive
  <2>7. place \in {"reserve", "rows"}
    OBVIOUS
  <2> HIDE DEF archive, place
  <2>8. next \in GoodTask /\ next.of = task[j].of /\ next.at = place
    BY <1>0, <2>1, <2>6, <2>7 DEF GoodTask, TaskState, Placed, Places
  <2> HIDE DEF next
  <2> QED BY <1>2, <2>5, <2>7, <2>8
<1> QED BY <1>3, <1>4, <1>5

-----------------------------------------------------------------------------
(* The name and the place of an archive.                                     *)

LEMMA StampType ==
  ASSUME NEW j \in Tasks, task \in [Tasks -> GoodTask]
  PROVE  Stamp(j) \in Stamps /\ Stamp(j) = <<task[j].now, task[j].attempt>>
BY TaskFields DEF Stamp, Stamps

(* The next attempt, or the end of the call.                                 *)
LEMMA NextAttemptMoves ==
  ASSUME IInv, NEW j \in Tasks, task[j].at \in {"reserve", "create"}, NextAttempt(j),
         UNCHANGED <<clock, current, table, folder, reserved, drops, promised, raced, gaps, lastTaken>>
  PROVE  IInv'
<1>0. task[j] \in GoodTask /\ lastTaken \in {NONE} \cup (0..clock)
  BY DEF IInv, Typed, TypeOK
<1>1. CASE task[j].attempt = MaxPerSecond
  BY <1>1, EndingMoves DEF NextAttempt
<1>2. CASE task[j].attempt # MaxPerSecond
  <2> DEFINE attempt == task[j].attempt + 1
             next == [task[j] EXCEPT !.at = "reserve", !.attempt = attempt]
  <2>1. attempt \in 1..MaxPerSecond
    BY <1>0, <1>2, TaskFields, NamesAssumption
  <2>2. Goes(j, next)
    BY <1>2 DEF NextAttempt
  <2> HIDE DEF attempt
  <2>3. next \in GoodTask /\ next.of = task[j].of /\ next.at = "reserve"
    BY <1>0, <2>1 DEF GoodTask, TaskState, Placed, Places
  <2> HIDE DEF next
  <2> QED BY <1>0, <2>2, <2>3, TaskMoves
<1> QED BY <1>1, <1>2

LEMMA TryExistsStep ==
  ASSUME IInv, NEW j \in Tasks, TryExists(j) \/ TryExistsRefused(j) \/ Refused(j)
  PROVE  IInv'
<1>0. task[j] \in GoodTask /\ lastTaken \in {NONE} \cup (0..clock)
  BY DEF IInv, Typed, TypeOK
<1>1. /\ UNCHANGED <<clock, current, table, folder, reserved, drops, promised, gaps, lastTaken>>
      /\ TryExists(j) \/ Refused(j) => UNCHANGED raced
  BY DEF TryExists, TryExistsRefused, Refused, data, files, counters, history
<1>2. CASE Refused(j)
  <2>1. task[j].at \in {"reserve", "create"} /\ Ends(j)
    BY <1>2 DEF Refused, Fails
  <2> QED BY <1>1, <1>2, <2>1, EndingMoves
<1> DEFINE next == [task[j] EXCEPT !.at = "create"]
<1>3. ASSUME task[j].at = "reserve", Moves(j, "create"),
             raced \subseteq raced', raced' \subseteq Namespaces \X Stamps,
             \/ folder[task[j].ns][Stamp(j)] = NONE
             \/ <<task[j].ns, Stamp(j)>> \in raced'
      PROVE  IInv'
  <2>1. /\ next \in GoodTask /\ next.of = task[j].of /\ next.at = "create"
        /\ next.ns = task[j].ns /\ next.now = task[j].now /\ next.attempt = task[j].attempt
    BY <1>0, <1>3 DEF GoodTask, TaskState, Placed, Places
  <2>2. Goes(j, next)
    BY <1>3 DEF Moves
  <2> HIDE DEF next
  <2>3. \/ folder[next.ns][<<next.now, next.attempt>>] = NONE
        \/ <<next.ns, <<next.now, next.attempt>>>> \in raced'
    BY <1>3, <2>1 DEF Stamp
  <2>4. next.at \notin {"insert", "write", "tidy"} /\ task[j].at # "write"
    BY <1>3, <2>1
  <2> QED BY <1>0, <1>1, <1>3, <2>1, <2>2, <2>3, <2>4, TaskMovesOn
<1>4. raced \subseteq Namespaces \X Stamps
  BY DEF IInv, Typed, TypeOK
<1>5. CASE TryExists(j)
  <2>1. task[j].at = "reserve" /\ UNCHANGED raced
    BY <1>1, <1>5 DEF TryExists, At
  <2>2. CASE folder[task[j].ns][Stamp(j)] # NONE
    <3>1. NextAttempt(j)
      BY <1>5, <2>2 DEF TryExists
    <3> QED BY <1>1, <2>1, <3>1, NextAttemptMoves
  <2>3. CASE folder[task[j].ns][Stamp(j)] = NONE
    <3>1. Moves(j, "create")
      BY <1>5, <2>3 DEF TryExists
    <3> QED BY <1>3, <1>4, <2>1, <2>3, <3>1
  <2> QED BY <2>2, <2>3
<1>6. CASE TryExistsRefused(j)
  <2>1. /\ task[j].at = "reserve" /\ Moves(j, "create")
        /\ raced' = raced \cup {<<task[j].ns, Stamp(j)>>}
    BY <1>6 DEF TryExistsRefused, At
  <2>2. task[j].ns \in Namespaces /\ Stamp(j) \in Stamps
    BY <1>0, <2>1, StampType DEF GoodTask, Placed, IInv, Typed
  <2>3. raced \subseteq raced' /\ raced' \subseteq Namespaces \X Stamps
    BY <1>4, <2>1, <2>2
  <2> QED BY <1>3, <2>1, <2>3
<1> QED BY <1>2, <1>5, <1>6

(* The task that creates the file is the only one that answers for it.       *)
LEMMA CreateNewStep ==
  ASSUME IInv, NEW j \in Tasks, CreateNew(j)
  PROVE  IInv'
<1>0. task[j] \in GoodTask /\ task[j].at = "create" /\ task[j].ns \in Namespaces
  BY DEF IInv, Typed, CreateNew, At, GoodTask, Placed
<1>1. UNCHANGED <<clock, current, table, folder, drops, promised, raced, gaps, lastTaken>>
  BY DEF CreateNew, data, counters, history
<1>2. PICK n \in Namespaces, s \in Stamps : n = task[j].ns /\ s = Stamp(j)
  BY <1>0, StampType DEF IInv, Typed
<1>3. CASE reserved[n][s] # NONE
  <2>1. NextAttempt(j) /\ UNCHANGED reserved
    BY <1>2, <1>3 DEF CreateNew
  <2> QED BY <1>0, <1>1, <2>1, NextAttemptMoves
<1>4. CASE reserved[n][s] = NONE
  <2> DEFINE next == [task[j] EXCEPT !.at = "write"]
  <2>1. /\ next \in GoodTask /\ next.of = task[j].of /\ next.at = "write" /\ next.ns = n
        /\ <<next.now, next.attempt>> = s
    BY <1>0, <1>2 DEF GoodTask, TaskState, Placed, Places, Stamp
  <2>2. Goes(j, next) /\ reserved' = [reserved EXCEPT ![n][s] = j]
    BY <1>2, <1>4 DEF CreateNew, Moves
  <2> HIDE DEF next
  <2>3. /\ task' \in [Tasks -> GoodTask] /\ task'[j] = next
        /\ \A k \in Tasks : k # j => task'[k] = task[k]
    BY <2>1, <2>2, TaskGoes DEF IInv
  <2>4. reserved \in [Namespaces -> [Stamps -> Tasks \cup {STALE, NONE}]]
    BY DEF IInv, Typed, TypeOK
  <2>5. /\ reserved' \in [Namespaces -> [Stamps -> Tasks \cup {STALE, NONE}]]
        /\ \A m \in Namespaces, t \in Stamps :
             reserved'[m][t] = IF m = n /\ t = s THEN j ELSE reserved[m][t]
    BY <2>2, <2>4
  <2>6. Typed'
    BY <1>1, <2>3, <2>5, TasksTypedNext DEF IInv, Typed, TypeOK
  <2>7. Ages'
    BY <1>1, <2>1, <2>3 DEF IInv, Ages
  <2>8. Schemas'
    BY <1>1, <2>1, <2>3, BroughtSame DEF IInv, Schemas, RowsKeepTheirSchemas, At
  <2>9. ReservationsAreHeld'
    BY <1>0, <2>1, <2>3, <2>5 DEF IInv, ReservationsAreHeld, At, Stamp
  <2>10. Retained'
    <3>1. \A m, t : Outnumbered(m, t)' <=> Outnumbered(m, t)
      BY <1>1 DEF Outnumbered, Listed, Newer
    <3> QED BY <1>1, <2>1, <2>3, <3>1 DEF IInv, Retained, At
  <2>11. Naming'
    <3>1. ASSUME NEW k \in Tasks, task'[k].at \in {"create", "write"}
          PROVE  /\ \/ folder'[task'[k].ns][<<task'[k].now, task'[k].attempt>>] = NONE
                    \/ <<task'[k].ns, <<task'[k].now, task'[k].attempt>>>> \in raced'
                 /\ task'[k].at = "write" =>
                      reserved'[task'[k].ns][<<task'[k].now, task'[k].attempt>>] = k
      <4>1. CASE k = j
        <5>1. folder[n][s] = NONE \/ <<n, s>> \in raced
          BY <1>0, <1>2 DEF IInv, Naming
        <5> QED BY <1>1, <2>1, <2>3, <2>5, <4>1, <5>1
      <4>2. CASE k # j
        <5>1. /\ task'[k] = task[k]
              /\ \/ folder[task[k].ns][Stamp(k)] = NONE
                 \/ <<task[k].ns, Stamp(k)>> \in raced
              /\ task[k].at = "write" => reserved[task[k].ns][Stamp(k)] = k
          BY <2>3, <3>1, <4>2 DEF IInv, Naming
        <5>2. task[k].ns \in Namespaces /\ Stamp(k) \in Stamps
          BY <3>1, <5>1, StampType DEF IInv, Typed, GoodTask, Placed
        <5>3. task[k].at = "write" => reserved'[task[k].ns][Stamp(k)] = k
          BY <1>4, <2>5, <5>1, <5>2, ApartAssumption
        <5> QED BY <1>1, <5>1, <5>3 DEF Stamp
      <4> QED BY <4>1, <4>2
    <3> QED BY <3>1 DEF Naming, Stamp
  <2> QED BY <2>6, <2>7, <2>8, <2>9, <2>10, <2>11 DEF IInv
<1> QED BY <1>3, <1>4

(* What writing ends with: the reservation is nobody's, and with it the only *)
(* one the task had.                                                         *)
LEMMA WritingEnds ==
  ASSUME IInv, NEW j \in Tasks, task[j].at = "write", NEW next \in GoodTask, Goes(j, next),
         next.at \notin {"create", "write"}, NEW left \in {NONE, STALE},
         reserved' = [reserved EXCEPT ![task[j].ns][Stamp(j)] = left],
         raced \subseteq raced',
         \A k \in Tasks : (k # j /\ task[k].at \in {"create", "write"}) =>
           \/ folder'[task[k].ns][Stamp(k)] = folder[task[k].ns][Stamp(k)]
           \/ task[k].at = "create" /\ <<task[k].ns, Stamp(k)>> \in raced'
           \/ task[k].ns = task[j].ns /\ Stamp(k) = Stamp(j) /\ task[k].at = "write"
  PROVE  /\ reserved' \in [Namespaces -> [Stamps -> Tasks \cup {STALE, NONE}]]
         /\ ReservationsAreHeld'
         /\ Naming'
<1>0. task[j] \in GoodTask /\ task[j].ns \in Namespaces
  BY DEF IInv, Typed, GoodTask, Placed
<1>1. PICK n \in Namespaces, s \in Stamps : n = task[j].ns /\ s = Stamp(j)
  BY <1>0, StampType DEF IInv, Typed
<1>2. reserved \in [Namespaces -> [Stamps -> Tasks \cup {STALE, NONE}]]
  BY DEF IInv, Typed, TypeOK
<1>3. /\ reserved' \in [Namespaces -> [Stamps -> Tasks \cup {STALE, NONE}]]
      /\ \A m \in Namespaces, t \in Stamps :
           reserved'[m][t] = IF m = n /\ t = s THEN left ELSE reserved[m][t]
  BY <1>1, <1>2
<1>4. \A m \in Namespaces, t \in Stamps : reserved[m][t] = j => m = n /\ t = s
  BY <1>1 DEF IInv, ReservationsAreHeld
<1>5. \A k \in Tasks : k # j => task'[k] = task[k]
  BY TaskGoes DEF IInv
<1>6. left \notin Tasks
  BY ApartAssumption
<1>7. ReservationsAreHeld'
  BY <1>3, <1>4, <1>5, <1>6 DEF IInv, ReservationsAreHeld, At, Stamp
<1>8. ASSUME NEW k \in Tasks, task'[k].at \in {"create", "write"}
      PROVE  /\ \/ folder'[task'[k].ns][<<task'[k].now, task'[k].attempt>>] = NONE
                \/ <<task'[k].ns, <<task'[k].now, task'[k].attempt>>>> \in raced'
             /\ task'[k].at = "write" =>
                  reserved'[task'[k].ns][<<task'[k].now, task'[k].attempt>>] = k
  <2>1. k # j /\ task'[k] = task[k]
    BY <1>5, <1>8, TaskGoes DEF IInv
  <2>2. /\ \/ folder[task[k].ns][Stamp(k)] = NONE
           \/ <<task[k].ns, Stamp(k)>> \in raced
        /\ task[k].at = "write" => reserved[task[k].ns][Stamp(k)] = k
    BY <1>8, <2>1 DEF IInv, Naming
  <2>3. task[k].ns \in Namespaces /\ Stamp(k) \in Stamps
    BY <1>8, <2>1, StampType DEF IInv, Typed, GoodTask, Placed
  <2>4. task[k].at = "write" => ~(task[k].ns = n /\ Stamp(k) = s)
    <3>1. reserved[n][s] = j
      BY <1>1 DEF IInv, Naming
    <3> QED BY <2>1, <2>2, <3>1
  <2>5. task[k].at = "write" => reserved'[task[k].ns][Stamp(k)] = k
    BY <1>3, <2>2, <2>3, <2>4
  <2>6. folder'[task[k].ns][Stamp(k)] = NONE \/ <<task[k].ns, Stamp(k)>> \in raced'
    BY <1>1, <1>8, <2>1, <2>2, <2>4
  <2> QED BY <2>1, <2>5, <2>6 DEF Stamp
<1>9. Naming'
  BY <1>8 DEF Naming, Stamp
<1> QED BY <1>3, <1>7, <1>9

(* Written and renamed, a backup is promised and listed.                     *)
LEMMA WriteAndRenameStep ==
  ASSUME IInv, NEW j \in Tasks, WriteAndRename(j)
  PROVE  IInv'
<1>0. task[j] \in GoodTask /\ task[j].at = "write" /\ task[j].ns \in Namespaces
  BY DEF IInv, Typed, WriteAndRename, At, GoodTask, Placed
<1>1. UNCHANGED <<clock, current, table, drops, gaps, lastTaken>>
  BY DEF WriteAndRename, data, counters
<1>2. PICK n \in Namespaces, s \in Stamps : n = task[j].ns /\ s = Stamp(j)
  BY <1>0, StampType DEF IInv, Typed
<1>3. PICK archive \in Archive : archive = task[j].archive
  BY <1>0, TaskFields
<1>4. PICK next \in GoodTask :
        Goes(j, next) /\ next.of \in {NONE, task[j].of} /\ next.at \in {"idle", "ended", "next"}
  <2>1. CASE task[j].kind = "one"
    <3>1. PICK place \in {"idle", "ended"} : Goes(j, [Idle EXCEPT !.at = place])
      BY <2>1 DEF WriteAndRename, Ends
    <3> QED BY <3>1, IdleIsGood
  <2>2. CASE task[j].kind # "one"
    <3> DEFINE next == [Idle EXCEPT !.at = "next", !.kind = "all", !.todo = task[j].todo,
                                    !.now = task[j].now, !.taken = task[j].taken \cup {n}]
    <3>1. next \in GoodTask /\ next.of = NONE /\ next.at = "next"
      <4>1. Idle \in GoodTask
        <5>1. Idle = [Idle EXCEPT !.at = "idle"]
          BY DEF Idle
        <5> QED BY <5>1, IdleIsGood
      <4>2. /\ task[j].todo \in SUBSET Namespaces /\ task[j].now \in 0..LastSecond
            /\ task[j].taken \cup {n} \in SUBSET Namespaces
        BY <1>0 DEF GoodTask, TaskState
      <4>3. next \in TaskState
        BY <4>1, <4>2 DEF GoodTask, TaskState, Places
      <4>4. next.of = NONE /\ next.at = "next"
        BY DEF Idle
      <4> QED BY <4>3, <4>4 DEF GoodTask, Placed
    <3>2. Goes(j, next)
      BY <1>2, <2>2 DEF WriteAndRename
    <3> HIDE DEF next
    <3> QED BY <3>1, <3>2
  <2> QED BY <2>1, <2>2
<1>5. /\ folder' = [folder EXCEPT ![n][s] = archive]
      /\ reserved' = [reserved EXCEPT ![task[j].ns][Stamp(j)] = NONE]
      /\ promised' = promised \cup {<<n, s, archive>>}
      /\ raced' = IF \E i \in Tasks : At(i, "create") /\ task[i].ns = n /\ Stamp(i) = s
                  THEN raced \cup {<<n, s>>} ELSE raced
  BY <1>2, <1>3 DEF WriteAndRename
<1>6. /\ task' \in [Tasks -> GoodTask] /\ task'[j] = next
      /\ \A k \in Tasks : k # j => task'[k] = task[k]
  BY <1>4, TaskGoes DEF IInv
<1>7. /\ folder \in [Namespaces -> [Stamps -> Archive \cup {NONE}]]
      /\ promised \subseteq Namespaces \X Stamps \X Archive
      /\ raced \subseteq raced' /\ raced' \subseteq Namespaces \X Stamps
  BY <1>5 DEF IInv, Typed, TypeOK
<1>8. /\ folder' \in [Namespaces -> [Stamps -> Archive \cup {NONE}]]
      /\ \A m \in Namespaces, t \in Stamps :
           folder'[m][t] = IF m = n /\ t = s THEN archive ELSE folder[m][t]
  BY <1>5, <1>7
<1>9. /\ reserved' \in [Namespaces -> [Stamps -> Tasks \cup {STALE, NONE}]]
      /\ ReservationsAreHeld' /\ Naming'
  <2>1. ASSUME NEW k \in Tasks, k # j, task[k].at \in {"create", "write"}
        PROVE  \/ folder'[task[k].ns][Stamp(k)] = folder[task[k].ns][Stamp(k)]
               \/ task[k].at = "create" /\ <<task[k].ns, Stamp(k)>> \in raced'
               \/ task[k].ns = task[j].ns /\ Stamp(k) = Stamp(j) /\ task[k].at = "write"
    <3>1. task[k].ns \in Namespaces /\ Stamp(k) \in Stamps
      BY <2>1, StampType DEF IInv, Typed, GoodTask, Placed
    <3>2. CASE task[k].ns = n /\ Stamp(k) = s
      <4>1. task[k].at = "create" => <<n, s>> \in raced'
        BY <1>5, <3>2 DEF At
      <4> QED BY <1>2, <2>1, <3>2, <4>1
    <3>3. CASE ~(task[k].ns = n /\ Stamp(k) = s)
      BY <1>8, <3>1, <3>3
    <3> QED BY <3>2, <3>3
  <2>2. PICK left \in {NONE, STALE} : left = NONE
    OBVIOUS
  <2>3. reserved' = [reserved EXCEPT ![task[j].ns][Stamp(j)] = left]
    BY <1>5, <2>2
  <2>4. next.at \notin {"create", "write"}
    BY <1>4
  <2> QED BY <1>0, <1>4, <1>7, <2>1, <2>3, <2>4, WritingEnds
<1>10. Typed'
  BY <1>1, <1>5, <1>6, <1>7, <1>8, <1>9, TasksTypedNext DEF IInv, Typed, TypeOK
<1>11. Ages'
  BY <1>1, <1>4, <1>6, ApartAssumption DEF IInv, Ages
<1>12. Schemas'
  BY <1>1, <1>4, <1>6, BroughtSame DEF IInv, Schemas, RowsKeepTheirSchemas, At
<1>13. Retained'
  <2>1. archive # NONE
    BY ApartAssumption
  <2>2. \A m \in Namespaces : Listed(m) \subseteq Listed(m)'
    BY <1>8, <2>1 DEF Listed
  <2>3. \A m \in Namespaces : \A t : Outnumbered(m, t) => Outnumbered(m, t)'
    BY <2>2, MoreListed
  <2>4. ASSUME NEW m \in Namespaces, NEW t \in Stamps, NEW kept \in Archive,
               <<m, t, kept>> \in promised'
        PROVE  folder'[m][t] = kept \/ Outnumbered(m, t)' \/ <<m, t>> \in raced'
    <3>1. CASE <<m, t, kept>> = <<n, s, archive>>
      BY <1>8, <3>1
    <3>2. CASE <<m, t, kept>> # <<n, s, archive>>
      <4>1. folder[m][t] = kept \/ Outnumbered(m, t) \/ <<m, t>> \in raced
        BY <1>5, <2>4, <3>2 DEF IInv, Retained
      <4>2. CASE folder[m][t] = kept /\ m = n /\ t = s
        BY <1>0, <1>2, <1>7, <4>2, ApartAssumption DEF IInv, Naming
      <4>3. CASE folder[m][t] = kept /\ ~(m = n /\ t = s)
        BY <1>8, <4>3
      <4> QED BY <1>7, <2>3, <4>1, <4>2, <4>3
    <3> QED BY <3>1, <3>2
  <2>5. \A k \in Tasks : At(k, "tidy") => task[k].ns \in Namespaces
    BY DEF IInv, Typed, At, GoodTask, Placed
  <2>6. ASSUME NEW k \in Tasks, task'[k].at = "tidy", NEW t \in task'[k].tidy
        PROVE  Outnumbered(task[k].ns, t)'
    <3>1. task'[k] = task[k] /\ task[k].ns \in Namespaces
      BY <1>4, <1>6, <2>5, <2>6 DEF At
    <3>2. Outnumbered(task[k].ns, t)
      BY <2>6, <3>1 DEF IInv, Retained, At
    <3>3. PICK m \in Namespaces : m = task[k].ns
      BY <3>1
    <3>4. Outnumbered(m, t)'
      BY <2>3, <3>2, <3>3
    <3>5. m = task'[k].ns
      BY <3>1, <3>3
    <3> QED BY <3>4, <3>5 DEF Outnumbered
  <2> QED BY <2>4, <2>6 DEF Retained, At
<1> QED BY <1>9, <1>10, <1>11, <1>12, <1>13 DEF IInv

LEMMA GivesBackStep ==
  ASSUME IInv, NEW j \in Tasks, GivesBack(j)
  PROVE  IInv'
<1>1. /\ UNCHANGED <<clock, current, table, folder, drops, promised, raced, gaps, lastTaken>>
      /\ task[j].at = "write" /\ Ends(j)
  BY DEF GivesBack, Fails, At, data, history
<1>0. PICK left \in {NONE, STALE} :
        reserved' = [reserved EXCEPT ![task[j].ns][Stamp(j)] = left]
  BY DEF GivesBack
<1>2. PICK place \in {"idle", "ended"} : Goes(j, [Idle EXCEPT !.at = place])
  BY <1>1 DEF Ends
<1> DEFINE next == [Idle EXCEPT !.at = place]
<1>3. next \in GoodTask /\ next.of = NONE /\ next.at = place
  BY IdleIsGood
<1>4. Goes(j, next)
  BY <1>2
<1> HIDE DEF next
<1>5. /\ task' \in [Tasks -> GoodTask] /\ task'[j] = next
      /\ \A k \in Tasks : k # j => task'[k] = task[k]
  BY <1>3, <1>4, TaskGoes DEF IInv
<1>6. /\ reserved' \in [Namespaces -> [Stamps -> Tasks \cup {STALE, NONE}]]
      /\ ReservationsAreHeld' /\ Naming'
  <2>1. next.at \notin {"create", "write"} /\ raced \subseteq raced'
    BY <1>1, <1>3
  <2> QED BY <1>0, <1>1, <1>3, <1>4, <2>1, WritingEnds
<1>7. Typed'
  BY <1>1, <1>5, <1>6, TasksTypedNext DEF IInv, Typed, TypeOK
<1>8. Ages'
  BY <1>1, <1>3, <1>5, ApartAssumption DEF IInv, Ages
<1>9. Schemas'
  BY <1>1, <1>3, <1>5, BroughtSame DEF IInv, Schemas, RowsKeepTheirSchemas, At
<1>10. Retained'
  <2>1. \A m, t : Outnumbered(m, t)' <=> Outnumbered(m, t)
    BY <1>1 DEF Outnumbered, Listed, Newer
  <2> QED BY <1>1, <1>3, <1>5, <2>1 DEF IInv, Retained, At
<1> QED BY <1>6, <1>7, <1>8, <1>9, <1>10 DEF IInv

-----------------------------------------------------------------------------
(* Retention.                                                                *)

LEMMA ListStep ==
  ASSUME IInv, NEW j \in Tasks, List(j)
  PROVE  IInv'
<1>0. /\ task[j] \in GoodTask /\ task[j].at = "list"
      /\ lastTaken \in {NONE} \cup (0..clock)
  BY DEF IInv, Typed, TypeOK, List, At
<1>1. UNCHANGED <<clock, current, table, folder, reserved, drops, promised, raced, gaps, lastTaken>>
  BY DEF List, data, files, counters, history
<1>2. CASE task[j].taken = {}
  BY <1>0, <1>1, <1>2, EndingMoves DEF List
<1>3. CASE task[j].taken # {}
  <2>1. PICK n \in task[j].taken :
          Goes(j, [task[j] EXCEPT !.at = "tidy", !.ns = n, !.taken = @ \ {n},
                                  !.tidy = PastTheLast(n)])
    BY <1>3 DEF List
  <2>2. PICK past \in SUBSET Stamps : past = PastTheLast(n)
    BY DEF PastTheLast, Listed
  <2> DEFINE next == [task[j] EXCEPT !.at = "tidy", !.ns = n, !.taken = @ \ {n}, !.tidy = past]
  <2>3. n \in Namespaces
    BY <1>0, TaskFields
  <2>4. /\ next \in GoodTask /\ next.of = task[j].of /\ next.at = "tidy"
        /\ next.ns = n /\ next.tidy = past
    BY <1>0, <2>3 DEF GoodTask, TaskState, Placed, Places
  <2>5. Goes(j, next)
    BY <2>1, <2>2
  <2> HIDE DEF next
  <2>6. \A s \in next.tidy : Outnumbered(next.ns, s)
    BY <2>2, <2>4 DEF PastTheLast, Outnumbered
  <2> QED BY <1>0, <1>1, <2>4, <2>5, <2>6, TaskMoves
<1> QED BY <1>2, <1>3

(* Removing the oldest leaves everything that is outnumbered outnumbered.    *)
LEMMA TidyStep ==
  ASSUME IInv, NEW j \in Tasks, Tidy(j)
  PROVE  IInv'
<1>0. /\ task[j] \in GoodTask /\ task[j].at = "tidy" /\ task[j].ns \in Namespaces
      /\ lastTaken \in {NONE} \cup (0..clock)
  BY DEF IInv, Typed, TypeOK, Tidy, At, GoodTask, Placed
<1>1. UNCHANGED <<clock, current, table, reserved, drops, promised, raced, gaps, lastTaken>>
  BY DEF Tidy, data, history
<1>2. CASE task[j].tidy = {}
  <2> DEFINE next == [task[j] EXCEPT !.at = "list"]
  <2>1. next \in GoodTask /\ next.of = task[j].of /\ next.at = "list"
    BY <1>0 DEF GoodTask, TaskState, Placed, Places
  <2>2. Goes(j, next) /\ folder' = folder
    BY <1>2 DEF Tidy, Moves
  <2> HIDE DEF next
  <2> QED BY <1>0, <1>1, <2>1, <2>2, TaskMoves
<1>3. CASE task[j].tidy # {}
  <2>1. PICK s \in task[j].tidy :
          /\ Goes(j, [task[j] EXCEPT !.tidy = @ \ {s}])
          /\ \/ folder' = [folder EXCEPT ![task[j].ns][s] = NONE]
             \/ UNCHANGED folder
    BY <1>3 DEF Tidy
  <2>2. s \in Stamps /\ task[j].tidy \subseteq Stamps
    BY <1>0, TaskFields
  <2> DEFINE next == [task[j] EXCEPT !.tidy = @ \ {s}]
  <2>3. /\ next \in GoodTask /\ next.of = task[j].of /\ next.at = "tidy"
        /\ next.ns = task[j].ns /\ next.tidy = task[j].tidy \ {s}
    BY <1>0 DEF GoodTask, TaskState, Placed, Places
  <2>4. Goes(j, next)
    BY <2>1
  <2> HIDE DEF next
  <2>5. \A t \in task[j].tidy : Outnumbered(task[j].ns, t)
    BY <1>0 DEF IInv, Retained, At
  <2>6. CASE UNCHANGED folder
    <3>1. \A t \in next.tidy : Outnumbered(next.ns, t)
      BY <2>3, <2>5
    <3> QED BY <1>0, <1>1, <2>3, <2>4, <2>6, <3>1, TaskMoves
  <2>7. CASE folder' = [folder EXCEPT ![task[j].ns][s] = NONE]
    <3>1. PICK n \in Namespaces : n = task[j].ns
      BY <1>0
    <3>2. /\ task' \in [Tasks -> GoodTask] /\ task'[j] = next
          /\ \A k \in Tasks : k # j => task'[k] = task[k]
      BY <2>3, <2>4, TaskGoes DEF IInv
    <3>3. folder \in [Namespaces -> [Stamps -> Archive \cup {NONE}]]
      BY DEF IInv, Typed, TypeOK
    <3>4. /\ folder' \in [Namespaces -> [Stamps -> Archive \cup {NONE}]]
          /\ \A m \in Namespaces, t \in Stamps :
               folder'[m][t] = IF m = n /\ t = s THEN NONE ELSE folder[m][t]
      BY <2>2, <2>7, <3>1, <3>3
    <3>5. Listed(n)' = Listed(n) \ {s}
      BY <3>4 DEF Listed
    <3>6. \A m \in Namespaces : m # n => Listed(m)' = Listed(m)
      BY <3>4 DEF Listed
    <3>7. ASSUME NEW m \in Namespaces, NEW t \in Stamps, Outnumbered(m, t)
          PROVE  Outnumbered(m, t)'
      <4>1. CASE m = n
        <5>1. Outnumbered(n, s) /\ Outnumbered(n, t)
          BY <2>5, <3>1, <3>7, <4>1
        <5>2. Outnumbered(n, t)'
          BY <2>2, <3>5, <5>1, OldestGoes
        <5> QED BY <4>1, <5>2
      <4>2. CASE m # n
        <5>1. Listed(m) \subseteq Listed(m)'
          BY <3>6, <4>2
        <5> QED BY <3>7, <5>1, MoreListed
      <4> QED BY <4>1, <4>2
    <3>8. Typed'
      BY <1>1, <3>2, <3>4, TasksTypedNext DEF IInv, Typed, TypeOK
    <3>9. Ages'
      BY <1>1, <2>3, <3>2 DEF IInv, Ages
    <3>10. Schemas'
      BY <1>0, <1>1, <2>3, <3>2, BroughtSame DEF IInv, Schemas, RowsKeepTheirSchemas, At
    <3>11. ReservationsAreHeld'
      BY <1>0, <1>1, <2>3, <3>2 DEF IInv, ReservationsAreHeld, At, Stamp
    <3>12. Retained'
      <4>1. \A m \in Namespaces, t \in Stamps, kept \in Archive :
              <<m, t, kept>> \in promised' =>
                folder'[m][t] = kept \/ Outnumbered(m, t)' \/ <<m, t>> \in raced'
        <5>1. Outnumbered(n, s)
          BY <2>5, <3>1
        <5> QED BY <1>1, <2>2, <3>4, <3>7, <5>1 DEF IInv, Retained
      <4>2. ASSUME NEW k \in Tasks, task'[k].at = "tidy", NEW t \in task'[k].tidy
            PROVE  Outnumbered(task[k].ns, t)'
        <5>1. /\ task'[k].ns = task[k].ns /\ task[k].at = "tidy" /\ t \in task[k].tidy
              /\ task[k] \in GoodTask
          BY <1>0, <2>3, <3>2, <4>2 DEF IInv, Typed
        <5>2. task[k].ns \in Namespaces /\ t \in Stamps
          BY <5>1, TaskFields DEF GoodTask, Placed
        <5>3. Outnumbered(task[k].ns, t)
          BY <5>1 DEF IInv, Retained, At
        <5>4. PICK m \in Namespaces : m = task[k].ns
          BY <5>2
        <5>5. Outnumbered(m, t)'
          BY <3>7, <5>2, <5>3, <5>4
        <5>6. m = task'[k].ns
          BY <5>1, <5>4
        <5> QED BY <5>5, <5>6 DEF Outnumbered
      <4> QED BY <4>1, <4>2 DEF Retained, At
    <3>13. Naming'
      <4>1. ASSUME NEW k \in Tasks, task'[k].at \in {"create", "write"}
            PROVE  /\ \/ folder'[task'[k].ns][<<task'[k].now, task'[k].attempt>>] = NONE
                      \/ <<task'[k].ns, <<task'[k].now, task'[k].attempt>>>> \in raced'
                   /\ task'[k].at = "write" =>
                        reserved'[task'[k].ns][<<task'[k].now, task'[k].attempt>>] = k
        <5>1. task'[k] = task[k]
          BY <2>3, <3>2, <4>1
        <5>2. /\ \/ folder[task[k].ns][Stamp(k)] = NONE
                 \/ <<task[k].ns, Stamp(k)>> \in raced
              /\ task[k].at = "write" => reserved[task[k].ns][Stamp(k)] = k
          BY <4>1, <5>1 DEF IInv, Naming
        <5>3. task[k].ns \in Namespaces /\ Stamp(k) \in Stamps
          BY <4>1, <5>1, StampType DEF IInv, Typed, GoodTask, Placed
        <5>4. folder'[task[k].ns][Stamp(k)] = NONE \/ <<task[k].ns, Stamp(k)>> \in raced'
          BY <1>1, <3>4, <5>2, <5>3
        <5> QED BY <1>1, <5>1, <5>2, <5>4 DEF Stamp
      <4> QED BY <4>1 DEF Naming, Stamp
    <3> QED BY <3>8, <3>9, <3>10, <3>11, <3>12, <3>13 DEF IInv
  <2> QED BY <2>1, <2>6, <2>7
<1> QED BY <1>2, <1>3

-----------------------------------------------------------------------------
(* The tables.                                                               *)

(* What is left to show of a step that touches neither tasks nor files.      *)
LEMMA TablesStep ==
  ASSUME IInv, UNCHANGED <<folder, reserved, task, lastTaken, promised, raced>>,
         clock' \in 0..LastSecond, clock <= clock',
         current' \in [Namespaces -> Generations], drops' \in 0..MaxDrops,
         table' \in [Tables -> [schemas : SUBSET Versions,
                                rows : [Partitions -> Versions \cup {NONE}]]],
         gaps' \in [Tables -> SUBSET Versions],
         Ages', Schemas'
  PROVE  IInv'
<1>1. lastTaken' \in {NONE} \cup (0..clock')
  BY NamesAssumption DEF IInv, Typed, TypeOK
<1>2. Typed'
  BY <1>1 DEF IInv, Typed, TypeOK, Generations
<1>3. ReservationsAreHeld'
  BY DEF IInv, ReservationsAreHeld, At, Stamp
<1>4. Retained'
  BY DEF IInv, Retained, At, Outnumbered, Listed, Newer
<1>5. Naming'
  BY DEF IInv, Naming, Stamp
<1> QED BY <1>2, <1>3, <1>4, <1>5 DEF IInv

LEMMA TablesTyped ==
  ASSUME Typed
  PROVE  /\ clock \in 0..LastSecond /\ clock <= clock
         /\ current \in [Namespaces -> Generations] /\ drops \in 0..MaxDrops
         /\ table \in [Tables -> [schemas : SUBSET Versions,
                                  rows : [Partitions -> Versions \cup {NONE}]]]
         /\ gaps \in [Tables -> SUBSET Versions]
BY NamesAssumption DEF Typed, TypeOK, Generations

LEMMA CurrentTable ==
  ASSUME Typed, NEW n \in Namespaces, current[n] # NONE
  PROVE  TableOf(n) \in Tables /\ current[n] \in 0..MaxDrops
BY DEF Typed, TypeOK, TableOf, Tables

LEMMA PutStep ==
  ASSUME IInv, NEW n \in Namespaces, NEW p \in Partitions, NEW v \in Versions, Put(n, p, v)
  PROVE  IInv'
<1>1. /\ current[n] # NONE
      /\ table' = [table EXCEPT ![TableOf(n)].schemas = @ \cup {v},
                                ![TableOf(n)].rows[p] = v]
      /\ UNCHANGED <<clock, current, folder, reserved, task, lastTaken, drops, promised, raced, gaps>>
  BY DEF Put, files, counters, history
<1>2. PICK o \in Tables : o = TableOf(n)
  BY <1>1, CurrentTable DEF IInv
<1>3. /\ clock \in 0..LastSecond /\ clock <= clock
      /\ current \in [Namespaces -> Generations] /\ drops \in 0..MaxDrops
      /\ table \in [Tables -> [schemas : SUBSET Versions,
                               rows : [Partitions -> Versions \cup {NONE}]]]
      /\ gaps \in [Tables -> SUBSET Versions]
  BY TablesTyped DEF IInv
<1>4. /\ table' \in [Tables -> [schemas : SUBSET Versions,
                                rows : [Partitions -> Versions \cup {NONE}]]]
      /\ table'[o].schemas = table[o].schemas \cup {v}
      /\ \A q \in Partitions : table'[o].rows[q] = IF q = p THEN v ELSE table[o].rows[q]
      /\ \A other \in Tables : other # o => table'[other] = table[other]
  <2> DEFINE registered == [table EXCEPT ![o].schemas = @ \cup {v}]
  <2>1. /\ registered \in [Tables -> [schemas : SUBSET Versions,
                                      rows : [Partitions -> Versions \cup {NONE}]]]
        /\ registered[o].schemas = table[o].schemas \cup {v}
        /\ registered[o].rows = table[o].rows
        /\ \A other \in Tables : other # o => registered[other] = table[other]
    BY <1>3
  <2>2. table' = [registered EXCEPT ![o].rows[p] = v]
    BY <1>1, <1>2
  <2> HIDE DEF registered
  <2> QED BY <2>1, <2>2
<1>5. Ages'
  <2>1. \A m \in Namespaces, d \in 0..MaxDrops :
          (d >= drops /\ current[m] # d) => <<m, d>> \in Tables /\ <<m, d>> # o
    BY <1>1, <1>2 DEF TableOf, Tables
  <2> QED BY <1>1, <1>4, <2>1 DEF IInv, Ages
<1>6. Schemas'
  <2>1. RowsKeepTheirSchemas'
    BY <1>1, <1>4 DEF IInv, Schemas, RowsKeepTheirSchemas
  <2>2. \A j \in Tasks : At(j, "insert") => task[j].of \in Tables
    BY DEF IInv, Typed, At, GoodTask, Placed
  <2> QED BY <1>1, <1>4, <2>1, <2>2, BroughtSame DEF IInv, Schemas, At
<1> QED BY <1>1, <1>3, <1>4, <1>5, <1>6, TablesStep

(* What is collected is named by no row of the table, and is known to lack   *)
(* if one is on its way.                                                     *)
LEMMA CollectStep ==
  ASSUME IInv, NEW o \in Tables, Collect(o)
  PROVE  IInv'
<1> DEFINE schemas == table[o].schemas
           named == {v \in schemas : \E p \in Partitions : table[o].rows[p] = v}
           kept == IF named # {} THEN named ELSE {v \in schemas : \A w \in schemas : w <= v}
           coming == UNION {Brought(j) : j \in {k \in Tasks : At(k, "insert") /\ task[k].of = o}}
<1>1. /\ table' = [table EXCEPT ![o].schemas = kept]
      /\ gaps' = [gaps EXCEPT ![o] = @ \cup (coming \cap (schemas \ kept))]
      /\ UNCHANGED <<clock, current, folder, reserved, task, lastTaken, drops, promised, raced>>
  BY DEF Collect, files, counters
<1>2. /\ clock \in 0..LastSecond /\ clock <= clock
      /\ current \in [Namespaces -> Generations] /\ drops \in 0..MaxDrops
      /\ table \in [Tables -> [schemas : SUBSET Versions,
                               rows : [Partitions -> Versions \cup {NONE}]]]
      /\ gaps \in [Tables -> SUBSET Versions]
  BY TablesTyped DEF IInv
<1>3. /\ kept \in SUBSET Versions /\ coming \cap (schemas \ kept) \in SUBSET Versions
      /\ \A p \in Partitions : table[o].rows[p] \in schemas => table[o].rows[p] \in kept
  BY <1>2
<1>4. \A j \in Tasks : At(j, "insert") /\ task[j].of = o => Awaited(j) \subseteq coming
  BY DEF Awaited
<1> HIDE DEF kept, coming
<1>5. PICK lost \in SUBSET Versions : lost = coming \cap (schemas \ kept)
  BY <1>3
<1>6. /\ table' \in [Tables -> [schemas : SUBSET Versions,
                                rows : [Partitions -> Versions \cup {NONE}]]]
      /\ gaps' \in [Tables -> SUBSET Versions]
      /\ table'[o].schemas = kept /\ gaps'[o] = gaps[o] \cup lost
      /\ \A x \in Tables : table'[x].rows = table[x].rows
      /\ \A x \in Tables : x # o => table'[x] = table[x] /\ gaps'[x] = gaps[x]
  BY <1>1, <1>2, <1>3, <1>5
<1>7. Ages'
  <2>1. \A m \in Namespaces, d \in 0..MaxDrops : <<m, d>> \in Tables
    BY DEF Tables
  <2> QED BY <1>1, <1>6, <2>1 DEF IInv, Ages
<1>8. Schemas'
  <2>1. ASSUME NEW x \in Tables, NEW p \in Partitions
        PROVE  table'[x].rows[p] \in {NONE} \cup table'[x].schemas \cup gaps'[x]
    <3>1. table[x].rows[p] \in {NONE} \cup table[x].schemas \cup gaps[x]
      BY DEF IInv, Schemas, RowsKeepTheirSchemas
    <3> QED BY <1>3, <1>6, <3>1
  <2>2. ASSUME NEW j \in Tasks, task[j].at = "insert"
        PROVE  Awaited(j) \subseteq table'[task[j].of].schemas \cup gaps'[task[j].of]
    <3>1. Awaited(j) \subseteq table[task[j].of].schemas \cup gaps[task[j].of]
      BY <2>2 DEF IInv, Schemas, At
    <3>2. task[j].of \in Tables
      BY <2>2 DEF IInv, Typed, GoodTask, Placed
    <3>3. task[j].of = o => Awaited(j) \subseteq coming
      BY <1>4, <2>2 DEF At
    <3> QED BY <1>5, <1>6, <3>1, <3>2, <3>3
  <2>3. RowsKeepTheirSchemas'
    BY <2>1 DEF RowsKeepTheirSchemas
  <2>4. \A j \in Tasks : Awaited(j)' = Awaited(j)
    BY <1>1, BroughtSame
  <2> QED BY <1>1, <2>2, <2>3, <2>4 DEF Schemas, At
<1> QED BY <1>1, <1>2, <1>6, <1>7, <1>8, TablesStep

LEMMA DropTableStep ==
  ASSUME IInv, NEW n \in Namespaces, DropTable(n)
  PROVE  IInv'
<1>1. /\ current[n] # NONE /\ drops < MaxDrops /\ drops' = drops + 1
      /\ current' = [current EXCEPT ![n] = NONE]
      /\ UNCHANGED <<clock, folder, reserved, task, lastTaken, promised, raced>>
  BY DEF DropTable, files
<1>2. PICK o \in Tables : o = TableOf(n)
  BY <1>1, CurrentTable DEF IInv
<1>3. /\ clock \in 0..LastSecond /\ clock <= clock
      /\ current \in [Namespaces -> Generations] /\ drops \in 0..MaxDrops
      /\ table \in [Tables -> [schemas : SUBSET Versions,
                               rows : [Partitions -> Versions \cup {NONE}]]]
      /\ gaps \in [Tables -> SUBSET Versions]
  BY TablesTyped DEF IInv
<1>4. /\ current' \in [Namespaces -> Generations] /\ drops' \in 0..MaxDrops
      /\ \A m \in Namespaces : current'[m] = IF m = n THEN NONE ELSE current[m]
  BY <1>1, <1>3, BoundsAssumption DEF Generations
<1>5. NoRows \in [Partitions -> Versions \cup {NONE}]
  BY DEF NoRows
<1>6. /\ table' \in [Tables -> [schemas : SUBSET Versions,
                                rows : [Partitions -> Versions \cup {NONE}]]]
      /\ gaps' \in [Tables -> SUBSET Versions]
      /\ table'[o].rows = NoRows
      /\ \A other \in Tables : other # o => table'[other] = table[other] /\ gaps'[other] = gaps[other]
      /\ (\E j \in Tasks : task[j].of = o) =>
           table'[o].schemas = table[o].schemas /\ gaps' = gaps
  <2>1. CASE \E j \in Tasks : task[j].of = TableOf(n)
    <3>1. table' = [table EXCEPT ![o].rows = NoRows] /\ gaps' = gaps
      BY <1>2, <2>1 DEF DropTable
    <3> QED BY <1>3, <1>5, <3>1
  <2>2. CASE ~ \E j \in Tasks : task[j].of = TableOf(n)
    <3>1. table' = [table EXCEPT ![o] = EmptyTable] /\ gaps' = [gaps EXCEPT ![o] = {}]
      BY <1>2, <2>2 DEF DropTable
    <3>2. /\ EmptyTable \in [schemas : SUBSET Versions, rows : [Partitions -> Versions \cup {NONE}]]
          /\ EmptyTable.rows = NoRows
      BY <1>5 DEF EmptyTable
    <3> QED BY <1>2, <1>3, <2>2, <3>1, <3>2
  <2> QED BY <2>1, <2>2
<1>7. Ages'
  <2>1. \A m \in Namespaces : current'[m] # NONE => current'[m] <= drops'
    BY <1>1, <1>3, <1>4 DEF IInv, Ages, Generations
  <2>2. ASSUME NEW j \in Tasks, task'[j].of \in Tables
        PROVE  task'[j].of[2] < drops' \/ task'[j].of[2] = current'[task'[j].of[1]]
    <3>1. task[j].of \in Tables /\ task'[j] = task[j]
      BY <1>1, <2>2
    <3>2. PICK m \in Namespaces, d \in 0..MaxDrops : task[j].of = <<m, d>>
      BY <3>1 DEF Tables
    <3>3. d < drops \/ d = current[m]
      BY <3>1, <3>2 DEF IInv, Ages
    <3>4. d <= drops
      BY <1>3, <3>3, ApartAssumption DEF IInv, Ages
    <3> QED BY <1>1, <1>3, <3>1, <3>2, <3>4
  <2>3. ASSUME NEW m \in Namespaces, NEW d \in 0..MaxDrops, d >= drops'
        PROVE  table'[<<m, d>>].rows = NoRows
    <3>1. <<m, d>> \in Tables
      BY DEF Tables
    <3>2. CASE <<m, d>> = o
      BY <1>6, <3>2
    <3>3. CASE <<m, d>> # o
      <4>1. current[m] # d
        BY <1>1, <1>3, <2>3, ApartAssumption DEF IInv, Ages
      <4>2. d >= drops
        BY <1>1, <1>3, <2>3
      <4> QED BY <1>6, <3>1, <3>3, <4>1, <4>2 DEF IInv, Ages
    <3> QED BY <3>2, <3>3
  <2> QED BY <2>1, <2>2, <2>3 DEF Ages
<1>8. Schemas'
  <2>1. RowsKeepTheirSchemas'
    <3>1. \A p \in Partitions : table'[o].rows[p] = NONE
      BY <1>6 DEF NoRows
    <3> QED BY <1>6, <3>1 DEF IInv, Schemas, RowsKeepTheirSchemas
  <2>2. \A j \in Tasks : At(j, "insert") => task[j].of \in Tables
    BY DEF IInv, Typed, At, GoodTask, Placed
  <2>3. ASSUME NEW j \in Tasks, task'[j].at = "insert"
        PROVE  Awaited(j)' \subseteq table'[task'[j].of].schemas \cup gaps'[task'[j].of]
    <3>1. task'[j] = task[j] /\ At(j, "insert") /\ task[j].of \in Tables
      BY <1>1, <2>2, <2>3 DEF At
    <3>2. /\ table'[task[j].of].schemas = table[task[j].of].schemas
          /\ gaps'[task[j].of] = gaps[task[j].of]
      BY <1>6, <3>1
    <3> QED BY <3>1, <3>2, BroughtSame DEF IInv, Schemas
  <2> QED BY <2>1, <2>3 DEF Schemas, At
<1> QED BY <1>1, <1>3, <1>4, <1>6, <1>7, <1>8, TablesStep

LEMMA CreateTableStep ==
  ASSUME IInv, NEW n \in Namespaces, CreateTable(n)
  PROVE  IInv'
<1>1. /\ current[n] = NONE /\ current' = [current EXCEPT ![n] = drops]
      /\ UNCHANGED <<clock, table, folder, reserved, task, lastTaken, drops, promised, raced, gaps>>
  BY DEF CreateTable, Unheld, files, counters, history
<1>2. /\ clock \in 0..LastSecond /\ clock <= clock
      /\ current \in [Namespaces -> Generations] /\ drops \in 0..MaxDrops
      /\ table \in [Tables -> [schemas : SUBSET Versions,
                               rows : [Partitions -> Versions \cup {NONE}]]]
      /\ gaps \in [Tables -> SUBSET Versions]
  BY TablesTyped DEF IInv
<1>3. /\ current' \in [Namespaces -> Generations]
      /\ \A m \in Namespaces : current'[m] = IF m = n THEN drops ELSE current[m]
  BY <1>1, <1>2 DEF Generations
<1>4. Ages'
  <2>1. \A m \in Namespaces : current'[m] # NONE => current'[m] <= drops'
    BY <1>1, <1>2, <1>3 DEF IInv, Ages
  <2>2. ASSUME NEW j \in Tasks, task'[j].of \in Tables
        PROVE  task'[j].of[2] < drops' \/ task'[j].of[2] = current'[task'[j].of[1]]
    <3>1. PICK m \in Namespaces, d \in 0..MaxDrops : task[j].of = <<m, d>>
      BY <1>1, <2>2 DEF Tables
    <3>2. d < drops \/ d = current[m]
      BY <1>1, <2>2, <3>1 DEF IInv, Ages
    <3> QED BY <1>1, <1>3, <3>1, <3>2, ApartAssumption
  <2>3. \A m \in Namespaces, d \in 0..MaxDrops :
          (d >= drops' /\ current'[m] # d) => table'[<<m, d>>].rows = NoRows
    BY <1>1, <1>3, ApartAssumption DEF IInv, Ages
  <2> QED BY <2>1, <2>2, <2>3 DEF Ages
<1>5. Schemas'
  BY <1>1, BroughtSame DEF IInv, Schemas, RowsKeepTheirSchemas, At
<1> QED BY <1>1, <1>2, <1>3, <1>4, <1>5, TablesStep

LEMMA ClockStep ==
  ASSUME IInv, ClockTicks
  PROVE  IInv'
<1>1. /\ clock' = clock + 1 /\ clock < LastSecond
      /\ UNCHANGED <<current, table, folder, reserved, task, lastTaken, drops, promised, raced, gaps>>
  BY DEF ClockTicks, data, files, counters, history
<1>2. clock' \in 0..LastSecond /\ clock <= clock'
  BY <1>1, NamesAssumption DEF IInv, Typed, TypeOK
<1>3. Ages' /\ Schemas'
  BY <1>1, BroughtSame DEF IInv, Ages, Schemas, RowsKeepTheirSchemas, At
<1> QED BY <1>1, <1>2, <1>3, TablesTyped, TablesStep DEF IInv

(* A crash loses the tasks and orphans the reservations.                     *)
LEMMA CrashStep ==
  ASSUME IInv, Crash
  PROVE  IInv'
<1>1. /\ task' = [j \in Tasks |-> IF j = TIMER \/ At(j, "idle") THEN Idle
                                  ELSE [Idle EXCEPT !.at = "ended"]]
      /\ reserved' = [n \in Namespaces |-> [s \in Stamps |->
                        IF reserved[n][s] = NONE THEN NONE ELSE STALE]]
      /\ lastTaken' = NONE
      /\ UNCHANGED <<clock, current, table, folder, drops, promised, raced, gaps>>
  BY DEF Crash, data, history
<1>2. \A j \in Tasks : \E place \in {"idle", "ended"} : task'[j] = [Idle EXCEPT !.at = place]
  <2>1. Idle = [Idle EXCEPT !.at = "idle"]
    BY DEF Idle
  <2> QED BY <1>1, <2>1
<1>3. \A j \in Tasks : /\ task'[j] \in GoodTask /\ task'[j].of = NONE
                       /\ task'[j].at \in {"idle", "ended"}
  BY <1>2, IdleIsGood
<1>4. task' \in [Tasks -> GoodTask]
  <2>1. DOMAIN task' = Tasks /\ task' = [j \in Tasks |-> task'[j]]
    BY <1>1
  <2> QED BY <1>3, <2>1
<1>5. Typed'
  <2>1. reserved' \in [Namespaces -> [Stamps -> Tasks \cup {STALE, NONE}]]
    BY <1>1
  <2> QED BY <1>1, <1>4, <2>1, TasksTypedNext DEF IInv, Typed, TypeOK
<1>6. Ages'
  BY <1>1, <1>3, ApartAssumption DEF IInv, Ages
<1>7. Schemas'
  BY <1>1, <1>3 DEF IInv, Schemas, RowsKeepTheirSchemas, At
<1>8. ReservationsAreHeld'
  <2>1. \A n \in Namespaces, s \in Stamps : reserved'[n][s] \notin Tasks
    BY <1>1, ApartAssumption
  <2> QED BY <2>1 DEF ReservationsAreHeld
<1>9. Retained'
  <2>1. \A m, t : Outnumbered(m, t)' <=> Outnumbered(m, t)
    BY <1>1 DEF Outnumbered, Listed, Newer
  <2> QED BY <1>1, <1>3, <2>1 DEF IInv, Retained, At
<1>10. Naming'
  BY <1>3 DEF Naming
<1> QED BY <1>5, <1>6, <1>7, <1>8, <1>9, <1>10 DEF IInv

-----------------------------------------------------------------------------
(* A restore moves on and changes the tables.                                *)

LEMMA RestoresStep ==
  ASSUME IInv, NEW j \in Tasks, NEW next \in GoodTask, Goes(j, next),
         UNCHANGED <<clock, folder, reserved, lastTaken, drops, promised, raced>>,
         task[j].at # "write", next.at \notin {"create", "write", "tidy"},
         current' \in [Namespaces -> Generations],
         table' \in [Tables -> [schemas : SUBSET Versions,
                                rows : [Partitions -> Versions \cup {NONE}]]],
         gaps' \in [Tables -> SUBSET Versions],
         Ages', Schemas'
  PROVE  IInv'
<1>1. /\ task' \in [Tasks -> GoodTask] /\ task'[j] = next
      /\ \A k \in Tasks : k # j => task'[k] = task[k]
  BY TaskGoes DEF IInv
<1>2. Typed'
  BY <1>1, TasksTypedNext DEF IInv, Typed, TypeOK, Generations
<1>3. ReservationsAreHeld'
  BY <1>1 DEF IInv, ReservationsAreHeld, At, Stamp
<1>4. Retained'
  <2>1. \A n, s : Outnumbered(n, s)' <=> Outnumbered(n, s)
    BY DEF Outnumbered, Listed, Newer
  <2> QED BY <1>1, <2>1 DEF IInv, Retained, At
<1>5. Naming'
  BY <1>1 DEF IInv, Naming, Stamp
<1> QED BY <1>2, <1>3, <1>4, <1>5 DEF IInv

LEMMA RestoreTableStep ==
  ASSUME IInv, NEW j \in Tasks, RestoreTable(j)
  PROVE  IInv'
<1>0. /\ task[j].at = "table" /\ task[j] \in GoodTask
      /\ UNCHANGED <<clock, folder, reserved, lastTaken, drops, promised, raced, gaps>>
  BY DEF IInv, Typed, RestoreTable, At, files, counters, history
<1>1. CASE ~task[j].archive.table
  <2>1. Ends(j) /\ UNCHANGED <<current, table>>
    BY <1>1 DEF RestoreTable, data
  <2> QED BY <1>0, <2>1, EndingMoves
<1>2. CASE task[j].archive.table
  <2>0. /\ current \in [Namespaces -> Generations] /\ drops \in 0..MaxDrops
        /\ table \in [Tables -> [schemas : SUBSET Versions,
                                 rows : [Partitions -> Versions \cup {NONE}]]]
        /\ gaps \in [Tables -> SUBSET Versions]
    BY TablesTyped DEF IInv
  <2>1. PICK n \in Namespaces : n = task[j].ns
    BY <1>0 DEF GoodTask, Placed
  <2>2. PICK g : g = IF current[n] = NONE THEN drops ELSE current[n]
    OBVIOUS
  <2>3. g \in 0..MaxDrops /\ <<n, g>> \in Tables
    BY <2>0, <2>2 DEF Generations, Tables
  <2>4. /\ current' = [current EXCEPT ![n] = g]
        /\ table' = IF current[n] # NONE THEN table
                    ELSE [table EXCEPT ![<<n, g>>].schemas = task[j].archive.schemas]
        /\ Goes(j, [task[j] EXCEPT !.at = "attributes", !.of = <<n, g>>])
    BY <1>2, <2>1, <2>2 DEF RestoreTable, Unheld
  <2>5. current' \in [Namespaces -> Generations] /\ current'[n] = g
        /\ \A m \in Namespaces : m # n => current'[m] = current[m]
    BY <2>0, <2>3, <2>4 DEF Generations
  <2>6. task[j].archive.schemas \subseteq Versions
    BY <1>0 DEF GoodTask, TaskState, Archive
  <2>7. /\ table' \in [Tables -> [schemas : SUBSET Versions,
                                  rows : [Partitions -> Versions \cup {NONE}]]]
        /\ \A o \in Tables : table'[o].rows = table[o].rows
        /\ \A o \in Tables : (o # <<n, g>> \/ current[n] # NONE)
                               => table'[o].schemas = table[o].schemas
    <3>1. CASE current[n] # NONE
      BY <2>0, <2>4, <3>1
    <3>2. CASE current[n] = NONE
      <4> DEFINE schemas == task[j].archive.schemas
                 o == <<n, g>>
      <4>1. schemas \in SUBSET Versions /\ o \in Tables
        BY <2>3, <2>6
      <4>2. table' = [table EXCEPT ![o].schemas = schemas]
        BY <2>4, <3>2
      <4> HIDE DEF schemas, o
      <4>3. /\ table' \in [Tables -> [schemas : SUBSET Versions,
                                      rows : [Partitions -> Versions \cup {NONE}]]]
            /\ \A x \in Tables : table'[x].rows = table[x].rows
            /\ \A x \in Tables : x # o => table'[x].schemas = table[x].schemas
        BY <2>0, <4>1, <4>2
      <4> QED BY <3>2, <4>3 DEF o
    <3> QED BY <3>1, <3>2
  <2> DEFINE next == [task[j] EXCEPT !.at = "attributes", !.of = <<n, g>>]
  <2>8. next \in GoodTask /\ next.of = <<n, g>> /\ next.at = "attributes"
    <3>1. <<n, g>> \in Namespaces \X Generations
      BY <2>3 DEF Generations
    <3>2. task[j] \in TaskState /\ task[j].ns = n
      BY <1>0, <2>1 DEF GoodTask
    <3>3. next \in TaskState
      BY <3>1, <3>2 DEF TaskState, Places
    <3>4. next.of = <<n, g>> /\ next.at = "attributes" /\ next.ns = n
      BY <3>2 DEF TaskState
    <3> QED BY <2>3, <3>3, <3>4 DEF GoodTask, Placed
  <2>9. Goes(j, next)
    BY <2>4
  <2> HIDE DEF next
  <2>10. /\ task'[j] = next /\ \A k \in Tasks : k # j => task'[k] = task[k]
    BY <2>8, <2>9, TaskGoes DEF IInv
  <2>11. \A k \in Tasks : task[k].of \in Tables /\ current[n] = NONE => task[k].of # <<n, g>>
    BY <2>0, <2>2, <2>3, ApartAssumption DEF IInv, Ages
  <2>12. Ages'
    <3>1. \A m \in Namespaces : current'[m] # NONE => current'[m] <= drops'
      BY <1>0, <2>0, <2>2, <2>5 DEF IInv, Ages
    <3>2. ASSUME NEW k \in Tasks, task'[k].of \in Tables
          PROVE  task'[k].of[2] < drops' \/ task'[k].of[2] = current'[task'[k].of[1]]
      <4>1. CASE k = j
        BY <2>5, <2>8, <2>10, <4>1
      <4>2. CASE k # j
        <5>1. task'[k] = task[k] /\ task[k].of \in Tables
          BY <2>10, <3>2, <4>2
        <5>2. PICK m \in Namespaces, d \in 0..MaxDrops : task[k].of = <<m, d>>
          BY <5>1 DEF Tables
        <5>3. d < drops \/ d = current[m]
          BY <5>1, <5>2 DEF IInv, Ages
        <5>4. m = n /\ d = current[m] => current[n] # NONE
          BY <5>2, ApartAssumption
        <5> QED BY <1>0, <2>2, <2>5, <5>1, <5>2, <5>3, <5>4
      <4> QED BY <4>1, <4>2
    <3>3. ASSUME NEW m \in Namespaces, NEW d \in 0..MaxDrops, d >= drops', current'[m] # d
          PROVE  table'[<<m, d>>].rows = NoRows
      <4>1. <<m, d>> \in Tables /\ d >= drops
        BY <1>0, <3>3 DEF Tables
      <4>2. current[m] # d
        BY <2>2, <2>5, <3>3, ApartAssumption
      <4> QED BY <2>7, <4>1, <4>2 DEF IInv, Ages
    <3> QED BY <3>1, <3>2, <3>3 DEF Ages
  <2>13. Schemas'
    <3>1. ASSUME NEW o \in Tables, NEW p \in Partitions
          PROVE  table'[o].rows[p] \in {NONE} \cup table'[o].schemas \cup gaps'[o]
      <4>1. table[o].rows[p] \in {NONE} \cup table[o].schemas \cup gaps[o]
        BY DEF IInv, Schemas, RowsKeepTheirSchemas
      <4>2. CASE o = <<n, g>> /\ current[n] = NONE
        <5>1. table[o].rows = NoRows
          BY <2>0, <2>2, <2>3, <4>2, ApartAssumption DEF IInv, Ages
        <5> QED BY <2>7, <5>1 DEF NoRows
      <4>3. CASE o # <<n, g>> \/ current[n] # NONE
        BY <1>0, <2>7, <4>1, <4>3
      <4> QED BY <4>2, <4>3
    <3>2. ASSUME NEW k \in Tasks, task'[k].at = "insert"
          PROVE  Awaited(k)' \subseteq table'[task'[k].of].schemas \cup gaps'[task'[k].of]
      <4>1. k # j
        BY <2>8, <2>10, <3>2
      <4>2. task'[k] = task[k] /\ At(k, "insert") /\ task[k].of \in Tables
        BY <2>10, <3>2, <4>1 DEF IInv, Typed, At, GoodTask, Placed
      <4>3. task[k].of # <<n, g>> \/ current[n] # NONE
        BY <2>11, <4>2
      <4> QED BY <1>0, <2>7, <4>2, <4>3, BroughtSame DEF IInv, Schemas
    <3> QED BY <3>1, <3>2 DEF Schemas, RowsKeepTheirSchemas, At
  <2>14. task[j].at # "write" /\ next.at \notin {"create", "write", "tidy"}
    BY <1>0, <2>8
  <2>15. gaps' \in [Tables -> SUBSET Versions]
    BY <1>0, <2>0
  <2> QED BY <1>0, <2>5, <2>7, <2>8, <2>9, <2>12, <2>13, <2>14, <2>15, RestoresStep
<1> QED BY <1>1, <1>2

LEMMA RestoreAttributesStep ==
  ASSUME IInv, NEW j \in Tasks, RestoreAttributes(j)
  PROVE  IInv'
<1>0. /\ task[j].at = "attributes" /\ task[j] \in GoodTask
      /\ UNCHANGED <<clock, current, folder, reserved, lastTaken, drops, promised, raced, gaps>>
  BY DEF IInv, Typed, RestoreAttributes, At, files, counters, history
<1>1. /\ current \in [Namespaces -> Generations] /\ drops \in 0..MaxDrops
      /\ table \in [Tables -> [schemas : SUBSET Versions,
                               rows : [Partitions -> Versions \cup {NONE}]]]
      /\ gaps \in [Tables -> SUBSET Versions]
  BY TablesTyped DEF IInv
<1>2. PICK o \in Tables : o = task[j].of
  BY <1>0 DEF GoodTask, Placed
<1>3. PICK schemas \in SUBSET Versions : schemas = task[j].archive.schemas
  BY <1>0 DEF GoodTask, TaskState, Archive
<1>4. table' = [table EXCEPT ![o].schemas = @ \cup schemas]
  BY <1>2, <1>3 DEF RestoreAttributes
<1>5. /\ table' \in [Tables -> [schemas : SUBSET Versions,
                                rows : [Partitions -> Versions \cup {NONE}]]]
      /\ table'[o].schemas = table[o].schemas \cup schemas
      /\ \A x \in Tables : table'[x].rows = table[x].rows
      /\ \A x \in Tables : table[x].schemas \subseteq table'[x].schemas
  BY <1>1, <1>4
<1> DEFINE next == [task[j] EXCEPT !.at = "insert"]
<1>6. next \in GoodTask /\ next.of = o /\ next.at = "insert" /\ next.archive.schemas = schemas
  BY <1>0, <1>2, <1>3 DEF GoodTask, TaskState, Placed, Places
<1>7. Goes(j, next)
  BY DEF RestoreAttributes, Moves
<1> HIDE DEF next
<1>8. /\ task'[j] = next /\ \A k \in Tasks : k # j => task'[k] = task[k]
  BY <1>6, <1>7, TaskGoes DEF IInv
<1>9. Ages'
  <2>1. \A m \in Namespaces, d \in 0..MaxDrops :
          (d >= drops' /\ current'[m] # d) => table'[<<m, d>>].rows = NoRows
    <3>1. \A m \in Namespaces, d \in 0..MaxDrops : <<m, d>> \in Tables
      BY DEF Tables
    <3> QED BY <1>0, <1>5, <3>1 DEF IInv, Ages
  <2>2. \A k \in Tasks : task'[k].of = task[k].of
    BY <1>2, <1>6, <1>8
  <2> QED BY <1>0, <2>1, <2>2 DEF IInv, Ages
<1>10. Schemas'
  <2>1. RowsKeepTheirSchemas'
    BY <1>0, <1>5 DEF IInv, Schemas, RowsKeepTheirSchemas
  <2>2. ASSUME NEW k \in Tasks, task'[k].at = "insert"
        PROVE  Awaited(k)' \subseteq table'[task'[k].of].schemas \cup gaps'[task'[k].of]
    <3>1. CASE k = j
      <4>1. Awaited(k)' \subseteq schemas
        BY <1>6, <1>8, <3>1 DEF Awaited
      <4> QED BY <1>5, <1>6, <1>8, <3>1, <4>1
    <3>2. CASE k # j
      <4>1. task'[k] = task[k] /\ At(k, "insert") /\ task[k].of \in Tables
        BY <1>8, <2>2, <3>2 DEF IInv, Typed, At, GoodTask, Placed
      <4> QED BY <1>0, <1>5, <4>1, BroughtSame DEF IInv, Schemas
    <3> QED BY <3>1, <3>2
  <2> QED BY <2>1, <2>2 DEF Schemas, At
<1>11. task[j].at # "write" /\ next.at \notin {"create", "write", "tidy"}
  BY <1>0, <1>6
<1>12. current' \in [Namespaces -> Generations] /\ gaps' \in [Tables -> SUBSET Versions]
  BY <1>0, <1>1
<1> QED BY <1>0, <1>5, <1>6, <1>7, <1>9, <1>10, <1>11, <1>12, RestoresStep

LEMMA RestoreRowsStep ==
  ASSUME IInv, NEW j \in Tasks, RestoreRows(j)
  PROVE  IInv'
<1>0. /\ task[j].at = "insert" /\ task[j] \in GoodTask /\ Ends(j)
      /\ UNCHANGED <<clock, current, folder, reserved, lastTaken, drops, promised, raced>>
  BY DEF IInv, Typed, RestoreRows, At, files, counters
<1>1. /\ current \in [Namespaces -> Generations] /\ drops \in 0..MaxDrops
      /\ table \in [Tables -> [schemas : SUBSET Versions,
                               rows : [Partitions -> Versions \cup {NONE}]]]
      /\ gaps \in [Tables -> SUBSET Versions]
  BY TablesTyped DEF IInv
<1>2. PICK o \in Tables : o = task[j].of
  BY <1>0 DEF GoodTask, Placed
<1>3. PICK archive \in Archive : archive = task[j].archive
  BY <1>0 DEF GoodTask, TaskState
<1>4. PICK wanted : wanted = Held(archive) \cap task[j].left
  OBVIOUS
<1>5. PICK brought : brought = Brought(j) /\ brought = {archive.rows[p] : p \in wanted}
  BY <1>3, <1>4 DEF Brought
<1>6. CASE BROKEN \in brought
  <2>1. UNCHANGED <<table, gaps>>
    BY <1>6, <1>5 DEF RestoreRows
  <2> QED BY <1>0, <2>1, EndingMoves
<1>7. CASE BROKEN \notin brought
  <2> DEFINE rows == [p \in Partitions |-> IF p \in wanted THEN archive.rows[p]
                                           ELSE table[o].rows[p]]
             lacked == brought \ archive.schemas
  <2>1. table' = [table EXCEPT ![o].rows = rows] /\ gaps' = [gaps EXCEPT ![o] = @ \cup lacked]
    BY <1>1, <1>2, <1>3, <1>4, <1>7, <1>5 DEF RestoreRows
  <2>2. \A p \in wanted : archive.rows[p] \in Versions \cap brought /\ p \in Partitions
    BY <1>3, <1>4, <1>7, <1>5 DEF Held, Archive
  <2>3. \A p \in wanted : archive.rows[p] \in archive.schemas \cup lacked
    BY <2>2
  <2>4. rows \in [Partitions -> Versions \cup {NONE}]
    BY <1>1, <1>2, <2>2
  <2>5. \A p \in Partitions : rows[p] = IF p \in wanted THEN archive.rows[p]
                                        ELSE table[o].rows[p]
    OBVIOUS
  <2>6. lacked \in SUBSET Versions
    BY <1>5, <2>2
  <2> HIDE DEF rows, lacked
  <2>7. /\ table' \in [Tables -> [schemas : SUBSET Versions,
                                  rows : [Partitions -> Versions \cup {NONE}]]]
        /\ gaps' \in [Tables -> SUBSET Versions]
        /\ table'[o].rows = rows /\ gaps'[o] = gaps[o] \cup lacked
        /\ \A x \in Tables : table'[x].schemas = table[x].schemas
        /\ \A x \in Tables : x # o => table'[x].rows = table[x].rows /\ gaps'[x] = gaps[x]
    BY <1>1, <2>1, <2>4, <2>6
  <2>8. archive.schemas \cap brought \subseteq table[o].schemas \cup gaps[o]
    BY <1>0, <1>2, <1>3, <1>5 DEF IInv, Schemas, Awaited, At
  <2>9. PICK place \in {"idle", "ended"} : Goes(j, [Idle EXCEPT !.at = place])
    BY <1>0 DEF Ends
  <2> DEFINE next == [Idle EXCEPT !.at = place]
  <2>10. next \in GoodTask /\ next.of = NONE /\ next.at = place
    BY IdleIsGood
  <2>11. Goes(j, next)
    BY <2>9
  <2> HIDE DEF next
  <2>12. task'[j] = next /\ \A k \in Tasks : k # j => task'[k] = task[k]
    BY <2>10, <2>11, TaskGoes DEF IInv
  <2>13. Ages'
    <3>1. ASSUME NEW m \in Namespaces, NEW d \in 0..MaxDrops, d >= drops', current'[m] # d
          PROVE  table'[<<m, d>>].rows = NoRows
      <4>1. <<m, d>> \in Tables /\ d >= drops /\ current[m] # d
        BY <1>0, <3>1 DEF Tables
      <4>2. <<m, d>> # o
        BY <1>1, <1>2, <4>1 DEF IInv, Ages
      <4> QED BY <2>7, <4>1, <4>2 DEF IInv, Ages
    <3>2. \A k \in Tasks : task'[k].of \in Tables => task'[k].of = task[k].of
      BY <2>10, <2>12, ApartAssumption
    <3> QED BY <1>0, <3>1, <3>2 DEF IInv, Ages
  <2>14. Schemas'
    <3>1. ASSUME NEW x \in Tables, NEW p \in Partitions
          PROVE  table'[x].rows[p] \in {NONE} \cup table'[x].schemas \cup gaps'[x]
      <4>1. table[x].rows[p] \in {NONE} \cup table[x].schemas \cup gaps[x]
        BY DEF IInv, Schemas, RowsKeepTheirSchemas
      <4>2. CASE x # o
        BY <2>7, <4>1, <4>2
      <4>3. CASE x = o
        BY <2>2, <2>3, <2>5, <2>7, <2>8, <4>1, <4>3
      <4> QED BY <4>2, <4>3
    <3>2. ASSUME NEW k \in Tasks, task'[k].at = "insert"
          PROVE  Awaited(k)' \subseteq table'[task'[k].of].schemas \cup gaps'[task'[k].of]
      <4>1. k # j
        BY <2>10, <2>12, <3>2
      <4>2. task'[k] = task[k] /\ At(k, "insert") /\ task[k].of \in Tables
        BY <2>12, <3>2, <4>1 DEF IInv, Typed, At, GoodTask, Placed
      <4>3. /\ table'[task[k].of].schemas = table[task[k].of].schemas
            /\ gaps[task[k].of] \subseteq gaps'[task[k].of]
        BY <2>7, <4>2
      <4>4. Awaited(k) \subseteq table[task[k].of].schemas \cup gaps[task[k].of]
        BY <4>2 DEF IInv, Schemas
      <4> QED BY <4>2, <4>3, <4>4, BroughtSame
    <3> QED BY <3>1, <3>2 DEF Schemas, RowsKeepTheirSchemas, At
  <2>15. task[j].at # "write" /\ next.at \notin {"create", "write", "tidy"}
    BY <1>0, <2>10
  <2>16. current' \in [Namespaces -> Generations]
    BY <1>0, <1>1
  <2> QED BY <1>0, <2>7, <2>10, <2>11, <2>13, <2>14, <2>15, <2>16, RestoresStep
<1> QED BY <1>6, <1>7

-----------------------------------------------------------------------------
(* The invariant.                                                            *)

LEMMA InitIInv == Init => IInv
<1> SUFFICES ASSUME Init PROVE IInv
  OBVIOUS
<1>1. /\ Idle \in GoodTask /\ Idle.of = NONE /\ Idle.at = "idle"
  <2>1. Idle = [Idle EXCEPT !.at = "idle"]
    BY DEF Idle
  <2> QED BY <2>1, IdleIsGood
<1>2. /\ task \in [Tasks -> GoodTask]
      /\ \A j \in Tasks : task[j].of = NONE /\ task[j].at = "idle"
  BY <1>1 DEF Init
<1> PICK loaded \in [Namespaces -> LoadedTables] :
       table = [o \in Tables |-> IF o[2] = current[o[1]] THEN loaded[o[1]] ELSE EmptyTable]
  BY DEF Init
<1>3. /\ \A o \in Tables : table[o] \in LoadedTables \cup {EmptyTable}
      /\ \A n \in Namespaces, d \in 0..MaxDrops :
           current[n] # d => table[<<n, d>>].rows = NoRows
  <2>1. \A o \in Tables : o[1] \in Namespaces
    BY DEF Tables
  <2>2. \A n \in Namespaces, d \in 0..MaxDrops : <<n, d>> \in Tables
    BY DEF Tables
  <2>3. EmptyTable.rows = NoRows
    BY DEF EmptyTable
  <2> QED BY <2>1, <2>2, <2>3
<1>31. \A t \in LoadedTables \cup {EmptyTable} :
         /\ t \in [schemas : SUBSET Versions, rows : [Partitions -> Versions \cup {NONE}]]
         /\ \A p \in Partitions : t.rows[p] \in {NONE} \cup t.schemas
  <2>1. ASSUME NEW t \in LoadedTables
        PROVE  /\ t \in [schemas : SUBSET Versions, rows : [Partitions -> Versions \cup {NONE}]]
               /\ \A p \in Partitions : t.rows[p] \in {NONE} \cup t.schemas
    <3>1. PICK named \in [Partitions -> Loaded \cup {NONE}] :
            t = [schemas |-> {named[p] : p \in Partitions} \ {NONE}, rows |-> named]
      BY DEF LoadedTables
    <3>2. named \in [Partitions -> Versions \cup {NONE}]
      BY VersionsAssumption
    <3>3. {named[p] : p \in Partitions} \ {NONE} \subseteq Versions
      BY VersionsAssumption
    <3> QED BY <3>1, <3>2, <3>3
  <2>2. /\ EmptyTable \in [schemas : SUBSET Versions, rows : [Partitions -> Versions \cup {NONE}]]
        /\ \A p \in Partitions : EmptyTable.rows[p] = NONE
    BY DEF EmptyTable, NoRows
  <2> QED BY <2>1, <2>2
<1>4. Typed
  <2>1. /\ clock \in 0..LastSecond /\ drops \in 0..MaxDrops
        /\ current \in [Namespaces -> {NONE} \cup (0..MaxDrops)]
    BY NamesAssumption, BoundsAssumption DEF Init
  <2>2. table \in [Tables -> [schemas : SUBSET Versions,
                              rows : [Partitions -> Versions \cup {NONE}]]]
    BY <1>3, <1>31
  <2>3. /\ folder \in [Namespaces -> [Stamps -> Archive \cup {NONE}]]
        /\ reserved \in [Namespaces -> [Stamps -> Tasks \cup {STALE, NONE}]]
    BY DEF Init
  <2>4. /\ lastTaken \in {NONE} \cup (0..clock) /\ promised \subseteq Namespaces \X Stamps \X Archive
        /\ raced \subseteq Namespaces \X Stamps /\ gaps \in [Tables -> SUBSET Versions]
    BY DEF Init
  <2> QED BY <1>2, <2>1, <2>2, <2>3, <2>4, TasksTyped DEF Typed, TypeOK
<1>5. Ages
  <2>1. \A n \in Namespaces, d \in 0..MaxDrops : <<n, d>> \in Tables
    BY DEF Tables
  <2>2. \A n \in Namespaces : current[n] # NONE => current[n] <= drops
    BY DEF Init
  <2> QED BY <1>2, <1>3, <2>1, <2>2, ApartAssumption DEF Ages
<1>6. Schemas
  BY <1>2, <1>3, <1>31 DEF Schemas, RowsKeepTheirSchemas, At
<1>7. ReservationsAreHeld
  BY ApartAssumption DEF Init, ReservationsAreHeld
<1>8. Retained /\ Naming
  BY <1>2 DEF Init, Retained, Naming, At
<1> QED BY <1>4, <1>5, <1>6, <1>7, <1>8 DEF IInv

LEMMA StepIInv == IInv /\ [Next]_vars => IInv'
<1> SUFFICES ASSUME IInv, [Next]_vars PROVE IInv'
  OBVIOUS
<1>1. CASE UNCHANGED vars
  <2>1. UNCHANGED <<clock, current, table, folder, reserved, task, lastTaken, drops, promised, raced, gaps>>
    BY <1>1 DEF vars, counters, history
  <2>2. Typed'
    BY <2>1 DEF IInv, Typed, TypeOK
  <2>3. Ages' /\ Schemas'
    BY <2>1, BroughtSame DEF IInv, Ages, Schemas, RowsKeepTheirSchemas, At
  <2>4. ReservationsAreHeld'
    BY <2>1 DEF IInv, ReservationsAreHeld, At, Stamp
  <2>5. Retained' /\ Naming'
    BY <2>1 DEF IInv, Retained, Naming, Stamp, At, Outnumbered, Listed, Newer
  <2> QED BY <2>2, <2>3, <2>4, <2>5 DEF IInv
<1>2. CASE TimerTick
  <2>1. TIMER \in Tasks
    BY DEF Tasks
  <2> QED BY <1>2, <2>1, CallsStep
<1>3. CASE ClockTicks
  BY <1>3, ClockStep
<1>4. CASE Crash
  BY <1>4, CrashStep
<1>5. ASSUME NEW j \in Tasks, Step(j) PROVE IInv'
  <2>1. CASE NextNamespace(j)
    BY <2>1, NextNamespaceStep
  <2>2. CASE ReadAttributes(j) \/ ListPartitions(j) \/ ReadPartition(j)
    BY <2>2, BuildsStep
  <2>3. CASE TryExists(j)
    BY <2>3, TryExistsStep
  <2>4. CASE CreateNew(j)
    BY <2>4, CreateNewStep
  <2>5. CASE WriteAndRename(j)
    BY <2>5, WriteAndRenameStep
  <2>6. CASE List(j)
    BY <2>6, ListStep
  <2>7. CASE Tidy(j)
    BY <2>7, TidyStep
  <2>8. CASE RestoreTable(j)
    BY <2>8, RestoreTableStep
  <2>9. CASE RestoreAttributes(j)
    BY <2>9, RestoreAttributesStep
  <2>10. CASE RestoreRows(j)
    BY <2>10, RestoreRowsStep
  <2> QED BY <1>5, <2>1, <2>2, <2>3, <2>4, <2>5, <2>6, <2>7, <2>8, <2>9, <2>10 DEF Step
<1>6. ASSUME NEW j \in Tasks, TryExistsRefused(j) \/ Refused(j) PROVE IInv'
  BY <1>6, TryExistsStep
<1>7. ASSUME NEW j \in Tasks, GivesBack(j) PROVE IInv'
  BY <1>7, GivesBackStep
<1>8. ASSUME NEW j \in Jobs,
             \/ CallAll(j)
             \/ \E n \in Namespaces :
                  CallOne(j, n) \/ CallUpload(j, n) \/ \E s \in Stamps : CallRestore(j, n, s)
      PROVE  IInv'
  <2>1. j \in Tasks
    BY DEF Tasks
  <2> QED BY <1>8, <2>1, CallsStep
<1>9. ASSUME NEW n \in Namespaces, DropTable(n) PROVE IInv'
  BY <1>9, DropTableStep
<1>10. ASSUME NEW n \in Namespaces, CreateTable(n) PROVE IInv'
  BY <1>10, CreateTableStep
<1>11. ASSUME NEW n \in Namespaces, NEW p \in Partitions, NEW v \in Versions, Put(n, p, v)
       PROVE  IInv'
  BY <1>11, PutStep
<1>12. ASSUME NEW o \in Tables, Collect(o) PROVE IInv'
  BY <1>12, CollectStep
<1> QED BY <1>1, <1>2, <1>3, <1>4, <1>5, <1>6, <1>7, <1>8, <1>9, <1>10, <1>11, <1>12 DEF Next

(* Of the tasks, the tables, the folder and the reservations, the inductive  *)
(* invariant holds whatever calls are made and whatever fails                *)
(* (persist/backup/backups_repo.rs, db_operations/backup.rs).                *)
THEOREM InvariantHolds == Spec => []IInv
<1> QED BY InitIInv, StepIInv, PTL DEF Spec

(* What the folder keeps: a reservation for as long as its archive is        *)
(* written, and under its name the archive that was promised, until newer    *)
(* ones take its place - but for the names of "raced", which the last look   *)
(* before the file is created does not protect (backups_repo.rs:128-290).    *)
THEOREM FolderKeeps == Spec => []Inv
<1>1. IInv => Inv
  <2> SUFFICES ASSUME IInv PROVE Inv
    OBVIOUS
  <2>1. \A a \in promised : /\ a[1] \in Namespaces /\ a[2] \in Stamps /\ a[3] \in Archive
                            /\ a = <<a[1], a[2], a[3]>>
    BY DEF IInv, Typed, TypeOK
  <2>2. KeptUntilOutnumbered
    BY <2>1 DEF IInv, Retained, Outnumbered, KeptUntilOutnumbered
  <2> QED BY <2>2 DEF IInv, Typed, Inv
<1> QED BY <1>1, InvariantHolds, PTL

(* A row has its schema in its table, through drops, collections and         *)
(* restores into a table made anew, but for what an archive built while a    *)
(* schema was being registered lacked, and what was collected between a      *)
(* restore's attributes and its rows (db_operations/backup.rs, restore).     *)
THEOREM RestoredRowsKeepTheirSchemas == Spec => []RowsKeepTheirSchemas
<1>1. IInv => RowsKeepTheirSchemas
  BY DEF IInv, Schemas
<1> QED BY <1>1, InvariantHolds, PTL

-----------------------------------------------------------------------------
(* The snapshots page: paths into an archive.                                *)

LEMMA RouteCases ==
  ASSUME NEW r \in Routes
  PROVE  \/ r = <<>>
         \/ \E f \in Files : r = <<f>>
         \/ \E f \in Files, p \in Paths : p = <<p[1]>> /\ r = <<f, p[1]>>
         \/ \E f \in Files, p \in Paths : /\ p = <<p[1], p[2]>> /\ <<p[1]>> \in Paths
                                          /\ r = <<f, p[1], p[2]>>
<1>1. ASSUME NEW f \in Files, NEW p \in Paths, r = <<f, p[1]>>
      PROVE  \E q \in Paths : q = <<q[1]>> /\ r = <<f, q[1]>>
  <2>1. CASE p = <<p[1]>>
    BY <1>1, <2>1
  <2>2. CASE p = <<p[1], p[2]>> /\ <<p[1]>> \in Paths
    <3>1. <<p[1]>> = << <<p[1]>>[1] >> /\ <<p[1]>>[1] = p[1]
      OBVIOUS
    <3> QED BY <1>1, <2>2, <3>1
  <2> QED BY <2>1, <2>2, PathsAssumption
<1>2. ASSUME NEW f \in Files, NEW p \in Paths, Len(p) = 2, r = <<f, p[1], p[2]>>
      PROVE  p = <<p[1], p[2]>> /\ <<p[1]>> \in Paths
  <2>1. p # <<p[1]>>
    BY <1>2
  <2> QED BY <2>1, PathsAssumption
<1> QED BY <1>1, <1>2 DEF Routes

LEMMA RouteForms ==
  ASSUME NEW r \in Routes
  PROVE  \/ r = <<>>
         \/ \E f \in Files : r = <<f>>
         \/ \E f \in Files : \E t : r = <<f, t>>
         \/ \E f \in Files : \E t, u : r = <<f, t, u>>
BY DEF Routes

LEMMA RoutesHave ==
  /\ <<>> \in Routes
  /\ \A f \in Files : <<f>> \in Routes
  /\ \A f \in Files : \A t : <<t>> \in Paths => <<f, t>> \in Routes
  /\ \A f \in Files : \A t, u : <<t, u>> \in Paths => <<f, t, u>> \in Routes
<1>1. ASSUME NEW f \in Files, NEW t, <<t>> \in Paths
      PROVE  <<f, t>> \in Routes
  <2>1. <<t>>[1] = t
    OBVIOUS
  <2> QED BY <1>1, <2>1 DEF Routes
<1>2. ASSUME NEW f \in Files, NEW t, NEW u, <<t, u>> \in Paths
      PROVE  <<f, t, u>> \in Routes
  <2>1. <<t, u>>[1] = t /\ <<t, u>>[2] = u /\ Len(<<t, u>>) = 2
    OBVIOUS
  <2> QED BY <1>2, <2>1 DEF Routes
<1> QED BY <1>1, <1>2 DEF Routes

(* Beginnings and ends of sequences that are spelled out.                    *)
LEMMA TakenIs ==
  ASSUME NEW S, NEW s \in Seq(S), NEW r \in Seq(S), Len(r) <= Len(s),
         \A i \in 1 .. Len(r) : s[i] = r[i]
  PROVE  SubSeq(s, 1, Len(r)) = r
<1>1. Len(r) \in Nat /\ Len(s) \in Nat /\ \A i \in 1 .. Len(r) : s[i] \in S
  OBVIOUS
<1>2. /\ SubSeq(s, 1, Len(r)) \in Seq(S) /\ Len(SubSeq(s, 1, Len(r))) = Len(r)
      /\ \A i \in 1 .. Len(r) : SubSeq(s, 1, Len(r))[i] = s[i]
  BY <1>1, SubSeqProperties
<1> QED BY <1>2, SeqEqual

LEMMA AppendedIs ==
  ASSUME NEW S, NEW s \in Seq(S), NEW x \in S, NEW r \in Seq(S),
         Len(r) = Len(s) + 1, r[Len(r)] = x, \A i \in 1 .. Len(s) : r[i] = s[i]
  PROVE  Append(s, x) = r
<1>1. /\ Append(s, x) \in Seq(S) /\ Len(Append(s, x)) = Len(r)
      /\ \A i \in 1 .. Len(r) : Append(s, x)[i] = r[i]
  OBVIOUS
<1> QED BY <1>1, SeqEqual

LEMMA SpelledOut == ASSUME NEW f, NEW t, NEW u
  PROVE  /\ SubSeq(<<f, t, u>>, 1, 1) = <<f>> /\ SubSeq(<<f, t, u>>, 1, 2) = <<f, t>>
         /\ SubSeq(<<f, t, u>>, 1, 3) = <<f, t, u>>
         /\ SubSeq(<<f, t>>, 1, 1) = <<f>> /\ SubSeq(<<f, t>>, 1, 2) = <<f, t>>
         /\ SubSeq(<<f>>, 1, 1) = <<f>>
         /\ Append(<<f>>, t) = <<f, t>> /\ Append(<<f, t>>, u) = <<f, t, u>>
<1> DEFINE S == {f, t, u}
<1>1. f \in S /\ t \in S /\ u \in S
  OBVIOUS
<1> HIDE DEF S
<1>2. <<f>> \in Seq(S)
  BY <1>1
<1>3. <<f, t>> \in Seq(S)
  BY <1>1
<1>4. <<f, t, u>> \in Seq(S)
  BY <1>1
<1>5. Len(<<f>>) = 1 /\ Len(<<f, t>>) = 2 /\ Len(<<f, t, u>>) = 3
  OBVIOUS
<1>6. /\ <<f>>[1] = f /\ <<f, t>>[1] = f /\ <<f, t>>[2] = t
      /\ <<f, t, u>>[1] = f /\ <<f, t, u>>[2] = t /\ <<f, t, u>>[3] = u
  OBVIOUS
<1>7. /\ Len(<<f>>) <= Len(<<f, t, u>>) /\ Len(<<f>>) <= Len(<<f, t>>)
      /\ \A i \in 1 .. Len(<<f>>) : <<f, t, u>>[i] = <<f>>[i]
      /\ \A i \in 1 .. Len(<<f>>) : <<f, t>>[i] = <<f>>[i]
      /\ Len(<<f, t>>) = Len(<<f>>) + 1 /\ <<f, t>>[Len(<<f, t>>)] = t
  BY <1>5, <1>6
<1>8. /\ Len(<<f, t>>) <= Len(<<f, t, u>>)
      /\ \A i \in 1 .. Len(<<f, t>>) : <<f, t, u>>[i] = <<f, t>>[i]
      /\ Len(<<f, t, u>>) = Len(<<f, t>>) + 1 /\ <<f, t, u>>[Len(<<f, t, u>>)] = u
  BY <1>5, <1>6
<1>9. /\ SubSeq(<<f, t, u>>, 1, Len(<<f>>)) = <<f>>
      /\ SubSeq(<<f, t>>, 1, Len(<<f>>)) = <<f>>
  BY <1>2, <1>3, <1>4, <1>7, TakenIs, Zenon
<1>10. SubSeq(<<f, t, u>>, 1, Len(<<f, t>>)) = <<f, t>>
  BY <1>3, <1>4, <1>8, TakenIs, Zenon
<1>11. /\ SubSeq(<<f, t, u>>, 1, Len(<<f, t, u>>)) = <<f, t, u>>
       /\ SubSeq(<<f, t>>, 1, Len(<<f, t>>)) = <<f, t>>
       /\ SubSeq(<<f>>, 1, Len(<<f>>)) = <<f>>
  BY <1>2, <1>3, <1>4, SubSeqFull, Zenon
<1>12. Append(<<f>>, t) = <<f, t>>
  BY <1>1, <1>2, <1>3, <1>7, AppendedIs, Zenon
<1>13. Append(<<f, t>>, u) = <<f, t, u>>
  BY <1>1, <1>3, <1>4, <1>8, AppendedIs, Zenon
<1> QED BY <1>5, <1>9, <1>10, <1>11, <1>12, <1>13, Zenon

LEMMA UpToIs ==
  ASSUME route \in Routes, NEW n \in 0 .. 3, n <= Len(route)
  PROVE  UpTo(n) \in Routes /\ Len(UpTo(n)) = n
<1> SUFFICES ASSUME n # 0
             PROVE  UpTo(n) \in Routes /\ Len(UpTo(n)) = n
  <2>1. n = 0 => UpTo(n) = <<>>
    BY SubSeqEmpty DEF UpTo
  <2> QED BY <2>1, RoutesHave
<1>1. CASE route = <<>>
  BY <1>1
<1>2. ASSUME NEW f \in Files, route = <<f>>
      PROVE  UpTo(n) \in Routes /\ Len(UpTo(n)) = n
  <2>1. n = 1
    BY <1>2
  <2>2. UpTo(n) = <<f>>
    BY <1>2, <2>1, SpelledOut, Zenon DEF UpTo
  <2> QED BY <2>1, <2>2, RoutesHave
<1>3. ASSUME NEW f \in Files, NEW p \in Paths, p = <<p[1]>>, route = <<f, p[1]>>
      PROVE  UpTo(n) \in Routes /\ Len(UpTo(n)) = n
  <2>1. n = 1 \/ n = 2
    BY <1>3
  <2>2. /\ n = 1 => UpTo(n) = <<f>>
        /\ n = 2 => UpTo(n) = <<f, p[1]>>
    BY <1>3, SpelledOut, Zenon DEF UpTo
  <2>3. <<f>> \in Routes /\ <<f, p[1]>> \in Routes
    BY <1>3, RoutesHave
  <2> QED BY <2>1, <2>2, <2>3
<1>4. ASSUME NEW f \in Files, NEW p \in Paths, p = <<p[1], p[2]>>, <<p[1]>> \in Paths,
             route = <<f, p[1], p[2]>>
      PROVE  UpTo(n) \in Routes /\ Len(UpTo(n)) = n
  <2>1. n = 1 \/ n = 2 \/ n = 3
    BY <1>4
  <2>2. /\ n = 1 => UpTo(n) = <<f>>
        /\ n = 2 => UpTo(n) = <<f, p[1]>>
        /\ n = 3 => UpTo(n) = <<f, p[1], p[2]>>
    <3>1. /\ SubSeq(<<f, p[1], p[2]>>, 1, 1) = <<f>>
          /\ SubSeq(<<f, p[1], p[2]>>, 1, 2) = <<f, p[1]>>
          /\ SubSeq(<<f, p[1], p[2]>>, 1, 3) = <<f, p[1], p[2]>>
      BY <1>4, SpelledOut, Zenon
    <3> QED BY <1>4, <3>1, Zenon DEF UpTo
  <2>3. <<f>> \in Routes /\ <<f, p[1]>> \in Routes /\ <<f, p[1], p[2]>> \in Routes
    BY <1>4, RoutesHave
  <2> QED BY <2>1, <2>2, <2>3
<1> QED BY <1>1, <1>2, <1>3, <1>4, RouteCases

LEMMA PathCases ==
  ASSUME NEW p \in Paths
  PROVE  \/ Len(p) = 1 /\ p = <<p[1]>>
         \/ Len(p) = 2 /\ p = <<p[1], p[2]>> /\ <<p[1]>> \in Paths
<1>1. Len(<<p[1]>>) = 1 /\ Len(<<p[1], p[2]>>) = 2
  OBVIOUS
<1>2. CASE p = <<p[1]>>
  <2>1. Len(p) = 1
    BY <1>1, <1>2, Zenon
  <2> QED BY <1>2, <2>1, Zenon
<1>3. CASE p = <<p[1], p[2]>> /\ <<p[1]>> \in Paths
  <2>1. Len(p) = 2
    BY <1>1, <1>3, Zenon
  <2> QED BY <1>3, <2>1, Zenon
<1> QED BY <1>2, <1>3, PathsAssumption, Zenon

LEMMA InsideIs ==
  ASSUME NEW key \in Routes, key # <<>>
  PROVE  /\ key[1] \in Files /\ Len(key) \in 1 .. 3
         /\ Inside(key) \subseteq Paths
<1>1. ASSUME NEW f \in Files, NEW p, key = <<f>> \/ key = <<f, p[1]>> \/ key = <<f, p[1], p[2]>>
      PROVE  key[1] \in Files /\ Len(key) \in 1 .. 3
  BY <1>1
<1>2. key[1] \in Files /\ Len(key) \in 1 .. 3
  BY <1>1, RouteCases
<1> QED BY <1>2 DEF Inside, BackupTables, BackupPartitions, BackupRows

LEMMA AnswerLevelIs ==
  ASSUME NEW key \in Routes, key # <<>>
  PROVE  /\ AnswerLevel(key) \in Served \cup {None}
         /\ AnswerLevel(key) # None =>
              AnswerLevel(key).of = key /\ AnswerLevel(key).inside = Inside(key)
BY InsideIs DEF AnswerLevel, Served

(* Going on into what is inside. *)
LEMMA AppendIs ==
  ASSUME NEW key \in Routes, Len(key) \in 1 .. 2, NEW p \in Inside(key)
  PROVE  Append(key, p[Len(p)]) \in Routes /\ p \in Paths
<1>1. ASSUME NEW f \in Files, key = <<f>>
      PROVE  Append(key, p[Len(p)]) \in Routes /\ p \in Paths
  <2>1. p \in Paths /\ Len(p) = 1
    BY <1>1 DEF Inside, BackupTables
  <2>2. p = <<p[1]>>
    <3>1. Len(p) # 2
      BY <2>1
    <3> QED BY <2>1, <3>1, PathCases, Zenon
  <2>3. Append(key, p[Len(p)]) = <<f, p[1]>>
    BY <1>1, <2>1, SpelledOut, Zenon
  <2> QED BY <2>1, <2>2, <2>3, RoutesHave
<1>2. ASSUME NEW f \in Files, NEW t, key = <<f, t>>
      PROVE  Append(key, p[Len(p)]) \in Routes /\ p \in Paths
  <2>1. p \in Paths /\ Len(p) = 2 /\ p[1] = t
    BY <1>2 DEF Inside, BackupPartitions
  <2>2. p = <<t, p[2]>>
    <3>1. Len(p) # 1
      BY <2>1
    <3> QED BY <2>1, <3>1, PathCases, Zenon
  <2>3. Append(key, p[Len(p)]) = <<f, t, p[2]>>
    BY <1>2, <2>1, SpelledOut, Zenon
  <2> QED BY <2>1, <2>2, <2>3, RoutesHave
<1>3. key # <<>> /\ \A f, t, u : key # <<f, t, u>>
  OBVIOUS
<1>4. (\E f \in Files : key = <<f>>) \/ (\E f \in Files : \E t : key = <<f, t>>)
  <2>1. \/ key = <<>>
        \/ \E f \in Files : key = <<f>>
        \/ \E f \in Files : \E t : key = <<f, t>>
        \/ \E f \in Files : \E t, u : key = <<f, t, u>>
    BY RouteForms, Zenon
  <2> QED BY <1>3, <2>1, Zenon
<1> QED BY <1>1, <1>2, <1>4, Zenon

-----------------------------------------------------------------------------
(* The snapshots page: tasks.                                                *)

Quiet(job) == job.kind \notin {"gate", "restore"}

LEMMA TaskKinds ==
  /\ NoTask \in PageTasks /\ Quiet(NoTask)
  /\ \A f \in PageTasks :
       /\ f # NoTask => f.kind \in Kinds
       /\ f.kind = "list" => f.answer \subseteq Files
       /\ f.kind = "level" => f \in LevelTasks
       /\ f.kind \in {"gate", "restore"} => f \in DialogTasks
<1>1. NoTask \in PageTasks /\ Quiet(NoTask)
  BY NoneAssumption DEF PageTasks, Quiet, NoTask, Kinds
<1>2. ASSUME NEW f \in PageTasks
      PROVE  /\ f # NoTask => f.kind \in Kinds
             /\ f.kind = "list" => f.answer \subseteq Files
             /\ f.kind = "level" => f \in LevelTasks
             /\ f.kind \in {"gate", "restore"} => f \in DialogTasks
  <2>1. CASE f = NoTask
    BY <2>1, NoneAssumption DEF NoTask, Kinds
  <2>2. CASE f \in [kind : {"status"}] \/ f \in [kind : {"list"}, answer : SUBSET Files]
             \/ f \in [kind : {"make"}, made : BOOLEAN]
    BY <2>2 DEF Kinds
  <2>3. CASE f \in LevelTasks
    BY <2>3 DEF LevelTasks, Kinds
  <2>4. CASE f \in DialogTasks
    BY <2>4 DEF DialogTasks, Kinds
  <2> QED BY <2>1, <2>2, <2>3, <2>4 DEF PageTasks
<1> QED BY <1>1, <1>2

LEMMA LaunchIs ==
  ASSUME NEW job, Launch(job)
  PROVE  \E i \in Slots : flights[i] = NoTask /\ flights' = [flights EXCEPT ![i] = job]
<1> DEFINE i == CHOOSE i \in Free : TRUE
<1>1. i \in Free /\ flights' = [flights EXCEPT ![i] = job]
  BY DEF Launch
<1> HIDE DEF i
<1> QED BY <1>1 DEF Free

(* A step that leaves the dialog and its task alone.                         *)
LEMMA QuietStep ==
  ASSUME SnapshotsIInv, route' \in Routes, cs' \in PageState, LevelsAreKeyed',
         cs'.restore = cs.restore,
         \/ flights' = flights
         \/ \E i \in Slots, job \in PageTasks :
              Quiet(flights[i]) /\ Quiet(job) /\ flights' = [flights EXCEPT ![i] = job],
         clicks' \in 0 .. MaxClicks, archives' \in [Spaces -> SUBSET Files],
         UNCHANGED <<configured, restored, open, ns, switches>>
  PROVE  SnapshotsIInv'
<1>1. /\ flights' \in [Slots -> PageTasks] /\ OfDialogs' = OfDialogs
      /\ \A i \in Slots : ~ Quiet(flights'[i]) => flights'[i] = flights[i]
  <2>1. CASE flights' = flights
    BY <2>1 DEF SnapshotsIInv, OfDialogs
  <2>2. ASSUME NEW i \in Slots, NEW job \in PageTasks, Quiet(flights[i]), Quiet(job),
               flights' = [flights EXCEPT ![i] = job]
        PROVE  <1>1!:
    BY <2>2 DEF SnapshotsIInv, OfDialogs, Quiet
  <2> QED BY <2>1, <2>2
<1>2. \A i \in OfDialogs : flights'[i] = flights[i]
  BY <1>1 DEF OfDialogs, Quiet
<1>3. DialogsAreAlone'
  <2>1. /\ OfDialogs' # {} => cs'.restore # None /\ cs'.restore.busy
        /\ cs'.restore # None /\ cs'.restore.done => \E r \in restored' : About(r, cs'.restore)
    BY <1>1 DEF SnapshotsIInv, DialogsAreAlone
  <2>2. ASSUME cs'.restore # None, cs'.restore.busy
        PROVE  \E i \in Slots : OfDialogs' = {i} /\ About(flights'[i], cs'.restore)
    <3>1. PICK i \in Slots : OfDialogs = {i} /\ About(flights[i], cs.restore)
      BY <2>2 DEF SnapshotsIInv, DialogsAreAlone
    <3> QED BY <1>1, <1>2, <3>1
  <2>3. ASSUME NEW i \in Slots, flights'[i].kind = "restore"
        PROVE  \E r \in restored' : About(r, flights'[i])
    BY <1>1, <2>3 DEF SnapshotsIInv, DialogsAreAlone, Quiet
  <2> QED BY <2>1, <2>2, <2>3 DEF DialogsAreAlone
<1> QED BY <1>1, <1>3 DEF SnapshotsIInv

LEMMA QuietLaunch ==
  ASSUME SnapshotsIInv, NEW job \in PageTasks, Quiet(job), Launch(job)
  PROVE  \E i \in Slots, t \in PageTasks :
           Quiet(flights[i]) /\ Quiet(t) /\ flights' = [flights EXCEPT ![i] = t]
BY LaunchIs, TaskKinds

-----------------------------------------------------------------------------
(* The snapshots page: its loads.                                            *)

LEMMA LoadFilesStep ==
  ASSUME SnapshotsIInv, LoadFiles
  PROVE  SnapshotsIInv'
<1>1. cs' \in PageState /\ cs'.restore = cs.restore /\ LevelsAreKeyed'
  BY DEF SnapshotsIInv, LoadFiles, BeginFilesLoad, PageState, LevelsAreKeyed
<1>2. [kind |-> "status"] \in PageTasks /\ Quiet([kind |-> "status"])
  BY DEF PageTasks, Quiet
<1> QED BY <1>1, <1>2, QuietLaunch, QuietStep DEF SnapshotsIInv, LoadFiles, world

LEMMA LoadLevelStep ==
  ASSUME SnapshotsIInv, NEW l \in Levels, LoadLevel(l)
  PROVE  SnapshotsIInv'
<1> DEFINE key == UpTo(l)
           job == [kind |-> "level", level |-> l, key |-> key, answer |-> AnswerLevel(key)]
<1>1. key \in Routes /\ Len(key) = l /\ key # <<>>
  <2>1. l \in 0 .. 3 /\ l <= Len(route) /\ l # 0
    BY RouteForms DEF Levels, LoadLevel, SnapshotsIInv
  <2> QED BY <2>1, UpToIs DEF SnapshotsIInv
<1>2. job \in PageTasks /\ Quiet(job)
  <2>1. job \in LevelTasks
    BY <1>1, AnswerLevelIs DEF LevelTasks
  <2> QED BY <2>1 DEF PageTasks, Quiet
<1>3. cs' = BeginLoad(cs, l, key) /\ Launch(job)
  BY DEF LoadLevel
<1> HIDE DEF key
<1>4. [NoLevel EXCEPT !.key = key] \in LevelStates
  BY <1>1 DEF NoLevel, LevelStates
<1>5. /\ cs' \in PageState /\ cs'.restore = cs.restore
      /\ cs'.level = [cs.level EXCEPT ![l] = [NoLevel EXCEPT !.key = key]]
  BY <1>3, <1>4 DEF BeginLoad, SnapshotsIInv, PageState
<1>6. LevelsAreKeyed'
  BY <1>1, <1>5 DEF LevelsAreKeyed, SnapshotsIInv, PageState, NoLevel
<1> HIDE DEF job
<1> QED BY <1>2, <1>3, <1>5, <1>6, QuietLaunch, QuietStep DEF SnapshotsIInv, LoadLevel, world

LEMMA EndsQuietly ==
  ASSUME SnapshotsIInv, NEW i \in Slots, Quiet(flights[i]), FlightEnds(i)
  PROVE  \E j \in Slots, t \in PageTasks :
           Quiet(flights[j]) /\ Quiet(t) /\ flights' = [flights EXCEPT ![j] = t]
BY TaskKinds DEF FlightEnds

LEMMA DeliverStatusStep ==
  ASSUME SnapshotsIInv, NEW i \in Slots, DeliverStatus(i)
  PROVE  SnapshotsIInv'
<1>1. cs' \in PageState /\ cs'.restore = cs.restore /\ LevelsAreKeyed'
  BY DEF SnapshotsIInv, DeliverStatus, SetBackups, PageState, LevelsAreKeyed
<1>2. Quiet(flights[i])
  BY DEF DeliverStatus, Quiet
<1>3. ListTask \in PageTasks /\ Quiet(ListTask)
  BY DEF SnapshotsIInv, ListTask, AnswerList, PageTasks, Quiet
<1>4. \E j \in Slots, t \in PageTasks :
        Quiet(flights[j]) /\ Quiet(t) /\ flights' = [flights EXCEPT ![j] = t]
  BY <1>2, <1>3, EndsQuietly DEF DeliverStatus, FlightGoes
<1> QED BY <1>1, <1>4, QuietStep DEF SnapshotsIInv, DeliverStatus, world

LEMMA DeliverListStep ==
  ASSUME SnapshotsIInv, NEW i \in Slots, DeliverList(i)
  PROVE  SnapshotsIInv'
<1>1. flights[i].answer \subseteq Files /\ Quiet(flights[i])
  BY TaskKinds DEF SnapshotsIInv, DeliverList, Quiet
<1>2. cs' \in PageState /\ cs'.restore = cs.restore /\ LevelsAreKeyed'
  BY <1>1 DEF SnapshotsIInv, DeliverList, SetFiles, PageState, LevelsAreKeyed
<1> QED BY <1>1, <1>2, EndsQuietly, QuietStep DEF SnapshotsIInv, DeliverList, world

LEMMA DeliverLevelStep ==
  ASSUME SnapshotsIInv, NEW i \in Slots, DeliverLevel(i)
  PROVE  SnapshotsIInv'
<1> DEFINE job == flights[i]
           was == cs.level[job.level]
           new == [[was EXCEPT !.holds = job.answer] EXCEPT !.ready = TRUE]
<1>1. job \in LevelTasks /\ job.answer # None /\ Quiet(job)
  BY TaskKinds DEF SnapshotsIInv, DeliverLevel, Quiet
<1>2. /\ job.level \in Levels /\ job.key \in Routes /\ job.answer \in Served
      /\ job.answer.of = job.key /\ job.answer.inside = Inside(job.key)
  BY <1>1 DEF LevelTasks
<1>3. was \in LevelStates
  BY <1>2 DEF SnapshotsIInv, PageState
<1>4. cs' = SetLevel(cs, job.level, job.key, job.answer)
  BY DEF DeliverLevel
<1> HIDE DEF job, was
<1>5. CASE was.key # job.key
  <2>1. cs' = cs
    BY <1>4, <1>5 DEF SetLevel, was
  <2> QED BY <1>1, <2>1, EndsQuietly, QuietStep DEF SnapshotsIInv, DeliverLevel, world,
     job, LevelsAreKeyed
<1>6. CASE was.key = job.key
  <2>1. new \in LevelStates /\ new.key = was.key
    BY <1>1, <1>2, <1>3, <1>6 DEF LevelStates
  <2>2. /\ cs' \in PageState /\ cs'.restore = cs.restore
        /\ cs'.level = [cs.level EXCEPT ![job.level] = new]
    BY <1>2, <1>4, <1>6, <2>1 DEF SetLevel, SnapshotsIInv, PageState, was
  <2>3. LevelsAreKeyed'
    BY <1>2, <2>1, <2>2 DEF LevelsAreKeyed, SnapshotsIInv, PageState, was
  <2> QED BY <1>1, <2>2, <2>3, EndsQuietly, QuietStep DEF SnapshotsIInv, DeliverLevel, world, job
<1> QED BY <1>5, <1>6

LEMMA DeliverMakeStep ==
  ASSUME SnapshotsIInv, NEW i \in Slots, DeliverMake(i)
  PROVE  SnapshotsIInv'
<1>1. Quiet(flights[i])
  BY DEF DeliverMake, Quiet
<1>2. cs' \in PageState /\ cs'.restore = cs.restore /\ LevelsAreKeyed'
  BY DEF SnapshotsIInv, DeliverMake, MakeDone, PageState, LevelsAreKeyed
<1> QED BY <1>1, <1>2, EndsQuietly, QuietStep DEF SnapshotsIInv, DeliverMake, world

-----------------------------------------------------------------------------
(* The snapshots page: the dialog's own tasks.                               *)

(* The task of a dialog is the only one, and is about what the dialog names. *)
LEMMA DialogTaskIs ==
  ASSUME SnapshotsIInv, NEW i \in Slots, flights[i].kind \in {"gate", "restore"}
  PROVE  /\ flights[i] \in DialogTasks /\ OfDialogs = {i}
         /\ cs.restore \in Dialogs /\ cs.restore # None /\ About(flights[i], cs.restore)
<1>1. flights[i] \in DialogTasks
  BY TaskKinds DEF SnapshotsIInv
<1>2. i \in OfDialogs
  BY DEF OfDialogs
<1>3. cs.restore # None /\ cs.restore.busy
  BY <1>2 DEF SnapshotsIInv, DialogsAreAlone
<1>4. PICK j \in Slots : OfDialogs = {j} /\ About(flights[j], cs.restore)
  BY <1>3 DEF SnapshotsIInv, DialogsAreAlone
<1>5. cs.restore \in Dialogs
  BY <1>3 DEF SnapshotsIInv, PageState
<1> QED BY <1>1, <1>2, <1>3, <1>4, <1>5

LEMMA DeliverGateStep ==
  ASSUME SnapshotsIInv, NEW i \in Slots, DeliverGate(i)
  PROVE  SnapshotsIInv'
<1> DEFINE job == flights[i]
           next == [job EXCEPT !.kind = "restore"]
<1>1. /\ job \in DialogTasks /\ OfDialogs = {i} /\ cs.restore # None
      /\ About(job, cs.restore) /\ flights \in [Slots -> PageTasks]
  BY DialogTaskIs DEF DeliverGate, SnapshotsIInv
<1>2. /\ next \in DialogTasks /\ next \in PageTasks /\ About(next, job)
      /\ next.kind = "restore"
  BY <1>1 DEF DialogTasks, PageTasks, About
<1>3. /\ flights' = [flights EXCEPT ![i] = next]
      /\ restored \subseteq restored' /\ \E r \in restored' : About(r, job)
  <2> DEFINE one == [ns |-> ns, file |-> job.file, what |-> job.what]
  <2>1. flights' = [flights EXCEPT ![i] = next]
    BY DEF DeliverGate, FlightGoes
  <2>2. restored' = restored \cup {one}
    <3>1. CASE job.what = <<>>
      BY <3>1 DEF DeliverGate, RestoreAll
    <3>2. CASE job.what # <<>>
      BY <3>2 DEF DeliverGate, RestorePartition
    <3> QED BY <3>1, <3>2
  <2>3. About(one, job)
    BY DEF About
  <2> HIDE DEF one
  <2> QED BY <2>1, <2>2, <2>3
<1> HIDE DEF next, job
<1>4. flights' \in [Slots -> PageTasks]
  BY <1>1, <1>2, <1>3
<1>5. flights'[i] = next /\ \A j \in Slots \ {i} : flights'[j] = flights[j]
  BY <1>1, <1>3
<1>6. OfDialogs' = {i}
  BY <1>1, <1>2, <1>5 DEF OfDialogs
<1>7. About(flights'[i], cs.restore) /\ \E r \in restored' : About(r, flights'[i])
  BY <1>1, <1>2, <1>3, <1>5 DEF About
<1>8. DialogsAreAlone'
  <2>1. cs.restore.busy
    BY <1>1 DEF SnapshotsIInv, DialogsAreAlone
  <2>2. cs.restore.done => \E r \in restored' : About(r, cs.restore)
    BY <1>1, <1>3 DEF SnapshotsIInv, DialogsAreAlone
  <2>3. \A j \in Slots : flights'[j].kind = "restore" =>
          \E r \in restored' : About(r, flights'[j])
    BY <1>3, <1>5, <1>7 DEF SnapshotsIInv, DialogsAreAlone
  <2>4. cs' = cs
    BY DEF DeliverGate
  <2> QED BY <1>1, <1>6, <1>7, <2>1, <2>2, <2>3, <2>4 DEF DialogsAreAlone
<1> QED BY <1>4, <1>8 DEF SnapshotsIInv, DeliverGate, LevelsAreKeyed

(* A dialog whose task ends, done or not.                                    *)
LEMMA DialogEnds ==
  ASSUME SnapshotsIInv, NEW i \in Slots, flights[i].kind \in {"gate", "restore"},
         FlightEnds(i), NEW d \in Dialogs, About(d, cs.restore), ~ d.busy,
         d.done => cs.restore.done \/ flights[i].kind = "restore",
         cs' = [cs EXCEPT !.restore = d], UNCHANGED <<route, clicks, world>>
  PROVE  SnapshotsIInv'
<1>1. OfDialogs = {i} /\ About(flights[i], cs.restore) /\ cs.restore # None
  BY DialogTaskIs
<1>2. cs' \in PageState /\ cs'.restore = d /\ cs'.level = cs.level
  BY DEF SnapshotsIInv, PageState
<1>3. /\ flights' \in [Slots -> PageTasks]
      /\ flights'[i] = NoTask /\ \A j \in Slots \ {i} : flights'[j] = flights[j]
  BY TaskKinds DEF FlightEnds, SnapshotsIInv
<1>4. OfDialogs' = {}
  BY <1>1, <1>3, TaskKinds DEF OfDialogs, Quiet
<1>5. d.done => \E r \in restored : About(r, d)
  BY <1>1 DEF SnapshotsIInv, DialogsAreAlone, About
<1>6. \A j \in Slots : flights'[j].kind = "restore" => \E r \in restored : About(r, flights'[j])
  BY <1>3, TaskKinds DEF SnapshotsIInv, DialogsAreAlone, Quiet
<1>7. DialogsAreAlone'
  BY <1>2, <1>4, <1>5, <1>6 DEF DialogsAreAlone, world
<1> QED BY <1>2, <1>3, <1>7 DEF SnapshotsIInv, LevelsAreKeyed, world

LEMMA RestoreEndsAre ==
  ASSUME SnapshotsIInv, cs.restore # None
  PROVE  /\ RestoreDone(cs) =
              [cs EXCEPT !.restore = [cs.restore EXCEPT !.busy = FALSE, !.done = TRUE]]
         /\ RestoreError(cs) = [cs EXCEPT !.restore = [cs.restore EXCEPT !.busy = FALSE]]
BY DEF RestoreDone, RestoreError, SnapshotsIInv, PageState

LEMMA DeliverRestoreStep ==
  ASSUME SnapshotsIInv, NEW i \in Slots, DeliverRestore(i)
  PROVE  SnapshotsIInv'
<1> DEFINE d == [cs.restore EXCEPT !.busy = FALSE, !.done = TRUE]
<1>1. cs.restore \in Dialogs /\ cs.restore # None
  BY DialogTaskIs DEF DeliverRestore
<1>2. d \in Dialogs /\ About(d, cs.restore) /\ ~ d.busy
  BY <1>1 DEF Dialogs, About
<1>3. cs' = [cs EXCEPT !.restore = d]
  BY <1>1, RestoreEndsAre DEF DeliverRestore
<1> HIDE DEF d
<1> QED BY <1>2, <1>3, DialogEnds DEF DeliverRestore

LEMMA FailStep ==
  ASSUME SnapshotsIInv, NEW i \in Slots, Fail(i)
  PROVE  SnapshotsIInv'
<1>1. flights[i] \in PageTasks /\ flights[i].kind \in Kinds
  BY TaskKinds DEF Fail, SnapshotsIInv
<1>2. CASE flights[i].kind \in {"status", "list", "make"}
  <2>1. Quiet(flights[i])
    BY <1>2 DEF Quiet
  <2>2. cs' = StatusError(cs) \/ cs' = [cs EXCEPT !.error = TRUE] \/ cs' = MakeError(cs)
    BY <1>2 DEF Fail, Failed
  <2>3. cs' \in PageState /\ cs'.restore = cs.restore /\ LevelsAreKeyed'
    BY <2>2 DEF SnapshotsIInv, StatusError, MakeError, PageState, LevelsAreKeyed
  <2> QED BY <2>1, <2>3, EndsQuietly, QuietStep DEF SnapshotsIInv, Fail, world
<1>3. CASE flights[i].kind = "level"
  <2> DEFINE l == flights[i].level
             was == cs.level[l]
             new == [was EXCEPT !.failed = @ \/ was.key = flights[i].key]
  <2>1. Quiet(flights[i]) /\ l \in Levels
    BY <1>1, <1>3, TaskKinds DEF Quiet, LevelTasks
  <2>2. was \in LevelStates
    BY <2>1 DEF SnapshotsIInv, PageState
  <2>3. new \in LevelStates /\ new.key = was.key
    BY <2>2 DEF LevelStates
  <2>4. /\ cs' \in PageState /\ cs'.restore = cs.restore
        /\ cs'.level = [cs.level EXCEPT ![l] = new]
    BY <1>3, <2>1, <2>3 DEF Fail, Failed, SnapshotsIInv, PageState
  <2>5. LevelsAreKeyed'
    BY <2>1, <2>3, <2>4 DEF LevelsAreKeyed, SnapshotsIInv, PageState
  <2> QED BY <2>1, <2>4, <2>5, EndsQuietly, QuietStep DEF SnapshotsIInv, Fail, world
<1>4. CASE flights[i].kind \in {"gate", "restore"}
  <2> DEFINE d == [cs.restore EXCEPT !.busy = FALSE]
  <2>1. cs.restore \in Dialogs /\ cs.restore # None
    BY <1>4, DialogTaskIs
  <2>2. d \in Dialogs /\ About(d, cs.restore) /\ ~ d.busy /\ d.done = cs.restore.done
    BY <2>1 DEF Dialogs, About
  <2>3. cs' = [cs EXCEPT !.restore = d]
    BY <1>4, <2>1, RestoreEndsAre DEF Fail, Failed
  <2> HIDE DEF d
  <2> QED BY <1>4, <2>2, <2>3, DialogEnds DEF Fail
<1> QED BY <1>1, <1>2, <1>3, <1>4 DEF Kinds

-----------------------------------------------------------------------------
(* The snapshots page: the user.                                             *)

LEMMA SnapshotsClickIs ==
  ASSUME SnapshotsIInv, Click
  PROVE  clicks' \in 0 .. MaxClicks
BY SnapshotsPageAssumption DEF SnapshotsIInv, Click

LEMMA ShownIs ==
  ASSUME SnapshotsIInv, route # <<>>, Len(route) \in Levels
  PROVE  Shown \subseteq Inside(route)
<1>1. cs.level[Len(route)] \in LevelStates
  BY DEF SnapshotsIInv, PageState
<1>2. route # None
  BY NoneAssumption DEF SnapshotsIInv
<1> QED BY <1>1, <1>2 DEF Shown, LevelStates

LEMMA GoStep ==
  ASSUME SnapshotsIInv, Click, route' \in Routes, UNCHANGED <<cs, flights, world>>
  PROVE  SnapshotsIInv'
BY SnapshotsClickIs, QuietStep DEF SnapshotsIInv, LevelsAreKeyed, world

LEMMA OpenInsideStep ==
  ASSUME SnapshotsIInv, NEW p \in Paths, OpenInside(p)
  PROVE  SnapshotsIInv'
<1>1. route # <<>> /\ Len(route) \in Levels /\ route \in Routes
  <2>1. Len(<<>>) = 0 /\ Len(route) # 0 /\ Len(route) \in Levels
    BY DEF OpenInside, Levels
  <2>2. route # <<>>
    BY <2>1, Zenon
  <2> QED BY <2>1, <2>2 DEF SnapshotsIInv
<1>2. p \in Inside(route)
  BY <1>1, ShownIs DEF OpenInside
<1>3. route' \in Routes
  BY <1>1, <1>2, AppendIs DEF OpenInside
<1> QED BY <1>3, GoStep DEF OpenInside, PageClick

LEMMA CrumbStep ==
  ASSUME SnapshotsIInv, NEW n \in 0 .. 2, Crumb(n)
  PROVE  SnapshotsIInv'
<1>1. n \in 0 .. 3 /\ n <= Len(route)
  BY RouteForms DEF Crumb, SnapshotsIInv
<1>2. route' \in Routes
  BY <1>1, UpToIs DEF Crumb, SnapshotsIInv
<1> QED BY <1>2, GoStep DEF Crumb, PageClick

LEMMA MoveStep ==
  ASSUME SnapshotsIInv, NEW f \in Files, OpenFile(f) \/ Browse(f)
  PROVE  SnapshotsIInv'
BY GoStep, RoutesHave DEF OpenFile, Browse, PageClick

LEMMA RefreshStep ==
  ASSUME SnapshotsIInv, Refresh
  PROVE  SnapshotsIInv'
<1>1. CASE route = <<>>
  <2>1. cs' \in PageState /\ cs'.restore = cs.restore /\ LevelsAreKeyed'
    BY <1>1 DEF SnapshotsIInv, Refresh, PageState, LevelsAreKeyed
  <2> QED BY <2>1, SnapshotsClickIs, QuietStep DEF SnapshotsIInv, Refresh, PageClick, world
<1>2. CASE route # <<>>
  <2> DEFINE l == Len(route)
             new == [cs.level[l] EXCEPT !.key = None]
  <2>1. l \in Levels
    BY <1>2, InsideIs DEF SnapshotsIInv, Levels
  <2> HIDE DEF l
  <2>2. cs.level[l] \in LevelStates
    BY <2>1 DEF SnapshotsIInv, PageState
  <2>3. new \in LevelStates /\ new.key = None
    BY <2>2 DEF LevelStates
  <2>4. cs' = [cs EXCEPT !.level[l].key = None]
    BY <1>2 DEF Refresh, l
  <2>5. /\ cs' \in PageState /\ cs'.restore = cs.restore
        /\ cs'.level = [cs.level EXCEPT ![l] = new]
    BY <2>1, <2>3, <2>4 DEF SnapshotsIInv, PageState
  <2>6. LevelsAreKeyed'
    BY <2>1, <2>3, <2>5 DEF LevelsAreKeyed, SnapshotsIInv, PageState
  <2> QED BY <2>5, <2>6, SnapshotsClickIs, QuietStep DEF SnapshotsIInv, Refresh, PageClick, world
<1> QED BY <1>1, <1>2

LEMMA MakeSnapshotStep ==
  ASSUME SnapshotsIInv, MakeSnapshot
  PROVE  SnapshotsIInv'
<1> DEFINE made == configured /\ open /\ Cardinality(archives[ns]) < MaxFiles
           job == [kind |-> "make", made |-> made]
<1>1. job \in PageTasks /\ Quiet(job)
  <2>1. made \in BOOLEAN
    OBVIOUS
  <2> HIDE DEF made
  <2> QED BY <2>1 DEF PageTasks, Quiet
<1>2. Launch(job)
  BY DEF MakeSnapshot
<1>3. cs' \in PageState /\ cs'.restore = cs.restore /\ LevelsAreKeyed'
  BY DEF SnapshotsIInv, MakeSnapshot, BeginMake, PageState, LevelsAreKeyed
<1>4. archives' \in [Spaces -> SUBSET Files]
  <2>1. archives[ns] \subseteq Files /\ IsFiniteSet(Files)
    <3>1. IsFiniteSet(Files)
      BY FS_Interval, SnapshotsPageAssumption DEF Files
    <3> QED BY <3>1 DEF SnapshotsIInv
  <2>2. Cardinality(archives[ns]) \in Nat
    BY <2>1, FS_Subset, FS_CardinalityType
  <2>3. made => Cardinality(archives[ns]) + 1 \in Files
    BY <2>2, SnapshotsPageAssumption DEF Files
  <2>4. \/ archives' = archives
        \/ made /\ archives' = [archives EXCEPT ![ns] = @ \cup {Cardinality(@) + 1}]
    BY DEF MakeSnapshot
  <2> HIDE DEF made
  <2> QED BY <2>1, <2>3, <2>4 DEF SnapshotsIInv
<1>5. /\ route' = route /\ clicks' \in 0 .. MaxClicks
      /\ UNCHANGED <<configured, restored, open, ns, switches>>
  BY SnapshotsClickIs DEF MakeSnapshot, PageClick
<1> HIDE DEF job
<1> QED BY <1>1, <1>2, <1>3, <1>4, <1>5, QuietLaunch, QuietStep DEF SnapshotsIInv

(* A dialog opened, or closed.                                               *)
LEMMA NoTaskOfDialogs ==
  ASSUME SnapshotsIInv, Click, cs.restore = None \/ ~ cs.restore.busy,
         NEW d \in Dialogs \cup {None}, d # None => ~ d.busy /\ ~ d.done,
         cs' = [cs EXCEPT !.restore = d], UNCHANGED <<route, flights, world>>
  PROVE  SnapshotsIInv'
<1>1. cs' \in PageState /\ cs'.restore = d /\ cs'.level = cs.level
  BY DEF SnapshotsIInv, PageState
<1>2. OfDialogs = {} /\ OfDialogs' = {}
  BY DEF SnapshotsIInv, DialogsAreAlone, OfDialogs
<1>3. DialogsAreAlone'
  BY <1>1, <1>2 DEF SnapshotsIInv, DialogsAreAlone, world
<1> QED BY <1>1, <1>3, SnapshotsClickIs DEF SnapshotsIInv, LevelsAreKeyed, world

LEMMA OpenRestoreStep ==
  ASSUME SnapshotsIInv, NEW f \in Files, OpenRestore(f)
  PROVE  SnapshotsIInv'
<1>1. Dialog(f, <<>>) \in Dialogs /\ ~ Dialog(f, <<>>).busy /\ ~ Dialog(f, <<>>).done
  BY DEF Dialog, Dialogs
<1> QED BY <1>1, NoTaskOfDialogs DEF OpenRestore, PageClick

LEMMA OpenRestorePartitionStep ==
  ASSUME SnapshotsIInv, NEW p \in Paths, OpenRestorePartition(p)
  PROVE  SnapshotsIInv'
<1>1. route[1] \in Files
  <2>1. route \in Routes /\ route # <<>>
    <3>1. Len(<<>>) = 0 /\ Len(route) # 0
      BY DEF OpenRestorePartition
    <3>2. route # <<>>
      BY <3>1, Zenon
    <3> QED BY <3>2 DEF SnapshotsIInv
  <2> QED BY <2>1, InsideIs
<1>2. /\ Dialog(route[1], p) \in Dialogs
      /\ ~ Dialog(route[1], p).busy /\ ~ Dialog(route[1], p).done
  BY <1>1 DEF Dialog, Dialogs
<1> QED BY <1>2, NoTaskOfDialogs DEF OpenRestorePartition, PageClick

LEMMA CloseRestoreStep ==
  ASSUME SnapshotsIInv, CloseRestore
  PROVE  SnapshotsIInv'
BY NoTaskOfDialogs DEF CloseRestore

LEMMA ConfirmRestoreStep ==
  ASSUME SnapshotsIInv, ConfirmRestore
  PROVE  SnapshotsIInv'
<1> DEFINE d == cs.restore
           job == [kind |-> "gate", file |-> d.file, what |-> d.what, open |-> open]
           new == [d EXCEPT !.busy = TRUE]
<1>1. d \in Dialogs /\ d # None /\ ~ d.busy /\ ~ d.done
  BY DEF SnapshotsIInv, PageState, ConfirmRestore
<1>2. job \in DialogTasks /\ job \in PageTasks /\ job.kind = "gate" /\ About(job, d)
  BY <1>1 DEF Dialogs, DialogTasks, PageTasks, SnapshotsIInv, About
<1>3. new \in Dialogs /\ new # None /\ About(new, d) /\ new.busy /\ ~ new.done
  BY <1>1, NoneAssumption DEF Dialogs, About
<1>4. cs' = [cs EXCEPT !.restore.busy = TRUE] /\ Launch(job)
  BY DEF ConfirmRestore, RestoreBegin
<1>5. cs' \in PageState /\ cs'.restore = new /\ cs'.level = cs.level
  BY <1>3, <1>4 DEF SnapshotsIInv, PageState
<1>6. OfDialogs = {}
  BY <1>1 DEF SnapshotsIInv, DialogsAreAlone
<1> HIDE DEF new, job
<1>7. PICK i \in Slots : flights[i] = NoTask /\ flights' = [flights EXCEPT ![i] = job]
  BY <1>4, LaunchIs
<1>8. /\ flights' \in [Slots -> PageTasks] /\ flights'[i] = job
      /\ \A j \in Slots \ {i} : flights'[j] = flights[j]
  BY <1>2, <1>7 DEF SnapshotsIInv
<1>9. OfDialogs' = {i}
  BY <1>2, <1>6, <1>8 DEF OfDialogs
<1>10. About(flights'[i], new)
  BY <1>2, <1>3, <1>8 DEF About
<1>11. restored' = restored
  BY DEF ConfirmRestore, world
<1>12. \A j \in Slots : flights'[j].kind = "restore" => \E r \in restored : About(r, flights'[j])
  BY <1>2, <1>8 DEF SnapshotsIInv, DialogsAreAlone
<1>13. DialogsAreAlone'
  BY <1>3, <1>5, <1>9, <1>10, <1>11, <1>12 DEF DialogsAreAlone
<1> QED BY <1>5, <1>8, <1>13, SnapshotsClickIs DEF SnapshotsIInv, ConfirmRestore,
   LevelsAreKeyed, world

-----------------------------------------------------------------------------
(* The snapshots page: its theorems.                                         *)

LEMMA SnapshotsInitIInv == SnapshotsInit => SnapshotsIInv
<1> SUFFICES ASSUME SnapshotsInit PROVE SnapshotsIInv
  OBVIOUS
<1> USE DEF SnapshotsInit
<1>1. cs \in PageState /\ cs.restore = None /\ LevelsAreKeyed
  <2>1. NoLevel \in LevelStates
    BY DEF NoLevel, LevelStates
  <2> QED BY <2>1 DEF Fresh, PageState, LevelsAreKeyed, NoLevel
<1>2. flights \in [Slots -> PageTasks] /\ OfDialogs = {}
  BY TaskKinds DEF OfDialogs, Quiet
<1>3. archives \in [Spaces -> SUBSET Files] /\ ns \in Spaces
  BY SnapshotsPageAssumption DEF Files
<1>4. clicks \in 0 .. MaxClicks /\ switches \in 0 .. MaxSwitches
  BY SnapshotsPageAssumption
<1>5. DialogsAreAlone
  BY <1>1, <1>2 DEF DialogsAreAlone, OfDialogs
<1> QED BY <1>1, <1>2, <1>3, <1>4, <1>5, RoutesHave DEF SnapshotsIInv

LEMMA SnapshotsStepIInv ==
  ASSUME SnapshotsIInv, [SnapshotsNext]_snapshotsVars
  PROVE  SnapshotsIInv'
<1>1. CASE User
  <2>1. ASSUME NEW f \in Files, OpenFile(f) \/ Browse(f) \/ OpenRestore(f)
        PROVE  SnapshotsIInv'
    BY <2>1, MoveStep, OpenRestoreStep
  <2>2. ASSUME NEW p \in Paths, OpenInside(p) \/ OpenRestorePartition(p)
        PROVE  SnapshotsIInv'
    BY <2>2, OpenInsideStep, OpenRestorePartitionStep
  <2> QED BY <1>1, <2>1, <2>2, CrumbStep, RefreshStep, MakeSnapshotStep, CloseRestoreStep,
             ConfirmRestoreStep DEF User
<1>2. CASE Load
  BY <1>2, LoadFilesStep, LoadLevelStep DEF Load
<1>3. ASSUME NEW i \in Slots, Deliver(i) \/ Fail(i)
      PROVE  SnapshotsIInv'
  BY <1>3, DeliverStatusStep, DeliverListStep, DeliverLevelStep, DeliverMakeStep,
     DeliverGateStep, DeliverRestoreStep, FailStep DEF Deliver
<1>4. CASE Switch
  <2>1. DialogsAreAlone' /\ LevelsAreKeyed'
    BY <1>4 DEF Switch, SnapshotsIInv, DialogsAreAlone, OfDialogs, LevelsAreKeyed
  <2> QED BY <1>4, <2>1 DEF Switch, SnapshotsIInv
<1>5. ASSUME NEW n \in Spaces, OtherTab(n)
      PROVE  SnapshotsIInv'
  <2>1. DialogsAreAlone' /\ LevelsAreKeyed'
    BY <1>5 DEF OtherTab, SnapshotsIInv, DialogsAreAlone, OfDialogs, LevelsAreKeyed
  <2>2. switches' \in 0 .. MaxSwitches
    BY <1>5, SnapshotsPageAssumption DEF OtherTab, SnapshotsIInv
  <2> QED BY <1>5, <2>1, <2>2 DEF OtherTab, SnapshotsIInv
<1>6. CASE UNCHANGED snapshotsVars
  <2>1. DialogsAreAlone' /\ LevelsAreKeyed'
    BY <1>6 DEF snapshotsVars, SnapshotsIInv, DialogsAreAlone, OfDialogs, LevelsAreKeyed
  <2> QED BY <1>6, <2>1 DEF snapshotsVars, SnapshotsIInv
<1> QED BY <1>1, <1>2, <1>3, <1>4, <1>5, <1>6 DEF SnapshotsNext

(* Every reachable state of the snapshots page satisfies the inductive       *)
(* invariant, whatever is clicked, in whatever order answers come or get     *)
(* lost, and whatever other tabs select (ui/src/pages/snapshots.rs:131-270). *)
THEOREM SnapshotsInvariantHolds == SnapshotsSpec => []SnapshotsIInv
<1>1. SnapshotsIInv /\ [SnapshotsNext]_snapshotsVars => SnapshotsIInv'
  BY SnapshotsStepIInv
<1> QED BY <1>1, SnapshotsInitIInv, PTL DEF SnapshotsSpec

(* What a level shows is what the archive, the table or the partition of its *)
(* key holds, however late an answer comes, for any archives and any number  *)
(* of tasks (snapshots.rs:150-250).                                          *)
THEOREM LevelsShowTheirKeys == SnapshotsSpec => []SnapshotsInv
<1>1. SnapshotsIInv => SnapshotsInv
  <2> SUFFICES ASSUME SnapshotsIInv PROVE SnapshotsInv
    OBVIOUS
  <2>1. \A l \in Levels : cs.level[l] \in LevelStates
    BY DEF SnapshotsIInv, PageState
  <2>2. \A l \in Levels : /\ cs.level[l].key \in Routes \cup {None}
                          /\ cs.level[l].ready => cs.level[l].holds # None
    BY <2>1 DEF LevelStates
  <2>3. cs.files \subseteq Files /\ cs.configured \in BOOLEAN \cup {None}
    BY DEF SnapshotsIInv, PageState
  <2>4. cs.restore # None => cs.restore.file \in Files /\ cs.restore.what \in Paths \cup {<<>>}
    <3>1. cs.restore \in Dialogs \cup {None}
      BY DEF SnapshotsIInv, PageState
    <3> QED BY <3>1 DEF Dialogs
  <2>5. SnapshotsTypeOK
    BY <2>2, <2>3, <2>4 DEF SnapshotsIInv, SnapshotsTypeOK
  <2>6. LevelsAreOfTheirKeys
    BY <2>1 DEF LevelsAreOfTheirKeys, LevelStates
  <2> QED BY <2>5, <2>6 DEF SnapshotsInv
<1> QED BY <1>1, SnapshotsInvariantHolds, PTL

(* "Has been restored" is said of the file and the partition the dialog      *)
(* names, and a busy dialog has exactly one restore on its way, its own      *)
(* (snapshots.rs:168-270).                                                   *)
THEOREM DialogsAreTrue == SnapshotsSpec => []DialogsTellTheTruth
<1>1. SnapshotsIInv => DialogsTellTheTruth
  <2> SUFFICES ASSUME SnapshotsIInv, cs.restore # None
               PROVE  /\ cs.restore.done =>
                           \E r \in restored : /\ r.file = cs.restore.file
                                               /\ r.what = cs.restore.what
                      /\ Cardinality(OfDialogs) = IF cs.restore.busy THEN 1 ELSE 0
                      /\ \A i \in OfDialogs : /\ flights[i].file = cs.restore.file
                                              /\ flights[i].what = cs.restore.what
    <3>1. {i \in Slots : /\ flights[i] # NoTask
                         /\ flights[i].kind \in {"gate", "restore"}} = OfDialogs
      BY TaskKinds DEF OfDialogs, Quiet
    <3> QED BY <3>1 DEF DialogsTellTheTruth
  <2>1. cs.restore.done =>
          \E r \in restored : r.file = cs.restore.file /\ r.what = cs.restore.what
    BY DEF SnapshotsIInv, DialogsAreAlone, About
  <2>2. CASE cs.restore.busy
    <3>1. PICK i \in Slots : OfDialogs = {i} /\ About(flights[i], cs.restore)
      BY <2>2 DEF SnapshotsIInv, DialogsAreAlone
    <3>2. Cardinality(OfDialogs) = 1
      BY <3>1, FS_Singleton
    <3> QED BY <2>1, <2>2, <3>1, <3>2 DEF About
  <2>3. CASE ~ cs.restore.busy
    <3>1. OfDialogs = {}
      BY <2>3 DEF SnapshotsIInv, DialogsAreAlone
    <3>2. Cardinality(OfDialogs) = 0
      BY <3>1, FS_EmptySet
    <3> QED BY <2>1, <2>3, <3>1, <3>2
  <2> QED BY <2>2, <2>3
<1> QED BY <1>1, SnapshotsInvariantHolds, PTL

=============================================================================
