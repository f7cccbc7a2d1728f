-------------------------- MODULE WriteBehindProofs --------------------------
(***************************************************************************)
(* Proofs about WriteBehind for every number of tables, partitions,        *)
(* instances, requests, values and periods, and an unbounded clock bound.  *)
(***************************************************************************)
EXTENDS WriteBehindInvariant, TLAPS

-----------------------------------------------------------------------------
(* What the groups of actions leave alone. *)

(* A request never touches the lock, the passes or the disk. *)
LEMMA RequestFrame ==
  ASSUME NEW r \in Requests, RequestStep(r)
  PROVE  /\ UNCHANGED <<persistLock, pass, diskRows, diskMeta, now, stopped>>
         /\ ~stopped
BY DEF RequestStep, Resolve, DeleteTable, Write, Remove, NothingToDo, SetTableAttributes,
       CreateTable, CleanDeleted, Mark, diskVars, tableVars, ghosts

(* A pass never touches a table, a request or the clock. *)
LEMMA PassFrame ==
  ASSUME \/ \E a \in Passes : PassStep(a)
         \/ StartTimer
         \/ TakeAll
  PROVE  /\ UNCHANGED <<tables, rows, persistAttr, request, now, unsettled>>
         /\ ~stopped
BY DEF PassStep, TakeLock, NoTask, ReadAttributes, ReadRows, WriteDisk, EndPass, TakeTask,
       LookUp, StartTimer, TakeAll, diskVars, tableVars, ghosts

-----------------------------------------------------------------------------
(* Types. *)

LEMMA InitType == Init => TypeOK
<1> SUFFICES ASSUME Init PROVE TypeOK
  OBVIOUS
<1>1. request \in [Requests -> RequestState]
  BY DEF Init, NewRequest, RequestState
<1>2. pass \in [Passes -> PassState]
  BY DEF Init, NewPass, PassState
<1>3. rows \in [Instances -> [Partitions -> Content]] /\ queue \in Queue
  BY DEF Init, NoRows, Content, EmptyQueue, Queue
<1>4. persistAttr \in [Instances -> BOOLEAN] /\ stopped \in BOOLEAN
  BY DEF Init
<1>5. /\ tables \in [Tables -> Instances \cup {NONE}]
      /\ persistLock \in Passes \cup {NONE}
      /\ diskRows \in [Slots -> Content]
      /\ diskMeta \in [Tables -> BOOLEAN \cup {NONE}]
      /\ now \in Nat /\ unsettled \subseteq Task /\ recent \subseteq Task
  BY DEF Init, Content
<1> QED BY <1>1, <1>2, <1>3, <1>4, <1>5 DEF TypeOK

LEMMA MarkedType ==
  ASSUME NEW q \in Queue, NEW task \in Task, NEW m \in Nat
  PROVE  /\ Marked(q, task, m) \in Queue
         /\ Marked(q, task, m)[task] # NONE
         /\ \A other \in Task : other # task => Marked(q, task, m)[other] = q[other]
BY MarkerAssumption DEF Marked, KeepEarliest, Queue, Moment

LEMMA RequestType ==
  ASSUME TypeOK, RequestsReady, NEW r \in Requests, RequestStep(r)
  PROVE  TypeOK' /\ RequestsReady'
<1> USE DEF Goes, tableVars, diskVars, ghosts
<1>1. ASSUME NEW t \in Tables, NEW d \in Periods, Resolve(r, t, d)
      PROVE  TypeOK' /\ RequestsReady'
  BY <1>1, BoundAssumption DEF Resolve, TypeOK, RequestsReady, RequestState
<1>2. ASSUME NEW t \in Tables, NEW d \in Periods, DeleteTable(r, t, d)
      PROVE  TypeOK' /\ RequestsReady'
  BY <1>2, BoundAssumption DEF DeleteTable, TypeOK, RequestsReady, RequestState
<1>3. ASSUME NEW parts \in (SUBSET Partitions) \ {{}}, NEW v \in Values, Write(r, parts, v)
      PROVE  TypeOK' /\ RequestsReady'
  BY <1>3 DEF Write, TypeOK, RequestsReady, RequestState, Content
<1>4. ASSUME NEW parts \in (SUBSET Partitions) \ {{}}, Remove(r, parts)
      PROVE  TypeOK' /\ RequestsReady'
  BY <1>4 DEF Remove, TypeOK, RequestsReady, RequestState, Content
<1>5. CASE NothingToDo(r)
  BY <1>5 DEF NothingToDo, NewRequest, TypeOK, RequestsReady, RequestState
<1>6. ASSUME NEW persist \in Settings, SetTableAttributes(r, persist)
      PROVE  TypeOK' /\ RequestsReady'
  BY <1>6, BoundAssumption DEF SetTableAttributes, TypeOK, RequestsReady, RequestState, Task
<1>7. ASSUME NEW t \in Tables, NEW i \in Instances, NEW persist \in Settings,
             NEW d \in Periods, CreateTable(r, t, i, persist, d)
      PROVE  TypeOK' /\ RequestsReady'
  BY <1>7, BoundAssumption
  DEF CreateTable, TypeOK, RequestsReady, RequestState, NoRows, Content
<1>8. CASE CleanDeleted(r)
  BY <1>8 DEF CleanDeleted, TypeOK, RequestsReady, RequestState, NoRows, Content, HasRows
<1>9. ASSUME NEW x \in Partitions \cup {META}, Mark(r, x)
      PROVE  TypeOK' /\ RequestsReady'
  <2>1. request[r].table \in Tables /\ request[r].due \in Nat
    BY <1>9 DEF Mark, TypeOK, RequestsReady, RequestState
  <2>2. <<request[r].table, x>> \in Task
    BY <2>1 DEF Task
  <2>3. queue' \in Queue
    BY <1>9, <2>1, <2>2, MarkedType DEF Mark, TypeOK
  <2>4. request' \in [Requests -> RequestState]
    <3>1. request \in [Requests -> RequestState] /\ request[r] \in RequestState
      BY DEF TypeOK
    <3>2. NewRequest \in RequestState /\ [request[r] EXCEPT !.owes = @ \ {x}] \in RequestState
      BY <3>1, BoundAssumption DEF RequestState, NewRequest
    <3>3. \/ request' = [request EXCEPT ![r] = NewRequest]
          \/ request' = [request EXCEPT ![r] = [request[r] EXCEPT !.owes = @ \ {x}]]
      BY <1>9 DEF Mark
    <3> QED BY <3>1, <3>2, <3>3
  <2>5. recent' \subseteq Task
    BY <1>9, <2>2 DEF Mark, TypeOK
  <2>6. RequestsReady'
    BY <1>9 DEF Mark, TypeOK, RequestState, NewRequest, RequestsReady
  <2> QED BY <1>9, <2>3, <2>4, <2>5, <2>6 DEF Mark, TypeOK
<1> QED BY <1>1, <1>2, <1>3, <1>4, <1>5, <1>6, <1>7, <1>8, <1>9 DEF RequestStep

LEMMA PassUpdate ==
  ASSUME TypeOK, PassesReady, NEW a \in Passes, NEW next \in PassState, Ready(a, next),
         pass' = [pass EXCEPT ![a] = next]
  PROVE  pass' \in [Passes -> PassState] /\ PassesReady'
<1>1. pass' \in [Passes -> PassState]
  BY DEF TypeOK
<1>2. \A b \in Passes : pass'[b] = IF b = a THEN next ELSE pass[b]
  BY DEF TypeOK
<1>3. \A b \in Passes : Ready(b, pass'[b])
  BY <1>2 DEF PassesReady
<1> QED BY <1>1, <1>3 DEF PassesReady, Ready

LEMMA PassType ==
  ASSUME TypeOK, PassesReady,
         \/ \E a \in Passes : PassStep(a)
         \/ StartTimer
         \/ TakeAll
  PROVE  TypeOK' /\ PassesReady'
<1> USE DEF Steps, tableVars, diskVars, ghosts
<1>a. NONE \notin Passes /\ Timer \in Passes /\ Flush \in Passes /\ Timer # Flush
  BY PassAssumption
<1>b. NewPass \in PassState
  BY DEF NewPass, PassState
<1>1. ASSUME NEW a \in Passes, TakeLock(a)
      PROVE  TypeOK' /\ PassesReady'
  <2> DEFINE next == [pass[a] EXCEPT !.at = "locked"]
  <2>1. next \in PassState
    BY DEF TypeOK, PassState
  <2>2. /\ next.at = "locked" /\ next.now = pass[a].now /\ next.tasks = pass[a].tasks
        /\ pass[a].at \in {"idle", "waiting"}
    BY <1>1 DEF TakeLock, TypeOK, PassState
  <2>3. Ready(a, next)
    BY <2>2 DEF PassesReady, Ready, InHand
  <2> HIDE DEF next
  <2> QED BY <1>1, <2>1, <2>3, PassUpdate DEF TakeLock, TypeOK, next
<1>2. ASSUME NEW a \in Passes, NoTask(a)
      PROVE  TypeOK' /\ PassesReady'
  <2>1. Ready(a, NewPass)
    BY DEF Ready, NewPass, InHand
  <2> QED BY <1>2, <1>b, <2>1, PassUpdate DEF NoTask, TypeOK
<1>3. ASSUME NEW a \in Passes, ReadAttributes(a)
      PROVE  TypeOK' /\ PassesReady'
  <2>1. pass[a] \in PassState /\ pass[a].task \in Task /\ Ready(a, pass[a])
    BY <1>3 DEF ReadAttributes, TypeOK, PassesReady, Ready, InHand
  <2>2. ASSUME NEW v \in Content \cup BOOLEAN \cup {NONE},
               v \in IF pass[a].task[2] = META THEN BOOLEAN \cup {NONE} ELSE Content,
               pass' = [pass EXCEPT ![a] = [pass[a] EXCEPT !.at = "read", !.found = v]]
        PROVE  TypeOK' /\ PassesReady'
    <3> DEFINE next == [pass[a] EXCEPT !.at = "read", !.found = v]
    <3>1. next \in PassState
      BY <2>1, <2>2 DEF PassState
    <3>2. /\ next.at = "read" /\ next.now = pass[a].now
          /\ next.found = v /\ next.task = pass[a].task
      BY <2>1 DEF PassState
    <3>3. Ready(a, next)
      BY <2>1, <2>2, <3>2 DEF Ready
    <3> HIDE DEF next
    <3> QED BY <1>3, <2>2, <3>1, <3>3, PassUpdate DEF ReadAttributes, TypeOK, next
  <2>3. CASE pass[a].task[2] = META
    <3>1. MetadataToWrite(pass[a].inst) \in BOOLEAN \cup {NONE}
      BY <2>1 DEF MetadataToWrite, TypeOK, PassState
    <3> QED BY <1>3, <2>2, <2>3, <3>1 DEF ReadAttributes
  <2>4. CASE pass[a].task[2] # META /\ pass[a].inst # NONE /\ persistAttr[pass[a].inst]
    <3> DEFINE next == [pass[a] EXCEPT !.at = "persisted"]
    <3>1. next \in PassState
      BY <2>1 DEF PassState
    <3>2. /\ next.at = "persisted" /\ next.now = pass[a].now
          /\ next.inst = pass[a].inst /\ next.task = pass[a].task
      BY <2>1 DEF PassState
    <3>3. pass[a].inst \in Instances
      BY <2>1, <2>4 DEF PassState
    <3>4. Ready(a, next)
      BY <2>1, <2>4, <3>2, <3>3 DEF Ready
    <3>5. pass' = [pass EXCEPT ![a] = next]
      BY <1>3, <2>4 DEF ReadAttributes
    <3> HIDE DEF next
    <3> QED BY <1>3, <3>1, <3>4, <3>5, PassUpdate DEF ReadAttributes, TypeOK
  <2>5. CASE pass[a].task[2] # META /\ ~(pass[a].inst # NONE /\ persistAttr[pass[a].inst])
    BY <1>3, <2>2, <2>5 DEF ReadAttributes, Content
  <2> QED BY <2>3, <2>4, <2>5
<1>4. ASSUME NEW a \in Passes, ReadRows(a)
      PROVE  TypeOK' /\ PassesReady'
  <2>1. /\ pass[a] \in PassState /\ Ready(a, pass[a])
        /\ pass[a].task \in Task /\ pass[a].task[2] # META /\ pass[a].inst \in Instances
    BY <1>4 DEF ReadRows, TypeOK, PassesReady, Ready, InHand
  <2> DEFINE v == rows[pass[a].inst][pass[a].task[2]]
             next == [pass[a] EXCEPT !.at = "read", !.found = v]
  <2>2. v \in Content
    BY <2>1 DEF TypeOK, Task
  <2>3. next \in PassState
    BY <2>1, <2>2 DEF PassState
  <2>4. /\ next.at = "read" /\ next.now = pass[a].now
        /\ next.found = v /\ next.task = pass[a].task
    BY <2>1 DEF PassState
  <2>5. Ready(a, next)
    BY <2>1, <2>2, <2>4 DEF Ready
  <2>6. pass' = [pass EXCEPT ![a] = next]
    BY <1>4 DEF ReadRows
  <2> HIDE DEF next, v
  <2> QED BY <1>4, <2>3, <2>5, <2>6, PassUpdate DEF ReadRows, TypeOK
<1>5. ASSUME NEW a \in Passes, WriteDisk(a)
      PROVE  TypeOK' /\ PassesReady'
  <2>1. /\ pass[a] \in PassState /\ Ready(a, pass[a]) /\ pass[a].task \in Task
        /\ pass[a].found \in IF pass[a].task[2] = META THEN BOOLEAN \cup {NONE} ELSE Content
    BY <1>5 DEF WriteDisk, TypeOK, PassesReady, Ready, InHand
  <2> DEFINE next == [NewPass EXCEPT !.at = "working", !.now = pass[a].now,
                                     !.tasks = pass[a].tasks]
  <2>2. next \in PassState
    BY <2>1 DEF PassState, NewPass
  <2>3. next.at = "working" /\ next.now = pass[a].now
    BY DEF NewPass
  <2>4. Ready(a, next)
    BY <2>1, <2>3 DEF Ready, InHand
  <2>5. diskRows' \in [Slots -> Content] /\ diskMeta' \in [Tables -> BOOLEAN \cup {NONE}]
    <3>1. CASE pass[a].task[2] = META
      BY <1>5, <2>1, <3>1 DEF WriteDisk, TypeOK
    <3>2. CASE pass[a].task[2] # META
      BY <1>5, <2>1, <3>2 DEF WriteDisk, TypeOK
    <3> QED BY <3>1, <3>2
  <2>6. pass' = [pass EXCEPT ![a] = next]
    BY <1>5 DEF WriteDisk
  <2> HIDE DEF next
  <2> QED BY <1>5, <2>2, <2>4, <2>5, <2>6, PassUpdate DEF WriteDisk, TypeOK
<1>6. ASSUME NEW a \in Passes, EndPass(a)
      PROVE  TypeOK' /\ PassesReady'
  <2>1. Ready(a, NewPass)
    BY DEF Ready, NewPass, InHand
  <2>2. recent' \subseteq Task /\ persistLock' \in Passes \cup {NONE}
    BY <1>6 DEF EndPass, TypeOK
  <2> QED BY <1>6, <1>b, <2>1, <2>2, PassUpdate DEF EndPass, TypeOK
<1>7. ASSUME NEW a \in Passes, NEW task \in Task, TakeTask(a, task)
      PROVE  TypeOK' /\ PassesReady'
  <2> DEFINE next == [pass[a] EXCEPT !.at = "working", !.tasks = {task}]
  <2>1. next \in PassState /\ next.at = "working" /\ next.now = pass[a].now
    BY DEF TypeOK, PassState
  <2>2. Ready(a, next)
    BY <2>1 DEF PassesReady, Ready, InHand
  <2>3. queue' \in Queue
    BY <1>7 DEF TakeTask, Without, Queue, TypeOK
  <2>4. pass' = [pass EXCEPT ![a] = next]
    BY <1>7 DEF TakeTask
  <2> HIDE DEF next
  <2> QED BY <1>7, <2>1, <2>2, <2>3, <2>4, PassUpdate DEF TakeTask, TypeOK
<1>8. ASSUME NEW a \in Passes, NEW task \in Task, LookUp(a, task)
      PROVE  TypeOK' /\ PassesReady'
  <2> DEFINE next == [pass[a] EXCEPT !.at = "found", !.tasks = @ \ {task}, !.task = task,
                                     !.inst = tables[TableOf(task)]]
  <2>1. tables[TableOf(task)] \in Instances \cup {NONE}
    BY DEF TableOf, Task, TypeOK
  <2>2. next \in PassState
    BY <2>1 DEF TypeOK, PassState
  <2>3. next.at = "found" /\ next.now = pass[a].now /\ next.task = task
    BY DEF TypeOK, PassState
  <2>4. Ready(a, next)
    BY <2>3 DEF PassesReady, Ready, InHand
  <2>5. pass' = [pass EXCEPT ![a] = next]
    BY <1>8 DEF LookUp
  <2> HIDE DEF next
  <2> QED BY <1>8, <2>2, <2>4, <2>5, PassUpdate DEF LookUp, TypeOK
<1>9. CASE StartTimer
  <2> DEFINE next == [NewPass EXCEPT !.at = "waiting", !.now = now]
  <2>1. next \in PassState /\ next.at = "waiting" /\ next.tasks = {}
    BY DEF TypeOK, PassState, NewPass
  <2>2. Ready(Timer, next)
    BY <2>1 DEF Ready, InHand
  <2>3. pass' = [pass EXCEPT ![Timer] = next]
    BY <1>9 DEF StartTimer
  <2> HIDE DEF next
  <2> QED BY <1>9, <1>a, <2>1, <2>2, <2>3, PassUpdate DEF StartTimer, TypeOK
<1>10. CASE TakeAll
  <2> DEFINE next == [pass[Flush] EXCEPT !.at = "working", !.tasks = AllTasks(queue)]
  <2>1. AllTasks(queue) \in SUBSET Task /\ queue' \in Queue
    BY <1>10 DEF TakeAll, AllTasks, EmptyQueue, Queue
  <2>2. next \in PassState
    BY <1>a, <2>1 DEF TypeOK, PassState
  <2>3. next.at = "working" /\ next.now = pass[Flush].now
    BY <1>a DEF TypeOK, PassState
  <2>4. Ready(Flush, next)
    BY <1>a, <2>3 DEF PassesReady, Ready, InHand
  <2>5. pass' = [pass EXCEPT ![Flush] = next]
    BY <1>10 DEF TakeAll
  <2> HIDE DEF next
  <2> QED BY <1>10, <1>a, <2>1, <2>2, <2>4, <2>5, PassUpdate DEF TakeAll, TypeOK
<1> QED BY <1>1, <1>2, <1>3, <1>4, <1>5, <1>6, <1>7, <1>8, <1>9, <1>10 DEF PassStep

(* What a restart finds where. *)
LEMMA RestartState ==
  ASSUME TypeOK, Restart
  PROVE  /\ TypeOK'
         /\ \A r \in Requests : request'[r] = NewRequest
         /\ \A a \in Passes : pass'[a] = NewPass
         /\ \A t \in Tables \ OnDisk : tables'[t] = NONE
         /\ \A t \in OnDisk :
              /\ tables'[t] \in Instances
              /\ \A u \in Tables : tables'[u] = tables'[t] => u = t
              /\ persistAttr'[tables'[t]] = IF diskMeta[t] # NONE THEN diskMeta[t] ELSE TRUE
              /\ \A p \in Partitions : rows'[tables'[t]][p] = diskRows[<<t, p>>]
<1>1. PICK place \in [OnDisk -> Instances] :
       /\ \A t1, t2 \in OnDisk : place[t1] = place[t2] => t1 = t2
       /\ tables' = [t \in Tables |-> IF t \in OnDisk THEN place[t] ELSE NONE]
       /\ rows' = [i \in Instances |-> [p \in Partitions |->
                     IF \E t \in OnDisk : place[t] = i
                     THEN diskRows[<<CHOOSE t \in OnDisk : place[t] = i, p>>] ELSE EMPTY]]
       /\ persistAttr' = [i \in Instances |->
                     IF \E t \in OnDisk : place[t] = i /\ diskMeta[t] # NONE
                     THEN diskMeta[CHOOSE t \in OnDisk : place[t] = i] ELSE DefaultPersist]
  BY DEF Restart
<1>2. OnDisk \subseteq Tables
  BY DEF OnDisk
<1>3. ASSUME NEW i \in Instances, \E t \in OnDisk : place[t] = i
      PROVE  /\ (CHOOSE t \in OnDisk : place[t] = i) \in OnDisk
             /\ place[CHOOSE t \in OnDisk : place[t] = i] = i
  BY <1>3
<1>4. \A t \in OnDisk : (CHOOSE u \in OnDisk : place[u] = place[t]) = t
  BY <1>1, <1>3
<1>5. tables' \in [Tables -> Instances \cup {NONE}]
  BY <1>1
<1>6. rows' \in [Instances -> [Partitions -> Content]]
  <2>1. \A t \in Tables, p \in Partitions : diskRows[<<t, p>>] \in Content
    BY DEF TypeOK, Slots
  <2>2. ASSUME NEW i \in Instances, NEW p \in Partitions
        PROVE  (IF \E t \in OnDisk : place[t] = i
                THEN diskRows[<<CHOOSE t \in OnDisk : place[t] = i, p>>] ELSE EMPTY) \in Content
    BY <1>2, <1>3, <2>1 DEF Content
  <2> QED BY <1>1, <2>2
<1>7. persistAttr' \in [Instances -> BOOLEAN]
  <2>1. ASSUME NEW i \in Instances,
               NEW t \in OnDisk, place[t] = i, diskMeta[t] # NONE
        PROVE  diskMeta[CHOOSE u \in OnDisk : place[u] = i] \in BOOLEAN
    <3>1. (CHOOSE u \in OnDisk : place[u] = i) = t
      BY <1>4, <2>1
    <3> QED BY <1>2, <2>1, <3>1 DEF TypeOK
  <2>2. \A i \in Instances :
          (IF \E t \in OnDisk : place[t] = i /\ diskMeta[t] # NONE
           THEN diskMeta[CHOOSE t \in OnDisk : place[t] = i] ELSE DefaultPersist) \in BOOLEAN
    BY <2>1 DEF DefaultPersist
  <2> QED BY <1>1, <2>2
<1>8. request' \in [Requests -> RequestState] /\ pass' \in [Passes -> PassState]
  BY DEF Restart, NewRequest, RequestState, NewPass, PassState
<1>9. unsettled' \subseteq Task
  BY <1>2 DEF Restart, Slots, Task, MetadataOf
<1>10. queue' \in Queue
  BY DEF Restart, EmptyQueue, Queue
<1>11. TypeOK'
  BY <1>5, <1>6, <1>7, <1>8, <1>9, <1>10 DEF Restart, TypeOK, diskVars
<1>12. ASSUME NEW t \in OnDisk
       PROVE  /\ tables'[t] = place[t]
              /\ \A u \in Tables : tables'[u] = tables'[t] => u = t
              /\ \A p \in Partitions : rows'[tables'[t]][p] = diskRows[<<t, p>>]
  BY <1>1, <1>2, <1>4, DataAssumption
<1>13. ASSUME NEW t \in OnDisk
       PROVE  persistAttr'[place[t]] = IF diskMeta[t] # NONE THEN diskMeta[t] ELSE TRUE
  <2>1. (\E u \in OnDisk : place[u] = place[t] /\ diskMeta[u] # NONE) <=> diskMeta[t] # NONE
    BY <1>1
  <2>2. persistAttr'[place[t]] =
          IF \E u \in OnDisk : place[u] = place[t] /\ diskMeta[u] # NONE
          THEN diskMeta[CHOOSE u \in OnDisk : place[u] = place[t]] ELSE DefaultPersist
    BY <1>1
  <2>3. persistAttr'[place[t]] = IF diskMeta[t] # NONE THEN diskMeta[t] ELSE DefaultPersist
    BY <1>4, <2>1, <2>2, Zenon
  <2> QED BY <2>3 DEF DefaultPersist
<1>14. /\ \A r \in Requests : request'[r] = NewRequest
       /\ \A a \in Passes : pass'[a] = NewPass
       /\ \A t \in Tables \ OnDisk : tables'[t] = NONE
  BY <1>1 DEF Restart
<1> QED BY <1>11, <1>12, <1>13, <1>14

-----------------------------------------------------------------------------
(* One pass at a time. *)

(* The stages a step of a pass goes through. *)
LEMMA LockStep ==
  ASSUME TypeOK, PassesReady, SingleFlight,
         \/ \E a \in Passes : PassStep(a)
         \/ StartTimer
         \/ TakeAll
  PROVE  SingleFlight'
<1> USE DEF Steps
<1>a. NONE \notin Passes /\ Timer \in Passes /\ Flush \in Passes
  BY PassAssumption
<1>b. \A a \in Passes : pass[a].at \in Holding => persistLock = a
  BY DEF SingleFlight
<1>1. ASSUME NEW a \in Passes, NEW next, pass' = [pass EXCEPT ![a] = next],
             pass[a].at \in Holding, persistLock' = persistLock
      PROVE  SingleFlight'
  BY <1>1, <1>b DEF TypeOK, SingleFlight, Holding, InHand
<1>2. ASSUME NEW a \in Passes, NEW next, pass' = [pass EXCEPT ![a] = next],
             pass[a].at \in Holding, next.at \notin Holding
      PROVE  SingleFlight'
  BY <1>2, <1>b DEF TypeOK, SingleFlight, Holding, InHand
<1>3. NewPass.at \notin Holding
  BY DEF NewPass, Holding, InHand
<1>4. ASSUME NEW a \in Passes, TakeLock(a)
      PROVE  SingleFlight'
  BY <1>4, <1>a, <1>b DEF TakeLock, TypeOK, SingleFlight, Holding, InHand
<1>5. ASSUME NEW a \in Passes, NoTask(a)
      PROVE  SingleFlight'
  BY <1>5, <1>2, <1>3 DEF NoTask, Holding
<1>6. ASSUME NEW a \in Passes, ReadAttributes(a)
      PROVE  SingleFlight'
  BY <1>6, <1>1 DEF ReadAttributes, Holding, InHand
<1>7. ASSUME NEW a \in Passes, ReadRows(a)
      PROVE  SingleFlight'
  BY <1>7, <1>1 DEF ReadRows, Holding, InHand
<1>8. ASSUME NEW a \in Passes, WriteDisk(a)
      PROVE  SingleFlight'
  BY <1>8, <1>1 DEF WriteDisk, Holding, InHand
<1>9. ASSUME NEW a \in Passes, EndPass(a)
      PROVE  SingleFlight'
  BY <1>9, <1>2, <1>3 DEF EndPass, Holding
<1>10. ASSUME NEW a \in Passes, NEW task \in Task, TakeTask(a, task)
       PROVE  SingleFlight'
  BY <1>10, <1>1 DEF TakeTask, Holding
<1>11. ASSUME NEW a \in Passes, NEW task \in Task, LookUp(a, task)
       PROVE  SingleFlight'
  BY <1>11, <1>1 DEF LookUp, Holding
<1>12. CASE StartTimer
  <2> DEFINE next == [NewPass EXCEPT !.at = "waiting", !.now = now]
  <2>1. next.at = "waiting"
    BY DEF NewPass
  <2>2. pass' = [pass EXCEPT ![Timer] = next] /\ persistLock' = persistLock
    BY <1>12 DEF StartTimer
  <2> HIDE DEF next
  <2> QED BY <1>a, <1>b, <2>1, <2>2 DEF TypeOK, SingleFlight, Holding, InHand
<1>13. CASE TakeAll
  BY <1>13, <1>a, <1>1 DEF TakeAll, Holding
<1> QED BY <1>4, <1>5, <1>6, <1>7, <1>8, <1>9, <1>10, <1>11, <1>12, <1>13 DEF PassStep

-----------------------------------------------------------------------------
(* One name for each table object. *)

LEMMA SameNames ==
  ASSUME OneName,
         \A i \in Instances, t \in Tables : KnownAs(i, t)' => KnownAs(i, t)
  PROVE  OneName'
BY DEF OneName

LEMMA NameRequestStep ==
  ASSUME TypeOK, RequestsReady, PassesReady, OneName, NEW r \in Requests, RequestStep(r)
  PROVE  OneName'
<1> USE DEF Goes, tableVars, diskVars, ghosts
<1>a. \A q \in Requests : request[q].at # "idle" =>
        KnownAs(request[q].inst, request[q].table)
  BY DEF KnownAs
<1>b. \A t \in Tables : KnownAs(tables[t], t)
  BY DEF KnownAs
<1>c. UNCHANGED pass
  BY RequestFrame
<1>1. ASSUME UNCHANGED tables, NEW next,
             request' = [request EXCEPT ![r] = next],
             next.at # "idle" => /\ request[r].at # "idle"
                                 /\ next.table = request[r].table
                                 /\ next.inst = request[r].inst
      PROVE  OneName'
  BY <1>1, <1>c, SameNames DEF KnownAs, TypeOK
<1>2. ASSUME NEW t \in Tables, NEW d \in Periods, Resolve(r, t, d)
      PROVE  OneName'
  BY <1>2, <1>b, <1>c, SameNames DEF Resolve, KnownAs, TypeOK
<1>3. ASSUME NEW t \in Tables, NEW d \in Periods, DeleteTable(r, t, d)
      PROVE  OneName'
  <2>1. \A i \in Instances : i # NONE
    BY DataAssumption
  <2> QED BY <1>3, <1>b, <1>c, <2>1, SameNames DEF DeleteTable, KnownAs, TypeOK
<1>4. ASSUME NEW parts \in (SUBSET Partitions) \ {{}}, NEW v \in Values, Write(r, parts, v)
      PROVE  OneName'
  BY <1>4, <1>1 DEF Write, TypeOK, RequestState
<1>5. ASSUME NEW parts \in (SUBSET Partitions) \ {{}}, Remove(r, parts)
      PROVE  OneName'
  BY <1>5, <1>1 DEF Remove, TypeOK, RequestState
<1>6. CASE NothingToDo(r)
  BY <1>6, <1>1 DEF NothingToDo, NewRequest
<1>7. ASSUME NEW persist \in Settings, SetTableAttributes(r, persist)
      PROVE  OneName'
  BY <1>7, <1>1 DEF SetTableAttributes, TypeOK, RequestState
<1>8. ASSUME NEW t \in Tables, NEW i \in Instances, NEW persist \in Settings,
             NEW d \in Periods, CreateTable(r, t, i, persist, d)
      PROVE  OneName'
  <2>1. \A u \in Tables : ~KnownAs(i, u)
    BY <1>8 DEF CreateTable, Unused, KnownAs
  <2>2. \A u \in Tables : KnownAs(i, u)' => u = t
    BY <1>8, <1>c, <2>1 DEF CreateTable, KnownAs, TypeOK
  <2>3. \A j \in Instances \ {i}, u \in Tables : KnownAs(j, u)' => KnownAs(j, u)
    BY <1>8, <1>c DEF CreateTable, KnownAs, TypeOK
  <2> QED BY <2>2, <2>3 DEF OneName
<1>9. CASE CleanDeleted(r)
  BY <1>9, <1>1 DEF CleanDeleted, TypeOK, RequestState
<1>10. ASSUME NEW x \in Partitions \cup {META}, Mark(r, x)
       PROVE  OneName'
  BY <1>10, <1>1 DEF Mark, NewRequest, TypeOK, RequestState
<1> QED BY <1>2, <1>3, <1>4, <1>5, <1>6, <1>7, <1>8, <1>9, <1>10 DEF RequestStep

LEMMA NamePassStep ==
  ASSUME TypeOK, PassesReady, OneName,
         \/ \E a \in Passes : PassStep(a)
         \/ StartTimer
         \/ TakeAll
  PROVE  OneName'
<1> USE DEF Steps
<1>a. UNCHANGED <<tables, request>>
  BY PassFrame
<1>b. Timer \in Passes /\ Flush \in Passes
  BY PassAssumption
<1>1. ASSUME NEW a \in Passes, NEW next, pass' = [pass EXCEPT ![a] = next],
             next.at \in InHand => \/ tables[TableOf(next.task)] = next.inst
                                   \/ /\ pass[a].at \in InHand
                                      /\ next.task = pass[a].task
                                      /\ next.inst = pass[a].inst
      PROVE  OneName'
  BY <1>1, <1>a, SameNames DEF KnownAs, TypeOK
<1>2. NewPass.at \notin InHand
  BY DEF NewPass, InHand
<1>3. ASSUME NEW a \in Passes, TakeLock(a)
      PROVE  OneName'
  BY <1>3, <1>1 DEF TakeLock, TypeOK, PassState, InHand
<1>4. ASSUME NEW a \in Passes, NoTask(a)
      PROVE  OneName'
  BY <1>4, <1>1, <1>2 DEF NoTask
<1>5. ASSUME NEW a \in Passes, ReadAttributes(a)
      PROVE  OneName'
  <2> DEFINE next1 == [pass[a] EXCEPT !.at = "read", !.found = MetadataToWrite(pass[a].inst)]
             next2 == [pass[a] EXCEPT !.at = "persisted"]
             next3 == [pass[a] EXCEPT !.at = "read", !.found = EMPTY]
  <2>1. pass' \in {[pass EXCEPT ![a] = next1], [pass EXCEPT ![a] = next2],
                   [pass EXCEPT ![a] = next3]}
    BY <1>5 DEF ReadAttributes
  <2>2. \A n \in {next1, next2, next3} : n.task = pass[a].task /\ n.inst = pass[a].inst
    BY DEF TypeOK, PassState
  <2>3. pass[a].at \in InHand
    BY <1>5 DEF ReadAttributes, InHand
  <2> HIDE DEF next1, next2, next3
  <2> QED BY <1>1, <2>1, <2>2, <2>3
<1>6. ASSUME NEW a \in Passes, ReadRows(a)
      PROVE  OneName'
  BY <1>6, <1>1 DEF ReadRows, TypeOK, PassState, InHand
<1>7. ASSUME NEW a \in Passes, WriteDisk(a)
      PROVE  OneName'
  <2> DEFINE next == [NewPass EXCEPT !.at = "working", !.now = pass[a].now,
                                     !.tasks = pass[a].tasks]
  <2>1. next.at \notin InHand
    BY DEF NewPass, InHand
  <2>2. pass' = [pass EXCEPT ![a] = next]
    BY <1>7 DEF WriteDisk
  <2> HIDE DEF next
  <2> QED BY <1>1, <2>1, <2>2
<1>8. ASSUME NEW a \in Passes, EndPass(a)
      PROVE  OneName'
  BY <1>8, <1>1, <1>2 DEF EndPass
<1>9. ASSUME NEW a \in Passes, NEW task \in Task, TakeTask(a, task)
      PROVE  OneName'
  BY <1>9, <1>1 DEF TakeTask, TypeOK, PassState, InHand
<1>10. ASSUME NEW a \in Passes, NEW task \in Task, LookUp(a, task)
       PROVE  OneName'
  <2> DEFINE next == [pass[a] EXCEPT !.at = "found", !.tasks = @ \ {task}, !.task = task,
                                     !.inst = tables[TableOf(task)]]
  <2>1. tables[TableOf(next.task)] = next.inst
    BY DEF TypeOK, PassState
  <2>2. pass' = [pass EXCEPT ![a] = next]
    BY <1>10 DEF LookUp
  <2> HIDE DEF next
  <2> QED BY <1>1, <2>1, <2>2
<1>11. CASE StartTimer
  <2> DEFINE next == [NewPass EXCEPT !.at = "waiting", !.now = now]
  <2>1. next.at \notin InHand
    BY DEF NewPass, InHand
  <2>2. pass' = [pass EXCEPT ![Timer] = next]
    BY <1>11 DEF StartTimer
  <2> HIDE DEF next
  <2> QED BY <1>1, <1>b, <2>1, <2>2
<1>12. CASE TakeAll
  BY <1>12, <1>1, <1>b DEF TakeAll, TypeOK, PassState, InHand
<1> QED BY <1>3, <1>4, <1>5, <1>6, <1>7, <1>8, <1>9, <1>10, <1>11, <1>12 DEF PassStep

-----------------------------------------------------------------------------
(* What a request changes it owes: in each case the disk either still has to *)
(* hold what it had to before, or the task is owed, or unsettled.            *)

Kept(k) ==
  /\ Owed(k) => Owed(k)'
  /\ k \in unsettled => k \in unsettled' \/ Owed(k)'
  /\ Wanted(k)' = Wanted(k) \/ Owed(k)' \/ k \in unsettled'
  /\ \A a \in Passes : (pass[a].at \in InHand /\ pass[a].task = k) =>
       AboutToWrite(a)' = AboutToWrite(a) \/ Owed(k)' \/ k \in unsettled'

LEMMA TaskShape ==
  ASSUME NEW k \in Task
  PROVE  /\ TableOf(k) \in Tables /\ k[2] \in Partitions \cup {META}
         /\ k = <<TableOf(k), k[2]>>
BY DEF Task, TableOf

LEMMA OwesResolve ==
  ASSUME IInv, NEW r \in Requests, NEW t \in Tables, NEW d \in Periods, Resolve(r, t, d),
         NEW k \in Task
  PROVE  /\ Owed(k) => Owed(k)'
         /\ UNCHANGED <<tables, rows, persistAttr, unsettled>>
<1> USE DEF Goes, tableVars, diskVars, ghosts
<1>1. \A q \in Requests : OwedByRequest(q, k) => OwedByRequest(q, k)'
  BY DEF Resolve, IInv, TypeOK, OwedByRequest, HasRows
<1> QED BY <1>1 DEF Resolve, Owed

LEMMA OwesNothingToDo ==
  ASSUME IInv, NEW r \in Requests, NothingToDo(r), NEW k \in Task
  PROVE  /\ Owed(k) => Owed(k)'
         /\ UNCHANGED <<tables, rows, persistAttr, unsettled>>
<1> USE DEF Goes, tableVars, diskVars, ghosts
<1>1. \A q \in Requests : OwedByRequest(q, k) => OwedByRequest(q, k)'
  BY DEF NothingToDo, IInv, TypeOK, OwedByRequest, HasRows
<1> QED BY <1>1 DEF NothingToDo, Owed

(* The two writes, and the cleaning of a removed table: content changes in   *)
(* one table object, in the partitions that are owed.                        *)
Changes(r, parts, fresh, owes) ==
  /\ request[r].at \in {"resolved", "removed"}
  /\ \A p \in Partitions \ parts : fresh[p] = rows[request[r].inst][p]
  /\ \A p \in parts : p \in owes
  /\ request[r].at = "removed" => META \in owes /\ HasRows(request[r].inst) \subseteq owes
  /\ rows' = [rows EXCEPT ![request[r].inst] = fresh]
  /\ request' = [request EXCEPT ![r] = [request[r] EXCEPT !.at = "marking", !.owes = owes]]
  /\ UNCHANGED <<tables, persistAttr, queue, pass, unsettled>>

LEMMA OwesChange ==
  ASSUME IInv, NEW r \in Requests, NEW parts \in SUBSET Partitions, NEW k \in Task,
         NEW fresh \in [Partitions -> Content], NEW owes, Changes(r, parts, fresh, owes)
  PROVE  Kept(k)
<1> USE DEF Changes
<1> DEFINE i == request[r].inst
           t == request[r].table
<1>1. /\ i \in Instances /\ t \in Tables
      /\ request'[r].at = "marking" /\ request'[r].table = t /\ request'[r].owes = owes
      /\ \A q \in Requests \ {r} : request'[q] = request[q]
  BY DEF IInv, TypeOK, RequestState, RequestsReady
<1>2. /\ rows'[i] = fresh
      /\ \A j \in Instances \ {i} : rows'[j] = rows[j]
  BY <1>1 DEF IInv, TypeOK
<1>3. ASSUME k[2] \in parts \/ (request[r].at = "removed" /\ k[2] \in HasRows(i)),
             TableOf(k) = t
      PROVE  Owed(k)'
  <2>1. OwedByRequest(r, k)'
    BY <1>1, <1>3 DEF OwedByRequest
  <2> QED BY <2>1 DEF Owed
<1>4. KnownAs(i, t)
  BY <1>1 DEF KnownAs
<1>5. \A u \in Tables : KnownAs(i, u) => u = t
  BY <1>1, <1>4 DEF IInv, OneName
<1>6. Owed(k) => Owed(k)'
  <2>1. CASE \E q \in Requests : OwedByRequest(q, k)
    <3>1. PICK q \in Requests : OwedByRequest(q, k)
      BY <2>1
    <3>2. CASE q = r
      BY <1>1, <3>1, <3>2 DEF OwedByRequest, Owed
    <3>3. CASE q # r /\ request[q].at = "marking"
      <4>1. OwedByRequest(q, k)'
        BY <1>1, <3>1, <3>3 DEF OwedByRequest
      <4> QED BY <4>1 DEF Owed
    <3>4. CASE q # r /\ request[q].at = "removed" /\ k[2] = META
      <4>1. OwedByRequest(q, k)'
        BY <1>1, <3>1, <3>4 DEF OwedByRequest
      <4> QED BY <4>1 DEF Owed
    <3>5. CASE q # r /\ request[q].at = "removed" /\ k[2] # META
      <4>1. /\ request[q].table = TableOf(k) /\ k[2] \in Partitions
            /\ rows[request[q].inst][k[2]] # EMPTY /\ request[q].inst \in Instances
        BY <3>1, <3>5, TaskShape DEF OwedByRequest, HasRows, IInv, RequestsReady
      <4>2. CASE rows'[request[q].inst][k[2]] = rows[request[q].inst][k[2]]
        <5>1. OwedByRequest(q, k)'
          BY <1>1, <3>5, <4>1, <4>2 DEF OwedByRequest, HasRows
        <5> QED BY <5>1 DEF Owed
      <4>3. CASE rows'[request[q].inst][k[2]] # rows[request[q].inst][k[2]]
        <5>1. request[q].inst = i /\ k[2] \in parts
          BY <1>2, <4>1, <4>3
        <5>2. KnownAs(i, TableOf(k))
          BY <3>5, <4>1, <5>1 DEF KnownAs
        <5> QED BY <1>3, <1>5, <5>1, <5>2, TaskShape
      <4> QED BY <4>2, <4>3
    <3> QED BY <3>1, <3>2, <3>3, <3>4, <3>5 DEF OwedByRequest
  <2> QED BY <2>1 DEF Owed
<1>7. ASSUME NEW j \in Instances, KnownAs(j, TableOf(k)), k[2] \in Partitions
      PROVE  rows'[j][k[2]] = rows[j][k[2]] \/ Owed(k)'
  BY <1>2, <1>3, <1>5, <1>7, TaskShape
<1>8. Wanted(k)' = Wanted(k) \/ Owed(k)'
  <2>1. tables[TableOf(k)] \in Instances \cup {NONE} /\ tables' = tables
    BY TaskShape DEF IInv, TypeOK
  <2>2. tables[TableOf(k)] # NONE => KnownAs(tables[TableOf(k)], TableOf(k))
    BY DEF KnownAs
  <2>3. k[2] \in Partitions \cup {META}
    BY TaskShape
  <2> QED BY <1>7, <2>1, <2>2, <2>3 DEF Wanted, ToWrite, RowsToWrite, MetadataToWrite
<1>9. ASSUME NEW a \in Passes, pass[a].at \in InHand, pass[a].task = k
      PROVE  AboutToWrite(a)' = AboutToWrite(a) \/ Owed(k)'
  <2>1. pass' = pass /\ pass[a].inst \in Instances \cup {NONE}
    BY DEF IInv, TypeOK, PassState
  <2>2. KnownAs(pass[a].inst, TableOf(k))
    BY <1>9 DEF KnownAs
  <2>3. k[2] \in Partitions \cup {META}
    BY TaskShape
  <2>4. CASE pass[a].at = "found"
    BY <1>7, <1>9, <2>1, <2>2, <2>3, <2>4
    DEF AboutToWrite, ToWrite, RowsToWrite, MetadataToWrite
  <2>5. CASE pass[a].at = "persisted"
    <3>1. pass[a].inst \in Instances /\ k[2] \in Partitions
      BY <1>9, <2>3, <2>5 DEF IInv, PassesReady, Ready
    <3> QED BY <1>7, <1>9, <2>1, <2>2, <2>5, <3>1 DEF AboutToWrite
  <2>6. CASE pass[a].at = "read"
    BY <2>1, <2>6 DEF AboutToWrite
  <2> QED BY <1>9, <2>4, <2>5, <2>6 DEF InHand
<1> QED BY <1>6, <1>8, <1>9 DEF Kept

LEMMA OwesWrite ==
  ASSUME IInv, NEW r \in Requests, NEW k \in Task,
         \/ \E parts \in (SUBSET Partitions) \ {{}}, v \in Values : Write(r, parts, v)
         \/ \E parts \in (SUBSET Partitions) \ {{}} : Remove(r, parts)
         \/ CleanDeleted(r)
  PROVE  Kept(k)
<1> USE DEF Goes, tableVars, diskVars, ghosts
<1>a. request[r].at # "idle" => rows[request[r].inst] \in [Partitions -> Content]
  BY DEF IInv, TypeOK, RequestsReady
<1>1. ASSUME NEW parts \in SUBSET Partitions, NEW v \in Values, Write(r, parts, v)
      PROVE  Kept(k)
  <2> DEFINE fresh == [p \in Partitions |-> IF p \in parts THEN v ELSE rows[request[r].inst][p]]
  <2>1. fresh \in [Partitions -> Content]
    BY <1>1, <1>a DEF Write, Content
  <2>2. rows' = [rows EXCEPT ![request[r].inst] = fresh]
    BY <1>1 DEF Write
  <2>3. \A p \in Partitions \ parts : fresh[p] = rows[request[r].inst][p]
    OBVIOUS
  <2> HIDE DEF fresh
  <2>4. Changes(r, parts, fresh, parts)
    BY <1>1, <2>2, <2>3 DEF Write, Changes
  <2> QED BY <2>1, <2>4, OwesChange
<1>2. ASSUME NEW parts \in SUBSET Partitions, Remove(r, parts)
      PROVE  Kept(k)
  <2> DEFINE fresh == [p \in Partitions |->
                         IF p \in parts THEN EMPTY ELSE rows[request[r].inst][p]]
  <2>1. fresh \in [Partitions -> Content]
    BY <1>2, <1>a DEF Remove, Content
  <2>2. rows' = [rows EXCEPT ![request[r].inst] = fresh]
    BY <1>2 DEF Remove
  <2>3. \A p \in Partitions \ parts : fresh[p] = rows[request[r].inst][p]
    OBVIOUS
  <2> HIDE DEF fresh
  <2>4. Changes(r, parts, fresh, parts)
    BY <1>2, <2>2, <2>3 DEF Remove, Changes
  <2> QED BY <2>1, <2>4, OwesChange
<1>3. CASE CleanDeleted(r)
  <2> DEFINE parts == HasRows(request[r].inst)
  <2>1. NoRows \in [Partitions -> Content] /\ parts \in SUBSET Partitions
    BY DEF NoRows, Content, HasRows
  <2>2. rows' = [rows EXCEPT ![request[r].inst] = NoRows]
    BY <1>3 DEF CleanDeleted
  <2>3. \A p \in Partitions \ parts : NoRows[p] = rows[request[r].inst][p]
    BY DEF NoRows, HasRows
  <2>4. request' = [request EXCEPT ![r] = [request[r] EXCEPT !.at = "marking",
                                                            !.owes = parts \cup {META}]]
    BY <1>3 DEF CleanDeleted
  <2> DEFINE owes == parts \cup {META}
  <2>5. META \in owes /\ parts \subseteq owes /\ \A p \in parts : p \in owes
    OBVIOUS
  <2> HIDE DEF owes
  <2>6. request' = [request EXCEPT ![r] = [request[r] EXCEPT !.at = "marking", !.owes = owes]]
    BY <2>4 DEF owes
  <2>7. /\ request[r].at \in {"resolved", "removed"}
        /\ UNCHANGED <<tables, persistAttr, queue, pass, unsettled>>
    BY <1>3 DEF CleanDeleted
  <2>8. Changes(r, parts, NoRows, owes)
    BY <2>2, <2>3, <2>5, <2>6, <2>7 DEF Changes
  <2> QED BY <2>1, <2>8, OwesChange
<1> QED BY <1>1, <1>2, <1>3

LEMMA OwesResolved ==
  ASSUME IInv, NEW r \in Requests, NEW k \in Task,
         \/ \E t \in Tables, d \in Periods : Resolve(r, t, d)
         \/ NothingToDo(r)
  PROVE  Kept(k)
<1>1. Owed(k) => Owed(k)'
  BY OwesResolve, OwesNothingToDo
<1>2. UNCHANGED <<tables, rows, persistAttr, unsettled, pass>>
  BY DEF Resolve, NothingToDo, tableVars, ghosts
<1> QED
  BY <1>1, <1>2
  DEF Kept, Wanted, AboutToWrite, ToWrite, RowsToWrite, MetadataToWrite

(* A mark turns what a request owes into what the queue owes. *)
LEMMA OwesMark ==
  ASSUME IInv, NEW r \in Requests, NEW k \in Task, NEW x \in Partitions \cup {META}, Mark(r, x)
  PROVE  Kept(k)
<1> USE DEF Goes, tableVars, diskVars, ghosts
<1> DEFINE marked == <<request[r].table, x>>
<1>1. /\ request[r].table \in Tables /\ request[r].due \in Nat /\ queue \in Queue
      /\ request \in [Requests -> RequestState]
  BY DEF Mark, IInv, TypeOK, RequestsReady, RequestState
<1>2. marked \in Task
  BY <1>1 DEF Task
<1>3. /\ queue'[marked] # NONE
      /\ \A other \in Task : other # marked => queue'[other] = queue[other]
  BY <1>1, <1>2, MarkedType DEF Mark
<1>4. queue[k] # NONE => queue'[k] # NONE
  BY <1>3
<1>5. ASSUME NEW q \in Requests, OwedByRequest(q, k)
      PROVE  OwedByRequest(q, k)' \/ queue'[k] # NONE
  <2>1. CASE q # r
    BY <1>1, <1>5, <2>1 DEF Mark, OwedByRequest, HasRows
  <2>2. CASE q = r /\ k[2] = x
    BY <1>3, <1>5, <2>2, TaskShape DEF OwedByRequest
  <2>3. CASE q = r /\ k[2] # x
    <3>1. request[r].at = "marking" /\ k[2] \in request[r].owes /\ request[r].owes # {x}
      BY <1>5, <2>3 DEF Mark, OwedByRequest
    <3>2. request' = [request EXCEPT ![r] = [request[r] EXCEPT !.owes = @ \ {x}]]
      BY <3>1 DEF Mark
    <3>3. /\ request'[r].table = request[r].table /\ request'[r].at = "marking"
          /\ request'[r].owes = request[r].owes \ {x}
      BY <1>1, <3>1, <3>2 DEF RequestState
    <3> QED BY <1>5, <2>3, <3>1, <3>3 DEF OwedByRequest
  <2> QED BY <2>1, <2>2, <2>3
<1>6. Owed(k) => Owed(k)'
  BY <1>4, <1>5 DEF Owed, Mark
<1>7. k \in unsettled => k \in unsettled' \/ Owed(k)'
  BY <1>3 DEF Mark, Owed
<1> QED
  BY <1>6, <1>7
  DEF Mark, Kept, Wanted, AboutToWrite, ToWrite, RowsToWrite, MetadataToWrite

LEMMA OwesAttributes ==
  ASSUME IInv, NEW r \in Requests, NEW k \in Task, NEW persist \in BOOLEAN,
         SetTableAttributes(r, persist)
  PROVE  Kept(k)
<1> USE DEF Goes, tableVars, diskVars, ghosts
<1> DEFINE i == request[r].inst
           t == request[r].table
<1>1. /\ i \in Instances /\ t \in Tables
      /\ request'[r].at = "marking" /\ request'[r].table = t /\ request'[r].owes = {META}
      /\ \A q \in Requests \ {r} : request'[q] = request[q]
  BY DEF SetTableAttributes, IInv, TypeOK, RequestState, RequestsReady
<1>2. UNCHANGED <<tables, rows, queue, pass>>
  BY DEF SetTableAttributes
<1>3. \A j \in Instances \ {i} : persistAttr'[j] = persistAttr[j]
  BY <1>1 DEF SetTableAttributes, IInv, TypeOK
<1>4. \A u \in Tables : KnownAs(i, u) => u = t
  <2>1. KnownAs(i, t)
    BY <1>1 DEF SetTableAttributes, KnownAs
  <2> QED BY <1>1, <2>1 DEF IInv, OneName
<1>5. Owed(k) => Owed(k)'
  <2>1. \A q \in Requests : OwedByRequest(q, k) => OwedByRequest(q, k)'
    BY <1>1, <1>2 DEF SetTableAttributes, OwedByRequest, HasRows
  <2> QED BY <1>2, <2>1 DEF Owed
<1>6. unsettled \subseteq unsettled'
  BY DEF SetTableAttributes
<1>7. TableOf(k) = t => \/ persistAttr'[i] = persistAttr[i]
                       \/ Owed(k)' \/ k \in unsettled'
  <2>1. CASE TableOf(k) = t /\ k[2] = META
    BY <1>1, <2>1 DEF Owed, OwedByRequest
  <2>2. CASE TableOf(k) = t /\ k[2] # META /\ persist # persistAttr[i]
    BY <1>1, <2>2, TaskShape DEF SetTableAttributes
  <2>3. CASE persist = persistAttr[i]
    BY <1>1, <2>3 DEF SetTableAttributes, IInv, TypeOK
  <2> QED BY <2>1, <2>2, <2>3
<1>8. ASSUME NEW j \in Instances, KnownAs(j, TableOf(k))
      PROVE  persistAttr'[j] = persistAttr[j] \/ Owed(k)' \/ k \in unsettled'
  BY <1>3, <1>4, <1>7, <1>8, TaskShape
<1>9. Wanted(k)' = Wanted(k) \/ Owed(k)' \/ k \in unsettled'
  <2>1. tables[TableOf(k)] \in Instances \cup {NONE}
    BY TaskShape DEF IInv, TypeOK
  <2>2. tables[TableOf(k)] # NONE => KnownAs(tables[TableOf(k)], TableOf(k))
    BY DEF KnownAs
  <2> QED BY <1>2, <1>8, <2>1, <2>2 DEF Wanted, ToWrite, RowsToWrite, MetadataToWrite
<1>10. ASSUME NEW a \in Passes, pass[a].at \in InHand, pass[a].task = k
       PROVE  AboutToWrite(a)' = AboutToWrite(a) \/ Owed(k)' \/ k \in unsettled'
  <2>1. pass[a].inst \in Instances \cup {NONE}
    BY DEF IInv, TypeOK, PassState
  <2>2. KnownAs(pass[a].inst, TableOf(k))
    BY <1>10 DEF KnownAs
  <2> QED
    BY <1>2, <1>8, <1>10, <2>1, <2>2
    DEF InHand, AboutToWrite, ToWrite, RowsToWrite, MetadataToWrite
<1> QED BY <1>5, <1>6, <1>9, <1>10 DEF Kept

(* A table object nobody knows takes a name that was not there. *)
LEMMA OwesCreate ==
  ASSUME IInv, NEW r \in Requests, NEW k \in Task, NEW t \in Tables, NEW i \in Instances,
         NEW persist \in BOOLEAN, NEW d \in Nat, CreateTable(r, t, i, persist, d)
  PROVE  Kept(k)
<1> USE DEF Goes, tableVars, diskVars, ghosts
<1>1. /\ request'[r] = [at |-> "marking", table |-> t, inst |-> i, owes |-> {META},
                        due |-> now + d]
      /\ \A q \in Requests \ {r} : request'[q] = request[q]
      /\ request[r].at = "idle"
  BY DEF CreateTable, IInv, TypeOK
<1>2. /\ UNCHANGED <<queue, pass, unsettled>>
      /\ \A u \in Tables \ {t} : tables'[u] = tables[u]
      /\ tables'[t] = i /\ tables[t] = NONE
  BY DEF CreateTable, IInv, TypeOK
<1>3. /\ \A j \in Instances \ {i} : persistAttr'[j] = persistAttr[j] /\ rows'[j] = rows[j]
      /\ rows'[i] = NoRows
  BY DEF CreateTable, IInv, TypeOK
<1>4. /\ \A u \in Tables : tables[u] # i
      /\ \A q \in Requests : request[q].inst # i
      /\ \A a \in Passes : pass[a].inst # i
  BY DEF CreateTable, Unused
<1>5. Owed(k) => Owed(k)'
  <2>1. \A q \in Requests : OwedByRequest(q, k) => OwedByRequest(q, k)'
    <3>1. ASSUME NEW q \in Requests, OwedByRequest(q, k)
          PROVE  OwedByRequest(q, k)'
      <4>1. q # r /\ request'[q] = request[q] /\ request[q].inst \in Instances \ {i}
        BY <1>1, <1>4, <3>1 DEF OwedByRequest, IInv, RequestsReady
      <4>2. rows'[request[q].inst] = rows[request[q].inst]
        BY <1>3, <4>1
      <4> QED BY <3>1, <4>1, <4>2 DEF OwedByRequest, HasRows
    <3> QED BY <3>1
  <2> QED BY <1>2, <2>1 DEF Owed
<1>6. Wanted(k)' = Wanted(k) \/ Owed(k)'
  <2>1. CASE TableOf(k) = t /\ k[2] = META
    <3>1. OwedByRequest(r, k)'
      BY <1>1, <2>1 DEF OwedByRequest
    <3> QED BY <3>1 DEF Owed
  <2>2. CASE TableOf(k) = t /\ k[2] # META
    <3>1. k[2] \in Partitions
      BY <2>2, TaskShape
    <3>2. Wanted(k) = EMPTY
      BY <1>2, <2>2 DEF Wanted, ToWrite, RowsToWrite
    <3>3. rows'[i][k[2]] = EMPTY
      BY <1>3, <3>1 DEF NoRows
    <3>4. Wanted(k)' = EMPTY
      BY <1>2, <2>2, <3>3 DEF Wanted, ToWrite, RowsToWrite
    <3> QED BY <3>2, <3>4
  <2>3. CASE TableOf(k) # t
    <3>1. /\ tables'[TableOf(k)] = tables[TableOf(k)]
          /\ tables[TableOf(k)] \in (Instances \ {i}) \cup {NONE}
      BY <1>2, <1>4, <2>3, TaskShape DEF IInv, TypeOK
    <3> QED BY <1>3, <3>1 DEF Wanted, ToWrite, RowsToWrite, MetadataToWrite
  <2> QED BY <2>1, <2>2, <2>3
<1>7. ASSUME NEW a \in Passes, pass[a].at \in InHand, pass[a].task = k
      PROVE  AboutToWrite(a)' = AboutToWrite(a)
  <2>1. pass[a].inst \in (Instances \ {i}) \cup {NONE}
    BY <1>4 DEF IInv, TypeOK, PassState
  <2>2. pass[a].at = "persisted" => pass[a].inst \in Instances
    BY DEF IInv, PassesReady, Ready
  <2>3. ToWrite(pass[a].inst, k)' = ToWrite(pass[a].inst, k)
    BY <1>2, <1>3, <2>1 DEF ToWrite, RowsToWrite, MetadataToWrite
  <2>4. pass[a].at = "persisted" => rows'[pass[a].inst] = rows[pass[a].inst]
    BY <1>3, <2>1, <2>2, DataAssumption
  <2> QED BY <1>2, <1>7, <2>3, <2>4 DEF AboutToWrite
<1> QED BY <1>2, <1>5, <1>6, <1>7 DEF Kept

LEMMA OwesDelete ==
  ASSUME IInv, NEW r \in Requests, NEW k \in Task, NEW t \in Tables, NEW d \in Nat,
         DeleteTable(r, t, d)
  PROVE  Kept(k)
<1> USE DEF Goes, tableVars, diskVars, ghosts
<1>1. /\ request'[r] = [at |-> "removed", table |-> t, inst |-> tables[t], owes |-> {},
                        due |-> now + d]
      /\ \A q \in Requests \ {r} : request'[q] = request[q]
      /\ request[r].at = "idle"
  BY DEF DeleteTable, IInv, TypeOK
<1>2. /\ UNCHANGED <<rows, persistAttr, queue, pass, unsettled>>
      /\ \A u \in Tables \ {t} : tables'[u] = tables[u]
      /\ tables'[t] = NONE /\ tables[t] \in Instances
  BY DEF DeleteTable, IInv, TypeOK
<1>3. Owed(k) => Owed(k)'
  <2>1. \A q \in Requests : OwedByRequest(q, k) => OwedByRequest(q, k)'
    BY <1>1, <1>2 DEF OwedByRequest, HasRows
  <2> QED BY <1>2, <2>1 DEF Owed
<1>4. Wanted(k)' = Wanted(k) \/ Owed(k)'
  <2>1. CASE TableOf(k) = t /\ (k[2] = META \/ k[2] \in HasRows(tables[t]))
    <3>1. OwedByRequest(r, k)'
      BY <1>1, <1>2, <2>1 DEF OwedByRequest, HasRows
    <3> QED BY <3>1 DEF Owed
  <2>2. CASE TableOf(k) = t /\ k[2] # META /\ k[2] \notin HasRows(tables[t])
    <3>1. rows[tables[t]][k[2]] = EMPTY
      BY <2>2, TaskShape DEF HasRows
    <3>2. Wanted(k) = EMPTY
      BY <2>2, <3>1 DEF Wanted, ToWrite, RowsToWrite
    <3>3. Wanted(k)' = EMPTY
      BY <1>2, <2>2 DEF Wanted, ToWrite, RowsToWrite
    <3> QED BY <3>2, <3>3
  <2>3. CASE TableOf(k) # t
    BY <1>2, <2>3, TaskShape DEF Wanted, ToWrite, RowsToWrite, MetadataToWrite
  <2> QED BY <2>1, <2>2, <2>3
<1>5. ASSUME NEW a \in Passes
      PROVE  AboutToWrite(a)' = AboutToWrite(a)
  BY <1>2 DEF AboutToWrite, ToWrite, RowsToWrite, MetadataToWrite
<1> QED BY <1>2, <1>3, <1>4, <1>5 DEF Kept

LEMMA RequestKeeps ==
  ASSUME IInv, NEW r \in Requests, RequestStep(r), NEW k \in Task
  PROVE  Kept(k)
<1>1. Settings \subseteq BOOLEAN /\ Periods \subseteq Nat
  BY BoundAssumption
<1>2. CASE \E t \in Tables, d \in Periods : DeleteTable(r, t, d)
  BY <1>1, <1>2, OwesDelete
<1>3. CASE \E persist \in Settings : SetTableAttributes(r, persist)
  BY <1>1, <1>3, OwesAttributes
<1>4. CASE \E t \in Tables, i \in Instances, persist \in Settings, d \in Periods :
             CreateTable(r, t, i, persist, d)
  BY <1>1, <1>4, OwesCreate
<1>5. CASE \E x \in Partitions \cup {META} : Mark(r, x)
  BY <1>5, OwesMark
<1> QED BY <1>2, <1>3, <1>4, <1>5, OwesWrite, OwesResolved DEF RequestStep

-----------------------------------------------------------------------------
(* What a pass takes it writes: between the queue and the disk a task is     *)
(* always in the hands of the one pass that holds the lock.                  *)

(* The tasks a pass holds, and the rest of what is owed.                     *)
OwedElsewhere(a, k) ==
  \/ \E b \in Passes \ {a} : k \in pass[b].tasks
  \/ \E r \in Requests : OwedByRequest(r, k)

LEMMA OwedSplit ==
  ASSUME TypeOK, NEW a \in Passes, NEW next, pass' = [pass EXCEPT ![a] = next],
         UNCHANGED <<request, rows>>, NEW k
  PROVE  /\ Owed(k) <=> queue[k] # NONE \/ k \in pass[a].tasks \/ OwedElsewhere(a, k)
         /\ Owed(k)' <=> queue'[k] # NONE \/ k \in next.tasks \/ OwedElsewhere(a, k)
         /\ pass'[a] = next
         /\ \A b \in Passes \ {a} : pass'[b] = pass[b]
<1>1. pass'[a] = next /\ \A b \in Passes \ {a} : pass'[b] = pass[b]
  BY DEF TypeOK
<1>2. \A r \in Requests : OwedByRequest(r, k)' <=> OwedByRequest(r, k)
  BY DEF OwedByRequest, HasRows
<1>3. Owed(k) <=> queue[k] # NONE \/ k \in pass[a].tasks \/ OwedElsewhere(a, k)
  BY DEF Owed, OwedElsewhere
<1>4. Owed(k)' <=> queue'[k] # NONE \/ k \in next.tasks \/ OwedElsewhere(a, k)
  BY <1>1, <1>2 DEF Owed, OwedElsewhere
<1> QED BY <1>1, <1>3, <1>4

(* Steps outside execute: nothing is in hand before or after.                *)
LEMMA PassOutside ==
  ASSUME IInv, NEW a \in Passes, NEW next, pass' = [pass EXCEPT ![a] = next],
         pass[a].at \notin InHand, next.at \notin InHand,
         \A k \in Task : Owed(k) => Owed(k)',
         UNCHANGED <<tables, rows, persistAttr, diskRows, diskMeta, unsettled>>
  PROVE  UpToDate' /\ OwedOrDurable'
<1>1. \A b \in Passes : /\ pass'[b].at \in InHand <=> pass[b].at \in InHand
                        /\ pass'[b].at \in InHand => pass'[b] = pass[b]
  BY DEF IInv, TypeOK
<1>2. \A k : Wanted(k)' = Wanted(k) /\ OnDiskNow(k)' = OnDiskNow(k)
  BY DEF Wanted, OnDiskNow, ToWrite, RowsToWrite, MetadataToWrite
<1>3. ASSUME NEW b \in Passes, NEW k, pass'[b].at \in InHand, pass'[b].task = k
      PROVE  Owed(k)' \/ k \in unsettled' \/ AboutToWrite(b)' = Wanted(k)'
  <2>1. pass'[b] = pass[b] /\ pass[b].at \in InHand /\ k \in Task /\ pass[b].task = k
    BY <1>1, <1>3 DEF IInv, PassesReady, Ready
  <2>2. AboutToWrite(b)' = AboutToWrite(b)
    BY <2>1 DEF AboutToWrite, ToWrite, RowsToWrite, MetadataToWrite
  <2>3. Owed(k) \/ k \in unsettled \/ AboutToWrite(b) = Wanted(k)
    BY <2>1 DEF IInv, UpToDate
  <2>4. Owed(k) => Owed(k)'
    BY <2>1
  <2>5. Wanted(k)' = Wanted(k) /\ unsettled' = unsettled
    BY <1>2
  <2> QED BY <2>2, <2>3, <2>4, <2>5
<1>4. UpToDate'
  BY <1>3 DEF UpToDate
<1>5. \A k : BeingWritten(k)' <=> BeingWritten(k)
  BY <1>1 DEF BeingWritten, InHand
<1>6. OwedOrDurable'
  BY <1>2, <1>5 DEF IInv, OwedOrDurable, Durable
<1> QED BY <1>4, <1>6

(* Steps inside execute: the pass a works on one task, alone.                *)
LEMMA PassInside ==
  ASSUME IInv, NEW a \in Passes, NEW next, pass' = [pass EXCEPT ![a] = next],
         pass[a].at \in {"working"} \cup InHand, next.at \in {"working"} \cup InHand,
         UNCHANGED <<tables, rows, persistAttr, request, queue, unsettled>>,
         \A k \in Task : k \in pass[a].tasks => k \in next.tasks \/ (next.at \in InHand /\ next.task = k),
         next.at \in InHand =>
           \/ Owed(next.task)' \/ next.task \in unsettled
           \/ AboutToWrite(a)' = Wanted(next.task),
         \A k \in Task :
           (OnDiskNow(k) = Wanted(k) \/ (pass[a].at \in InHand /\ pass[a].task = k)) =>
              \/ next.at \in InHand /\ next.task = k
              \/ Owed(k)' \/ k \in unsettled
              \/ OnDiskNow(k)' = Wanted(k)
  PROVE  UpToDate' /\ OwedOrDurable'
<1>1. /\ pass'[a] = next
      /\ \A b \in Passes \ {a} : pass'[b] = pass[b] /\ pass[b].at \notin InHand
  BY DEF IInv, TypeOK, SingleFlight, Holding
<1>2. \A k : Wanted(k)' = Wanted(k)
  BY DEF Wanted, ToWrite, RowsToWrite, MetadataToWrite
<1>3. UpToDate'
  BY <1>1, <1>2 DEF UpToDate
<1>4. ASSUME NEW k \in Task
      PROVE  Owed(k)' \/ BeingWritten(k)' \/ Durable(k)'
  <2>1. BeingWritten(k)' <=> next.at \in InHand /\ next.task = k
    BY <1>1 DEF BeingWritten, InHand
  <2>2. BeingWritten(k) => pass[a].at \in InHand /\ pass[a].task = k
    BY <1>1 DEF BeingWritten, InHand
  <2>3. Owed(k) => Owed(k)' \/ BeingWritten(k)'
    BY <2>1, OwedSplit DEF IInv
  <2> QED BY <1>2, <2>1, <2>2, <2>3 DEF IInv, OwedOrDurable, Durable
<1> QED BY <1>3, <1>4 DEF OwedOrDurable

LEMMA PassKeeps ==
  ASSUME IInv,
         \/ \E a \in Passes : PassStep(a)
         \/ StartTimer
         \/ TakeAll
  PROVE  UpToDate' /\ OwedOrDurable'
<1> USE DEF Steps, tableVars, diskVars, ghosts
<1>a. Timer \in Passes /\ Flush \in Passes
  BY PassAssumption
<1>b. /\ TypeOK
      /\ \A a \in Passes : pass[a] \in PassState /\ Ready(a, pass[a])
  BY DEF IInv, TypeOK, PassesReady
<1>c. UNCHANGED <<tables, rows, persistAttr, request, unsettled>>
  BY PassFrame
<1>d. NewPass.at = "idle" /\ NewPass.tasks = {}
  BY DEF NewPass
<1>1. ASSUME NEW a \in Passes, TakeLock(a)
      PROVE  UpToDate' /\ OwedOrDurable'
  <2> DEFINE next == [pass[a] EXCEPT !.at = "locked"]
  <2>1. next.at = "locked" /\ next.tasks = pass[a].tasks
    BY <1>b DEF PassState
  <2>2. /\ pass' = [pass EXCEPT ![a] = next] /\ pass[a].at \notin InHand
        /\ UNCHANGED <<queue, diskRows, diskMeta>>
    BY <1>1 DEF TakeLock, InHand
  <2> HIDE DEF next
  <2>3. \A k \in Task : Owed(k) => Owed(k)'
    BY <1>b, <1>c, <2>1, <2>2, OwedSplit
  <2>4. next.at \notin InHand
    BY <2>1 DEF InHand
  <2> QED BY <1>c, <2>2, <2>3, <2>4, PassOutside
<1>2. ASSUME NEW a \in Passes, NoTask(a)
      PROVE  UpToDate' /\ OwedOrDurable'
  <2>1. /\ pass' = [pass EXCEPT ![a] = NewPass] /\ pass[a].at = "locked"
        /\ UNCHANGED <<queue, diskRows, diskMeta>>
    BY <1>2 DEF NoTask
  <2>2. pass[a].tasks = {}
    BY <1>b, <2>1 DEF Ready
  <2>3. \A k \in Task : Owed(k) => Owed(k)'
    BY <1>b, <1>c, <1>d, <2>1, <2>2, OwedSplit
  <2>4. NewPass.at \notin InHand /\ pass[a].at \notin InHand
    BY <1>d, <2>1 DEF InHand
  <2> QED BY <1>c, <2>1, <2>3, <2>4, PassOutside
<1>3. ASSUME NEW a \in Passes, NEW task \in Task, TakeTask(a, task)
      PROVE  UpToDate' /\ OwedOrDurable'
  <2> DEFINE next == [pass[a] EXCEPT !.at = "working", !.tasks = {task}]
  <2>1. next.at = "working" /\ next.tasks = {task}
    BY <1>b DEF PassState
  <2>2. /\ pass' = [pass EXCEPT ![a] = next] /\ pass[a].at = "locked"
        /\ UNCHANGED <<diskRows, diskMeta>>
        /\ queue' = Without(queue, task)
    BY <1>3 DEF TakeTask
  <2> HIDE DEF next
  <2>3. pass[a].tasks = {}
    BY <1>b, <2>2 DEF Ready
  <2>4. \A k \in Task : queue[k] # NONE => queue'[k] # NONE \/ k = task
    BY <2>2 DEF Without, TypeOK, IInv, Queue
  <2>5. \A k \in Task : Owed(k) => Owed(k)'
    BY <1>b, <1>c, <2>1, <2>2, <2>3, <2>4, OwedSplit
  <2>6. next.at \notin InHand /\ pass[a].at \notin InHand
    BY <2>1, <2>2 DEF InHand
  <2> QED BY <1>c, <2>2, <2>5, <2>6, PassOutside
<1>4. CASE TakeAll
  <2> DEFINE next == [pass[Flush] EXCEPT !.at = "working", !.tasks = AllTasks(queue)]
  <2>1. next.at = "working" /\ next.tasks = AllTasks(queue)
    BY <1>a, <1>b DEF PassState
  <2>2. /\ pass' = [pass EXCEPT ![Flush] = next] /\ pass[Flush].at = "locked"
        /\ UNCHANGED <<diskRows, diskMeta>>
    BY <1>4 DEF TakeAll
  <2> HIDE DEF next
  <2>3. pass[Flush].tasks = {}
    BY <1>a, <1>b, <2>2 DEF Ready
  <2>4. \A k \in Task : queue[k] # NONE => k \in next.tasks
    BY <2>1 DEF AllTasks
  <2>5. \A k \in Task : Owed(k) => Owed(k)'
    BY <1>a, <1>b, <1>c, <2>2, <2>3, <2>4, OwedSplit
  <2>6. next.at \notin InHand /\ pass[Flush].at \notin InHand
    BY <2>1, <2>2 DEF InHand
  <2> QED BY <1>a, <1>c, <2>2, <2>5, <2>6, PassOutside
<1>5. CASE StartTimer
  <2> DEFINE next == [NewPass EXCEPT !.at = "waiting", !.now = now]
  <2>1. next.at = "waiting" /\ next.tasks = {}
    BY DEF NewPass
  <2>2. /\ pass' = [pass EXCEPT ![Timer] = next] /\ pass[Timer].at = "idle"
        /\ UNCHANGED <<queue, diskRows, diskMeta>>
    BY <1>5 DEF StartTimer
  <2> HIDE DEF next
  <2>3. pass[Timer].tasks = {}
    BY <1>a, <1>b, <2>2 DEF Ready
  <2>4. \A k \in Task : Owed(k) => Owed(k)'
    BY <1>a, <1>b, <1>c, <2>1, <2>2, <2>3, OwedSplit
  <2>5. next.at \notin InHand /\ pass[Timer].at \notin InHand
    BY <2>1, <2>2 DEF InHand
  <2> QED BY <1>a, <1>c, <2>2, <2>4, <2>5, PassOutside
<1>6. ASSUME NEW a \in Passes, EndPass(a)
      PROVE  UpToDate' /\ OwedOrDurable'
  <2>1. /\ pass' = [pass EXCEPT ![a] = NewPass] /\ pass[a].at = "working"
        /\ pass[a].tasks = {}
        /\ UNCHANGED <<queue, diskRows, diskMeta>>
    BY <1>6 DEF EndPass
  <2>2. \A k \in Task : Owed(k) => Owed(k)'
    BY <1>b, <1>c, <1>d, <2>1, OwedSplit
  <2>3. NewPass.at \notin InHand /\ pass[a].at \notin InHand
    BY <1>d, <2>1 DEF InHand
  <2> QED BY <1>c, <2>1, <2>2, <2>3, PassOutside
<1>7. ASSUME NEW a \in Passes, NEW task \in Task, LookUp(a, task)
      PROVE  UpToDate' /\ OwedOrDurable'
  <2> DEFINE next == [pass[a] EXCEPT !.at = "found", !.tasks = @ \ {task}, !.task = task,
                                     !.inst = tables[TableOf(task)]]
  <2>1. /\ next.at = "found" /\ next.tasks = pass[a].tasks \ {task} /\ next.task = task
        /\ next.inst = tables[TableOf(task)]
    BY <1>b DEF PassState
  <2>2. /\ pass' = [pass EXCEPT ![a] = next] /\ pass[a].at = "working"
        /\ UNCHANGED <<queue, diskRows, diskMeta>>
    BY <1>7 DEF LookUp
  <2> HIDE DEF next
  <2>3. next.at \in InHand /\ pass[a].at \notin InHand
    BY <2>1, <2>2 DEF InHand
  <2>4. AboutToWrite(a)' = Wanted(task)
    <3>1. pass'[a] = next
      BY <1>b, <2>2 DEF TypeOK
    <3> QED
      BY <1>c, <2>1, <3>1
      DEF AboutToWrite, Wanted, ToWrite, RowsToWrite, MetadataToWrite
  <2>5. \A k : OnDiskNow(k)' = OnDiskNow(k)
    BY <2>2 DEF OnDiskNow
  <2> QED BY <1>c, <2>1, <2>2, <2>3, <2>4, <2>5, PassInside
<1>8. ASSUME NEW a \in Passes, NEW next, pass' = [pass EXCEPT ![a] = next],
             pass[a].at \in InHand, next.at \in InHand, next.task = pass[a].task,
             next.tasks = pass[a].tasks,
             AboutToWrite(a)' = AboutToWrite(a),
             UNCHANGED <<queue, diskRows, diskMeta>>
      PROVE  UpToDate' /\ OwedOrDurable'
  <2>1. Owed(next.task) \/ next.task \in unsettled \/ AboutToWrite(a) = Wanted(next.task)
    BY <1>8 DEF IInv, UpToDate
  <2>2. Owed(next.task) => Owed(next.task)'
    BY <1>8, <1>b, <1>c, OwedSplit
  <2>3. \A k : OnDiskNow(k)' = OnDiskNow(k)
    BY <1>8 DEF OnDiskNow
  <2> QED BY <1>8, <1>c, <2>1, <2>2, <2>3, PassInside
<1>9. ASSUME NEW a \in Passes, ReadAttributes(a)
      PROVE  UpToDate' /\ OwedOrDurable'
  <2> DEFINE inst == pass[a].inst
             next1 == [pass[a] EXCEPT !.at = "read", !.found = MetadataToWrite(inst)]
             next2 == [pass[a] EXCEPT !.at = "persisted"]
             next3 == [pass[a] EXCEPT !.at = "read", !.found = EMPTY]
  <2>1. \A n \in {next1, next2, next3} :
          n.at \in InHand /\ n.task = pass[a].task /\ n.tasks = pass[a].tasks /\ n.inst = inst
    BY <1>b DEF PassState, InHand
  <2>2. /\ next1.at = "read" /\ next1.found = MetadataToWrite(inst)
        /\ next2.at = "persisted"
        /\ next3.at = "read" /\ next3.found = EMPTY
    BY <1>b DEF PassState
  <2>3. /\ pass[a].at = "found" /\ pass[a].at \in InHand
        /\ UNCHANGED <<queue, diskRows, diskMeta>>
        /\ pass' = [pass EXCEPT ![a] =
                      IF pass[a].task[2] = META THEN next1
                      ELSE IF inst # NONE /\ persistAttr[inst] THEN next2 ELSE next3]
    BY <1>9 DEF ReadAttributes, InHand
  <2> HIDE DEF next1, next2, next3
  <2>4. AboutToWrite(a) = ToWrite(inst, pass[a].task)
    BY <2>3 DEF AboutToWrite
  <2>5. CASE pass[a].task[2] = META
    <3>1. pass' = [pass EXCEPT ![a] = next1] /\ pass'[a] = next1
      BY <1>b, <2>3, <2>5 DEF TypeOK
    <3>2. AboutToWrite(a)' = AboutToWrite(a)
      BY <2>2, <2>4, <2>5, <3>1 DEF AboutToWrite, ToWrite
    <3> QED BY <1>8, <2>1, <2>3, <3>1, <3>2
  <2>6. CASE pass[a].task[2] # META /\ inst # NONE /\ persistAttr[inst]
    <3>1. pass' = [pass EXCEPT ![a] = next2] /\ pass'[a] = next2
      BY <1>b, <2>3, <2>6 DEF TypeOK
    <3>2. AboutToWrite(a)' = AboutToWrite(a)
      BY <1>c, <2>1, <2>2, <2>4, <2>6, <3>1 DEF AboutToWrite, ToWrite, RowsToWrite
    <3> QED BY <1>8, <2>1, <2>3, <3>1, <3>2
  <2>7. CASE pass[a].task[2] # META /\ ~(inst # NONE /\ persistAttr[inst])
    <3>1. pass' = [pass EXCEPT ![a] = next3] /\ pass'[a] = next3
      BY <1>b, <2>3, <2>7 DEF TypeOK
    <3>2. AboutToWrite(a)' = AboutToWrite(a)
      BY <2>2, <2>4, <2>7, <3>1 DEF AboutToWrite, ToWrite, RowsToWrite
    <3> QED BY <1>8, <2>1, <2>3, <3>1, <3>2
  <2> QED BY <2>5, <2>6, <2>7
<1>10. ASSUME NEW a \in Passes, ReadRows(a)
       PROVE  UpToDate' /\ OwedOrDurable'
  <2> DEFINE v == rows[pass[a].inst][pass[a].task[2]]
             next == [pass[a] EXCEPT !.at = "read", !.found = v]
  <2>1. /\ next.at = "read" /\ next.task = pass[a].task /\ next.tasks = pass[a].tasks
        /\ next.found = v
    BY <1>b DEF PassState
  <2>2. /\ pass[a].at = "persisted" /\ UNCHANGED <<queue, diskRows, diskMeta>>
        /\ pass' = [pass EXCEPT ![a] = next]
    BY <1>10 DEF ReadRows
  <2> HIDE DEF next
  <2>3. pass'[a] = next
    BY <1>b, <2>2 DEF TypeOK
  <2>4. AboutToWrite(a)' = AboutToWrite(a)
    BY <2>1, <2>2, <2>3 DEF AboutToWrite
  <2>5. next.at \in InHand /\ pass[a].at \in InHand
    BY <2>1, <2>2 DEF InHand
  <2> QED BY <1>8, <2>1, <2>2, <2>4, <2>5
<1>11. ASSUME NEW a \in Passes, WriteDisk(a)
       PROVE  UpToDate' /\ OwedOrDurable'
  <2> DEFINE next == [NewPass EXCEPT !.at = "working", !.now = pass[a].now,
                                     !.tasks = pass[a].tasks]
  <2>0. PICK task \in Task : pass[a].task = task
    BY <1>b, <1>11 DEF WriteDisk, Ready, InHand
  <2>1. next.at = "working" /\ next.tasks = pass[a].tasks
    BY DEF NewPass
  <2>2. /\ pass[a].at = "read" /\ UNCHANGED queue
        /\ pass' = [pass EXCEPT ![a] = next]
    BY <1>11 DEF WriteDisk
  <2> HIDE DEF next
  <2>3. pass[a].at \in InHand /\ next.at \notin InHand
    BY <2>1, <2>2 DEF InHand
  <2>4. /\ OnDiskNow(task)' = pass[a].found
        /\ \A k \in Task : k # task => OnDiskNow(k)' = OnDiskNow(k)
    <3>1. CASE task[2] = META
      <4>1. /\ diskMeta' = [diskMeta EXCEPT ![TableOf(task)] = pass[a].found]
            /\ diskRows' = diskRows
        BY <1>11, <2>0, <3>1 DEF WriteDisk
      <4>2. diskMeta \in [Tables -> BOOLEAN \cup {NONE}]
        BY <1>b DEF TypeOK
      <4>3. \A k \in Task : k # task /\ k[2] = META => TableOf(k) # TableOf(task)
        BY <3>1, TaskShape
      <4> QED BY <3>1, <4>1, <4>2, <4>3, TaskShape DEF OnDiskNow
    <3>2. CASE task[2] # META
      <4>1. diskRows' = [diskRows EXCEPT ![task] = pass[a].found] /\ diskMeta' = diskMeta
        BY <1>11, <2>0, <3>2 DEF WriteDisk
      <4>2. diskRows \in [Slots -> Content] /\ task \in Slots
        BY <1>b, <3>2, TaskShape DEF TypeOK, Slots
      <4> QED BY <3>2, <4>1, <4>2, TaskShape DEF OnDiskNow, Slots
    <3> QED BY <3>1, <3>2
  <2>5. Owed(task) \/ task \in unsettled \/ pass[a].found = Wanted(task)
    BY <2>0, <2>2, <2>3 DEF IInv, UpToDate, AboutToWrite
  <2>6. Owed(task) => Owed(task)'
    BY <1>b, <1>c, <2>1, <2>2, OwedSplit
  <2>7. ASSUME NEW k \in Task,
               OnDiskNow(k) = Wanted(k) \/ (pass[a].at \in InHand /\ pass[a].task = k)
        PROVE  Owed(k)' \/ k \in unsettled \/ OnDiskNow(k)' = Wanted(k)
    <3>1. CASE k = task
      BY <2>4, <2>5, <2>6, <3>1
    <3>2. CASE k # task
      BY <2>0, <2>4, <2>7, <3>2
    <3> QED BY <3>1, <3>2
  <2> QED BY <1>c, <2>1, <2>2, <2>3, <2>7, PassInside
<1> QED BY <1>1, <1>2, <1>3, <1>4, <1>5, <1>6, <1>7, <1>9, <1>10, <1>11 DEF PassStep

-----------------------------------------------------------------------------
(* What a flush and the shutdown drain rely on. *)

LEMMA QueueRequestStep ==
  ASSUME IInv, NEW r \in Requests, RequestStep(r)
  PROVE  QueuedIsRecent' /\ DrainedAtStop'
<1>1. UNCHANGED pass /\ stopped' = stopped /\ ~stopped
  BY RequestFrame DEF IInv, TypeOK
<1>2. CASE UNCHANGED <<queue, recent>>
  BY <1>1, <1>2 DEF IInv, QueuedIsRecent, DrainedAtStop
<1>3. ASSUME NEW x \in Partitions \cup {META}, Mark(r, x)
      PROVE  QueuedIsRecent' /\ DrainedAtStop'
  <2> DEFINE marked == <<request[r].table, x>>
  <2>1. request[r].table \in Tables /\ request[r].due \in Nat /\ queue \in Queue
    BY <1>3 DEF Mark, IInv, TypeOK, RequestsReady, RequestState
  <2>2. marked \in Task
    BY <2>1 DEF Task
  <2>3. \A other \in Task : other # marked => queue'[other] = queue[other]
    BY <1>3, <2>1, <2>2, MarkedType DEF Mark
  <2>4. pass[Flush].at # "idle" => marked \in recent'
    BY <1>3 DEF Mark
  <2>5. recent \subseteq recent'
    BY <1>3 DEF Mark
  <2>6. QueuedIsRecent'
    BY <1>1, <2>3, <2>4, <2>5 DEF IInv, QueuedIsRecent, InHand
  <2> QED BY <1>1, <2>6 DEF DrainedAtStop
<1> QED
  BY <1>2, <1>3
  DEF RequestStep, Resolve, DeleteTable, Write, Remove, NothingToDo, SetTableAttributes,
      CreateTable, CleanDeleted, ghosts

LEMMA QueuePassStep ==
  ASSUME IInv,
         \/ \E a \in Passes : PassStep(a)
         \/ StartTimer
         \/ TakeAll
  PROVE  QueuedIsRecent' /\ DrainedAtStop'
<1> USE DEF Steps, tableVars, diskVars, ghosts
<1>a. Timer \in Passes /\ Flush \in Passes /\ Flush # Timer /\ Flush # Shutdown
      /\ Shutdown # Timer /\ NONE \notin Passes
  BY PassAssumption
<1>b. ~stopped
  BY PassFrame
<1>c. \A a \in Passes : pass[a] \in PassState
  BY DEF IInv, TypeOK
<1>1. ASSUME NEW a \in Passes, NEW next, pass' = [pass EXCEPT ![a] = next],
             a = Flush => \/ next.at \notin {"working"} \cup InHand
                          \/ pass[a].at \in {"working"} \cup InHand,
             \A k \in Task : queue'[k] # NONE => queue[k] # NONE,
             recent' = recent
      PROVE  QueuedIsRecent'
  BY <1>1, <1>a DEF IInv, TypeOK, QueuedIsRecent
<1>2. NewPass.at \notin {"working"} \cup InHand
  BY DEF NewPass, InHand
<1>3. ASSUME NEW a \in Passes, TakeLock(a)
      PROVE  QueuedIsRecent' /\ DrainedAtStop'
  <2> DEFINE next == [pass[a] EXCEPT !.at = "locked"]
  <2>1. next.at \notin {"working"} \cup InHand
    BY <1>c DEF PassState, InHand
  <2>2. pass' = [pass EXCEPT ![a] = next] /\ queue' = queue /\ recent' = recent
        /\ stopped' = stopped
    BY <1>3 DEF TakeLock
  <2> HIDE DEF next
  <2> QED BY <1>1, <1>b, <2>1, <2>2 DEF DrainedAtStop
<1>4. ASSUME NEW a \in Passes, NoTask(a)
      PROVE  QueuedIsRecent' /\ DrainedAtStop'
  <2>1. QueuedIsRecent'
    BY <1>1, <1>2, <1>4 DEF NoTask
  <2>2. ASSUME a = Shutdown, NEW k \in Task
        PROVE  queue[k] = NONE
    <3>1. pass[a].now = NONE
      BY <1>a, <2>2 DEF IInv, PassesReady, Ready
    <3>2. DueTasks(queue, NONE) = {}
      BY <1>4, <3>1 DEF NoTask
    <3>3. MetadataOf(TableOf(k)) \in Task
      BY TaskShape DEF MetadataOf, Task
    <3>4. TableOf(MetadataOf(TableOf(k))) = TableOf(k)
      BY DEF MetadataOf, TableOf
    <3>5. queue[MetadataOf(TableOf(k))] = NONE
      BY <3>2, <3>3, <3>4 DEF DueTasks, IsDue
    <3> QED BY <3>2, <3>5 DEF DueTasks, IsDue
  <2> QED BY <1>4, <2>1, <2>2 DEF NoTask, DrainedAtStop
<1>5. ASSUME NEW a \in Passes, ReadAttributes(a) \/ ReadRows(a) \/ WriteDisk(a)
      PROVE  QueuedIsRecent' /\ DrainedAtStop'
  <2>1. /\ \E next : pass' = [pass EXCEPT ![a] = next]
        /\ pass[a].at \in {"working"} \cup InHand
        /\ queue' = queue /\ recent' = recent /\ stopped' = stopped
    BY <1>5 DEF ReadAttributes, ReadRows, WriteDisk, InHand
  <2> QED BY <1>1, <1>b, <2>1 DEF DrainedAtStop
<1>6. ASSUME NEW a \in Passes, EndPass(a)
      PROVE  QueuedIsRecent' /\ DrainedAtStop'
  <2>1. CASE a = Flush
    BY <1>2, <1>6, <1>b, <2>1 DEF EndPass, QueuedIsRecent, DrainedAtStop, IInv, TypeOK
  <2>2. CASE a # Flush
    BY <1>1, <1>6, <1>b, <2>2 DEF EndPass, DrainedAtStop
  <2> QED BY <2>1, <2>2
<1>7. ASSUME NEW a \in Passes, NEW task \in Task, TakeTask(a, task)
      PROVE  QueuedIsRecent' /\ DrainedAtStop'
  <2>1. /\ \E next : pass' = [pass EXCEPT ![a] = next]
        /\ a # Flush /\ recent' = recent /\ stopped' = stopped
        /\ \A k \in Task : queue'[k] # NONE => queue[k] # NONE
    BY <1>7 DEF TakeTask, Without, IInv, TypeOK, Queue
  <2> QED BY <1>1, <1>b, <2>1 DEF DrainedAtStop
<1>8. ASSUME NEW a \in Passes, NEW task \in Task, LookUp(a, task)
      PROVE  QueuedIsRecent' /\ DrainedAtStop'
  <2>1. /\ \E next : pass' = [pass EXCEPT ![a] = next]
        /\ pass[a].at = "working"
        /\ queue' = queue /\ recent' = recent /\ stopped' = stopped
    BY <1>8 DEF LookUp
  <2> QED BY <1>1, <1>b, <2>1 DEF DrainedAtStop
<1>9. CASE StartTimer
  <2>1. /\ \E next : pass' = [pass EXCEPT ![Timer] = next]
        /\ queue' = queue /\ recent' = recent /\ stopped' = stopped
    BY <1>9 DEF StartTimer
  <2> QED BY <1>1, <1>a, <1>b, <2>1 DEF DrainedAtStop
<1>10. CASE TakeAll
  <2>1. \A k \in Task : queue'[k] = NONE
    BY <1>10 DEF TakeAll, EmptyQueue
  <2>2. stopped' = stopped
    BY <1>10 DEF TakeAll
  <2> QED BY <1>b, <2>1, <2>2 DEF QueuedIsRecent, DrainedAtStop
<1> QED BY <1>3, <1>4, <1>5, <1>6, <1>7, <1>8, <1>9, <1>10 DEF PassStep

-----------------------------------------------------------------------------
(* Init, a restart and a tick of the clock. *)

LEMMA InitIInv == Init => IInv
<1> SUFFICES ASSUME Init PROVE IInv
  OBVIOUS
<1>1. TypeOK
  BY InitType
<1>2. /\ \A r \in Requests : request[r] = NewRequest
      /\ \A a \in Passes : pass[a] = NewPass
      /\ \A t \in Tables : tables[t] = NONE
  BY DEF Init
<1>3. RequestsReady /\ PassesReady
  BY <1>2 DEF RequestsReady, PassesReady, Ready, NewRequest, NewPass, InHand
<1>4. SingleFlight /\ UpToDate
  BY <1>2 DEF SingleFlight, UpToDate, NewPass, Holding, InHand
<1>5. OneName
  BY <1>2, DataAssumption DEF OneName, KnownAs, NewRequest, NewPass, InHand
<1>6. QueuedIsRecent /\ DrainedAtStop
  BY DEF Init, QueuedIsRecent, DrainedAtStop, EmptyQueue
<1>7. ASSUME NEW k \in Task
      PROVE  OnDiskNow(k) = Wanted(k)
  <2>1. k[2] = META \/ k \in Slots
    BY TaskShape DEF Slots
  <2>2. k[2] # META => OnDiskNow(k) = EMPTY
    BY <2>1 DEF Init, OnDiskNow
  <2>3. k[2] = META => OnDiskNow(k) = NONE
    BY TaskShape DEF Init, OnDiskNow
  <2>4. tables[TableOf(k)] = NONE
    BY <1>2, TaskShape
  <2> QED BY <2>2, <2>3, <2>4 DEF Wanted, ToWrite, RowsToWrite, MetadataToWrite
<1>8. OwedOrDurable
  BY <1>7 DEF OwedOrDurable, Durable
<1> QED BY <1>1, <1>3, <1>4, <1>5, <1>6, <1>8 DEF IInv

LEMMA RestartStep ==
  ASSUME IInv, Restart
  PROVE  IInv'
<1> DEFINE lost == {s \in Slots : diskMeta[s[1]] = FALSE /\ diskRows[s] # EMPTY}
                   \cup {MetadataOf(t) : t \in {u \in OnDisk : diskMeta[u] = NONE}}
<1>0. TypeOK
  BY DEF IInv
<1>1. /\ TypeOK'
      /\ \A r \in Requests : request'[r] = NewRequest
      /\ \A a \in Passes : pass'[a] = NewPass
      /\ \A t \in Tables \ OnDisk : tables'[t] = NONE
      /\ \A t \in OnDisk :
           /\ tables'[t] \in Instances
           /\ \A u \in Tables : tables'[u] = tables'[t] => u = t
           /\ persistAttr'[tables'[t]] = IF diskMeta[t] # NONE THEN diskMeta[t] ELSE TRUE
           /\ \A p \in Partitions : rows'[tables'[t]][p] = diskRows[<<t, p>>]
  BY <1>0, RestartState
<1>2. RequestsReady' /\ PassesReady'
  BY <1>1 DEF RequestsReady, PassesReady, Ready, NewRequest, NewPass, InHand
<1>3. SingleFlight' /\ UpToDate'
  BY <1>1 DEF SingleFlight, UpToDate, NewPass, Holding, InHand
<1>4. OneName'
  <2>1. \A i \in Instances, t \in Tables : KnownAs(i, t)' => tables'[t] = i /\ t \in OnDisk
    BY <1>1, DataAssumption DEF KnownAs, NewRequest, NewPass, InHand
  <2>2. ASSUME NEW i \in Instances, NEW t \in Tables, NEW u \in Tables,
               KnownAs(i, t)', KnownAs(i, u)'
        PROVE  t = u
    <3>1. tables'[t] = i /\ tables'[u] = i /\ t \in OnDisk
      BY <2>1, <2>2
    <3>2. tables'[u] = tables'[t]
      BY <3>1
    <3>3. \A v \in OnDisk, w \in Tables : tables'[w] = tables'[v] => w = v
      BY <1>1
    <3>4. t = u
      BY <3>1, <3>2, <3>3
    <3> QED BY <3>4
  <2> QED BY <2>2 DEF OneName
<1>5. QueuedIsRecent' /\ DrainedAtStop'
  BY DEF Restart, QueuedIsRecent, DrainedAtStop, EmptyQueue
<1>6. /\ diskRows' = diskRows /\ diskMeta' = diskMeta /\ unsettled' = lost
  BY DEF Restart, diskVars
<1>7. ASSUME NEW k \in Task
      PROVE  k \in lost \/ OnDiskNow(k)' = Wanted(k)'
  <2> DEFINE t == TableOf(k)
  <2>1. /\ t \in Tables /\ k[2] \in Partitions \cup {META} /\ k = <<t, k[2]>>
        /\ k[1] = t
    BY TaskShape DEF TableOf
  <2>2. CASE t \notin OnDisk
    <3>1. tables'[t] = NONE /\ diskMeta[t] = NONE
      BY <1>1, <2>1, <2>2 DEF OnDisk
    <3>2. k[2] # META => diskRows[k] = EMPTY
      BY <2>1, <2>2 DEF OnDisk, Stored
    <3> QED
      BY <1>6, <3>1, <3>2 DEF OnDiskNow, Wanted, ToWrite, RowsToWrite, MetadataToWrite
  <2>3. CASE t \in OnDisk /\ k[2] = META
    <3>1. CASE diskMeta[t] = NONE
      <4>1. k = MetadataOf(t)
        BY <2>1, <2>3 DEF MetadataOf
      <4> QED BY <2>3, <3>1, <4>1
    <3>2. CASE diskMeta[t] # NONE
      <4>1. tables'[t] # NONE /\ persistAttr'[tables'[t]] = diskMeta[t]
        BY <1>1, <2>3, <3>2, DataAssumption
      <4>2. Wanted(k)' = persistAttr'[tables'[t]]
        BY <2>3, <4>1 DEF Wanted, ToWrite, MetadataToWrite
      <4>3. OnDiskNow(k)' = diskMeta[t]
        BY <1>6, <2>3 DEF OnDiskNow
      <4> QED BY <4>1, <4>2, <4>3
    <3> QED BY <3>1, <3>2
  <2>4. CASE t \in OnDisk /\ k[2] # META
    <3>1. k \in Slots /\ k[2] \in Partitions
      BY <2>1, <2>4 DEF Slots
    <3>2. tables'[t] # NONE /\ rows'[tables'[t]][k[2]] = diskRows[k]
      <4>1. tables'[t] \in Instances /\ \A p \in Partitions : rows'[tables'[t]][p] = diskRows[<<t, p>>]
        BY <1>1, <2>4
      <4>2. rows'[tables'[t]][k[2]] = diskRows[<<t, k[2]>>]
        BY <3>1, <4>1
      <4>3. diskRows[<<t, k[2]>>] = diskRows[k]
        BY <2>1
      <4> QED BY <4>1, <4>2, <4>3, DataAssumption
    <3>3. OnDiskNow(k)' = diskRows[k]
      BY <1>6, <2>4 DEF OnDiskNow
    <3>4. Wanted(k)' = IF persistAttr'[tables'[t]] THEN diskRows[k] ELSE EMPTY
      BY <2>4, <3>2 DEF Wanted, ToWrite, RowsToWrite
    <3>5. CASE persistAttr'[tables'[t]]
      BY <3>3, <3>4, <3>5
    <3>6. CASE ~persistAttr'[tables'[t]]
      <4>1. diskMeta[t] \in BOOLEAN \cup {NONE}
        BY <1>0, <2>1 DEF TypeOK
      <4>2. diskMeta[t] = FALSE
        BY <1>1, <2>4, <3>6, <4>1
      <4>3. k \in lost \/ diskRows[k] = EMPTY
        BY <2>1, <3>1, <4>2
      <4> QED BY <3>3, <3>4, <3>6, <4>3
    <3> QED BY <3>5, <3>6
  <2> QED BY <2>2, <2>3, <2>4
<1>8. OwedOrDurable'
  <2> HIDE DEF lost
  <2>1. \A k \in Task : Durable(k)'
    BY <1>6, <1>7 DEF Durable
  <2> QED BY <2>1 DEF OwedOrDurable
<1> QED BY <1>1, <1>2, <1>3, <1>4, <1>5, <1>8 DEF IInv

LEMMA QuietStep ==
  ASSUME IInv, Tick \/ UNCHANGED vars
  PROVE  IInv'
<1>1. /\ UNCHANGED <<tables, rows, persistAttr, queue, request, persistLock, pass, diskRows,
                     diskMeta, stopped, unsettled, recent>>
      /\ now' \in Nat
  BY DEF Tick, vars, tableVars, diskVars, ghosts, IInv, TypeOK
<1>2. TypeOK' /\ RequestsReady' /\ PassesReady' /\ SingleFlight'
  BY <1>1 DEF IInv, TypeOK, RequestsReady, PassesReady, Ready, SingleFlight
<1>3. OneName' /\ QueuedIsRecent' /\ DrainedAtStop'
  BY <1>1 DEF IInv, OneName, KnownAs, QueuedIsRecent, DrainedAtStop
<1>4. /\ \A k : /\ Owed(k)' <=> Owed(k)
                /\ BeingWritten(k)' <=> BeingWritten(k)
                /\ Wanted(k)' = Wanted(k)
                /\ OnDiskNow(k)' = OnDiskNow(k)
      /\ \A a : AboutToWrite(a)' = AboutToWrite(a)
  BY <1>1 DEF Owed, OwedByRequest, HasRows, BeingWritten, Wanted, OnDiskNow, AboutToWrite,
              ToWrite, RowsToWrite, MetadataToWrite
<1>5. UpToDate' /\ OwedOrDurable'
  BY <1>1, <1>4 DEF IInv, UpToDate, OwedOrDurable, Durable
<1> QED BY <1>2, <1>3, <1>5 DEF IInv

(* A request step: what it changes it owes, what it owes it still owes.      *)
LEMMA RequestInductive ==
  ASSUME IInv, NEW r \in Requests, RequestStep(r)
  PROVE  IInv'
<1>1. UNCHANGED <<persistLock, pass, diskRows, diskMeta>>
  BY RequestFrame
<1>2. TypeOK' /\ RequestsReady'
  BY RequestType DEF IInv
<1>3. PassesReady' /\ SingleFlight'
  BY <1>1 DEF IInv, PassesReady, Ready, SingleFlight
<1>4. OneName'
  BY NameRequestStep DEF IInv
<1>5. QueuedIsRecent' /\ DrainedAtStop'
  BY QueueRequestStep
<1>6. ASSUME NEW a \in Passes, NEW k, pass'[a].at \in InHand, pass'[a].task = k
      PROVE  Owed(k)' \/ k \in unsettled' \/ AboutToWrite(a)' = Wanted(k)'
  <2>1. k \in Task /\ pass[a].at \in InHand /\ pass[a].task = k
    BY <1>1, <1>6 DEF IInv, PassesReady, Ready
  <2>2. Kept(k)
    BY <2>1, RequestKeeps
  <2>3. Owed(k) \/ k \in unsettled \/ AboutToWrite(a) = Wanted(k)
    BY <2>1 DEF IInv, UpToDate
  <2> QED BY <2>1, <2>2, <2>3 DEF Kept
<1>7. UpToDate'
  BY <1>6 DEF UpToDate
<1>8. ASSUME NEW k \in Task
      PROVE  Owed(k)' \/ BeingWritten(k)' \/ Durable(k)'
  <2>1. Kept(k)
    BY RequestKeeps
  <2>2. BeingWritten(k)' <=> BeingWritten(k)
    BY <1>1 DEF BeingWritten
  <2>3. OnDiskNow(k)' = OnDiskNow(k)
    BY <1>1 DEF OnDiskNow
  <2>4. Owed(k) \/ BeingWritten(k) \/ k \in unsettled \/ OnDiskNow(k) = Wanted(k)
    BY DEF IInv, OwedOrDurable, Durable
  <2> QED BY <2>1, <2>2, <2>3, <2>4 DEF Kept, Durable
<1>9. OwedOrDurable'
  BY <1>8 DEF OwedOrDurable
<1> QED BY <1>2, <1>3, <1>4, <1>5, <1>7, <1>9 DEF IInv

LEMMA PassInductive ==
  ASSUME IInv,
         \/ \E a \in Passes : PassStep(a)
         \/ StartTimer
         \/ TakeAll
  PROVE  IInv'
<1>1. TypeOK' /\ PassesReady'
  BY PassType DEF IInv
<1>2. UNCHANGED request
  BY PassFrame
<1>3. RequestsReady'
  BY <1>2 DEF IInv, RequestsReady
<1>4. SingleFlight' /\ OneName'
  BY LockStep, NamePassStep DEF IInv
<1> QED BY <1>1, <1>3, <1>4, QueuePassStep, PassKeeps DEF IInv

LEMMA Inductive == IInv /\ [Next]_vars => IInv'
<1> SUFFICES ASSUME IInv, [Next]_vars PROVE IInv'
  OBVIOUS
<1>1. CASE \E r \in Requests : RequestStep(r)
  BY <1>1, RequestInductive
<1>2. CASE (\E a \in Passes : PassStep(a)) \/ StartTimer \/ TakeAll
  BY <1>2, PassInductive
<1>3. CASE Restart
  BY <1>3, RestartStep
<1>4. CASE Tick \/ UNCHANGED vars
  BY <1>4, QuietStep
<1> QED BY <1>1, <1>2, <1>3, <1>4 DEF Next

-----------------------------------------------------------------------------
(* The inductive invariant holds in every reachable state: requests, passes, *)
(* flushes, the shutdown drain and restarts in any interleaving.             *)
THEOREM InvariantHolds == Spec => []IInv
BY InitIInv, Inductive, PTL DEF Spec

(* The variables keep their types.                                           *)
THEOREM TypeCorrect == Spec => []TypeOK
<1>1. IInv => TypeOK
  BY DEF IInv
<1> QED BY <1>1, InvariantHolds, PTL

(* No change is forgotten (operations/persist.rs with db_operations/write):  *)
(* what nobody owes the disk any more is on the disk as it should be.        *)
THEOREM NoChangeForgotten == Spec => []OwedOrDurable
<1>1. IInv => OwedOrDurable
  BY DEF IInv
<1> QED BY <1>1, InvariantHolds, PTL

(* With the lock in one hand nobody else holds a task.                       *)
LEMMA NobodyElse ==
  ASSUME IInv, NEW a \in Passes, NEW k \in Task, k \in pass[a].tasks \/ pass[a].at \in InHand
  PROVE  persistLock = a
BY DEF IInv, TypeOK, PassState, PassesReady, Ready, SingleFlight, Holding, InHand

(* A flush that is through its snapshot has put on disk everything marked    *)
(* before it took the snapshot (operations/persist.rs, flush).               *)
THEOREM FlushIsComplete == Spec => []FlushSettles
<1>1. ASSUME IInv, pass[Flush].at = "working", pass[Flush].tasks = {}, NEW k \in Task,
             k \notin recent
      PROVE  (\E r \in Requests : OwedByRequest(r, k)) \/ Durable(k)
  <2>1. Flush \in Passes /\ persistLock = Flush
    BY <1>1, PassAssumption DEF IInv, SingleFlight, Holding
  <2>2. queue[k] = NONE
    BY <1>1 DEF IInv, QueuedIsRecent
  <2>3. \A a \in Passes : k \notin pass[a].tasks /\ ~(pass[a].at \in InHand)
    BY <1>1, <2>1, NobodyElse DEF InHand
  <2>4. ~BeingWritten(k)
    BY <2>3 DEF BeingWritten, InHand
  <2> QED BY <1>1, <2>2, <2>3, <2>4 DEF IInv, OwedOrDurable, Owed
<1>2. IInv => FlushSettles
  BY <1>1 DEF FlushSettles
<1> QED BY <1>2, InvariantHolds, PTL

(* When the shutdown drain stops, every answered change is on disk           *)
(* (operations/shutdown.rs).                                                 *)
THEOREM ShutdownIsComplete == Spec => []ShutdownDrains
<1>1. ASSUME IInv, stopped, NEW k \in Task
      PROVE  (\E r \in Requests : OwedByRequest(r, k)) \/ Durable(k)
  <2>1. persistLock = NONE /\ queue[k] = NONE
    BY <1>1 DEF IInv, DrainedAtStop
  <2>2. \A a \in Passes : k \notin pass[a].tasks /\ ~(pass[a].at \in InHand)
    BY <1>1, <2>1, NobodyElse, PassAssumption
  <2>3. ~BeingWritten(k)
    BY <2>2 DEF BeingWritten, InHand
  <2> QED BY <1>1, <2>1, <2>2, <2>3 DEF IInv, OwedOrDurable, Owed
<1>2. IInv => ShutdownDrains
  BY <1>1 DEF ShutdownDrains
<1> QED BY <1>2, InvariantHolds, PTL

(* A start restores a table nothing is owed for as it was                    *)
(* (operations/init.rs, load_namespace).                                     *)
THEOREM RestartIsFaithful == Spec => RestartRestores
<1>1. ASSUME IInv, Restart, NEW k \in Task
      PROVE  k \in unsettled' \/ OnDiskNow(k) = Wanted(k)'
  <2>1. /\ \A r \in Requests : request'[r] = NewRequest
        /\ \A a \in Passes : pass'[a] = NewPass
        /\ queue'[k] = NONE
    BY <1>1, RestartState DEF IInv, Restart, EmptyQueue
  <2>2. ~Owed(k)' /\ ~BeingWritten(k)'
    BY <2>1 DEF Owed, OwedByRequest, BeingWritten, NewRequest, NewPass
  <2>3. Owed(k)' \/ BeingWritten(k)' \/ k \in unsettled' \/ OnDiskNow(k)' = Wanted(k)'
    BY <1>1, RestartStep DEF IInv, OwedOrDurable, Durable
  <2>4. OnDiskNow(k)' = OnDiskNow(k)
    BY <1>1 DEF Restart, diskVars, OnDiskNow
  <2> QED BY <2>2, <2>3, <2>4
<1>2. ASSUME IInv, Restart, NEW t \in Tables,
             \A task \in Task : TableOf(task) = t => Settled(task),
             NEW k \in Task, TableOf(k) = t
      PROVE  Wanted(k)' = Wanted(k)
  <2>1. \A task \in Task : TableOf(task) = t => OnDiskNow(task) = Wanted(task)
    BY <1>2 DEF IInv, OwedOrDurable, Durable, Settled
  <2>2. MetadataOf(t) \in Task /\ TableOf(MetadataOf(t)) = t /\ MetadataOf(t)[2] = META
    BY DEF MetadataOf, Task, TableOf
  <2>3. diskMeta[t] = MetadataToWrite(tables[t])
    BY <2>1, <2>2 DEF OnDiskNow, Wanted, ToWrite
  <2>4. tables[t] \in Instances \cup {NONE} /\ persistAttr \in [Instances -> BOOLEAN]
    BY <1>2 DEF IInv, TypeOK
  <2>5. ASSUME NEW p \in Partitions
        PROVE  diskRows[<<t, p>>] = RowsToWrite(tables[t], p)
    <3>1. <<t, p>> \in Task /\ TableOf(<<t, p>>) = t /\ <<t, p>>[2] # META
      BY MarkerAssumption DEF Task, TableOf
    <3> QED BY <2>1, <3>1 DEF OnDiskNow, Wanted, ToWrite
  <2>6. diskMeta[t] = NONE => t \notin OnDisk
    <3>1. ASSUME diskMeta[t] = NONE
          PROVE  tables[t] = NONE
      BY <2>3, <2>4, <3>1, DataAssumption DEF MetadataToWrite
    <3> QED BY <2>5, <3>1 DEF OnDisk, Stored, RowsToWrite
  <2>7. ASSUME diskMeta[t] = FALSE, NEW p \in Partitions
        PROVE  diskRows[<<t, p>>] = EMPTY
    <3>1. tables[t] = NONE \/ ~persistAttr[tables[t]]
      BY <2>3, <2>4, <2>7 DEF MetadataToWrite
    <3> QED BY <2>5, <3>1 DEF RowsToWrite
  <2>8. k \notin unsettled'
    <3>1. /\ TableOf(k) = t /\ k = <<t, k[2]>> /\ k[1] = t
          /\ k[2] \in Partitions \cup {META}
      BY <1>2, TaskShape DEF TableOf
    <3>2. ~(k \in Slots /\ diskMeta[k[1]] = FALSE /\ diskRows[k] # EMPTY)
      BY <2>7, <3>1, MarkerAssumption DEF Slots
    <3>3. \A u \in {v \in OnDisk : diskMeta[v] = NONE} : k # MetadataOf(u)
      BY <2>6, <3>1 DEF MetadataOf
    <3> QED BY <1>2, <3>2, <3>3 DEF Restart
  <2>9. OnDiskNow(k) = Wanted(k)
    BY <1>2, <2>1
  <2> QED BY <1>1, <1>2, <2>8, <2>9
<1>3. IInv => (Restart => \A t \in Tables :
        (\A task \in Task : TableOf(task) = t => Settled(task))
           => \A task \in Task : TableOf(task) = t => Wanted(task)' = Wanted(task))
  BY <1>2
<1> QED BY <1>3, InvariantHolds, PTL DEF RestartRestores
=============================================================================
