----------------------------- MODULE ReaderSync -----------------------------
(***************************************************************************)
(* How readers follow a table (db_operations/sync.rs,                      *)
(* reader/reader_session.rs, reader/reader_sessions.rs,                    *)
(* grpc_server/reader_grpc_service.rs): a reader subscribes, gets a        *)
(* snapshot, and is then fed the changes through the queue of its session, *)
(* one chunk per long poll.                                                *)
(*                                                                         *)
(* Writers change the table under its lock and tell the sessions after     *)
(* releasing it.  A session that falls too far behind loses its queue, one *)
(* that goes quiet is forgotten, and any failed call makes the reader      *)
(* greet again.                                                            *)
(*                                                                         *)
(* Abstractions.  One namespace, one table name.  Rows are keys with       *)
(* values.  Table attributes and read statistics are left out.  Time is:   *)
(* a poll may time out and a session may be collected at any moment.  The  *)
(* list of sessions to tell is read in one step, though the code asks each *)
(* session in turn: what is told to one session does not depend on         *)
(* another.  The reader is the client library, outside this repository:    *)
(* it does what MyNoSqlReader.proto says of it.                            *)
(***************************************************************************)
EXTENDS Naturals, Sequences, FiniteSets, SequencesExt, Functions

CONSTANTS
  Keys, Values,
  NONE,               \* no row, no table object
  PartitionOf,        \* key -> its partition
  Instances,          \* bound: table objects alive at a time
  Writers,            \* concurrent writing requests
  Sessions,           \* bound: sessions held at a time
  MaxRowsPerChunk,
  MaxQueuedChunks,
  Transactions,       \* bound: whether calls of two actions are made
  MaxWrites           \* bound: calls that change the table

ASSUME NoneAssumption == NONE \notin Values \cup Instances \cup {"update", "delete", "init"}
ASSUME KeysAssumption == IsFiniteSet(Keys)
ASSUME CeilingAssumption == MaxRowsPerChunk \in Nat \ {0} /\ MaxQueuedChunks \in Nat \ {0}
ASSUME BoundAssumption == Transactions \in BOOLEAN /\ MaxWrites \in Nat

VARIABLES
  table,      \* the object the name resolves to, or NONE
  rows,       \* object -> key -> value, NONE for no row
  writer,     \* writer -> where it is, what it has to announce, to whom
  session,    \* ReaderSession, and whether the map still has it
  reader,     \* session -> the reader that greeted for it, with its cache
  writes,     \* calls so far
  disputed    \* history: session -> keys two announcements fought over

vars == <<table, rows, writer, session, reader, writes, disputed>>

NoRows == [k \in Keys |-> NONE]
Nothing == [k \in {} |-> NONE]
Overlay(content, change) == [k \in DOMAIN content \cup DOMAIN change |->
                               IF k \in DOMAIN change THEN change[k] ELSE content[k]]

NewWriter == [at |-> "idle", inst |-> NONE, touched |-> {}, chunks |-> <<>>, to |-> {},
              notify |-> {}]
NewSession == [live |-> FALSE, subscribed |-> FALSE, queue |-> <<>>, overflowed |-> FALSE,
               permit |-> FALSE]
NewReader == [at |-> "away", inst |-> NONE, chunk |-> NONE, cache |-> NoRows,
              kind |-> NONE, batch |-> Nothing]

Init ==
  /\ table = NONE
  /\ rows = [i \in Instances |-> NoRows]
  /\ writer = [w \in Writers |-> NewWriter]
  /\ session = [s \in Sessions |-> NewSession]
  /\ reader = [s \in Sessions |-> NewReader]
  /\ writes = 0
  /\ disputed = [s \in Sessions |-> {}]

-----------------------------------------------------------------------------
(* What one call does to the table, and the chunks that say so.             *)

SamePartition(keys) == {k \in Keys : \E other \in keys : PartitionOf[k] = PartitionOf[other]}
Written(keys, v) == [k \in keys |-> v]
Removed(keys) == [k \in keys |-> NONE]

(* kind: what the change is to the readers; rows: what it writes or removes. *)
Changes(content) ==
  LET present == {k \in Keys : content[k] # NONE} IN
  [kind : {"update", "init"}, rows : {Written(keys, v) : keys \in (SUBSET Keys) \ {{}}, v \in Values}]
  \cup [kind : {"clean"}, rows : {Written(keys, v) : keys \in SUBSET Keys, v \in Values}]
  \cup [kind : {"delete"}, rows : {Removed(keys) : keys \in (SUBSET present) \ {{}}}]
  \cup [kind : {"cleanPartitions"},
        rows : {Removed(SamePartition(keys)) : keys \in (SUBSET present) \ {{}}}]

Touched(change) ==
  CASE change.kind = "clean" -> Keys
    [] change.kind = "init"  -> SamePartition(DOMAIN change.rows)
    [] OTHER                 -> DOMAIN change.rows

Applied(content, change) ==
  Overlay([k \in Keys |-> IF k \in Touched(change) THEN NONE ELSE content[k]], change.rows)

(* split_rows and its siblings: cut by count, closed by the End.            *)
Cut(kind, changed) ==
  LET order == SetToSeq(DOMAIN changed)
      size == Len(order)
      count == (size + MaxRowsPerChunk - 1) \div MaxRowsPerChunk
      Nth(n) == {order[j] : j \in {m \in 1 .. size :
                    (n - 1) * MaxRowsPerChunk < m /\ m <= n * MaxRowsPerChunk}}
  IN [n \in 1 .. count |-> [kind |-> kind, rows |-> Restrict(changed, Nth(n))]]

Instruction(kind, changed) == <<[kind |-> kind, rows |-> changed]>>
End(kind) == CASE kind = "update" -> "updateEnd"
               [] kind = "delete" -> "deleteEnd"
               [] kind = "init"   -> "initEnd"

(* Slip: a batch that fits one chunk is not closed. *)
BatchLeftOpen(kind, changed) ==
  IF DOMAIN changed = {} THEN <<>>
  ELSE Cut(kind, changed)

Batch(kind, changed) ==
  IF DOMAIN changed = {} THEN <<>>
  ELSE Cut(kind, changed) \o Instruction(End(kind), Nothing)

ChunksOf(change) ==
  CASE change.kind = "clean" -> Instruction("clean", Nothing) \o Batch("update", change.rows)
    [] change.kind = "cleanPartitions" -> Instruction("cleanPartitions", change.rows)
    [] OTHER -> Batch(change.kind, change.rows)

-----------------------------------------------------------------------------
(* Writers. *)

Turns(w, next) == writer' = [writer EXCEPT ![w] = next]

Unused(i) ==
  /\ table # i
  /\ \A w \in Writers : writer[w].inst # i
  /\ \A s \in Sessions : reader[s].inst # i

(* Writers that have changed the table and not told the session yet. *)
Owes(w, s) == writer[w].at \in {"removed", "announce"} \/ s \in writer[w].to
Unannounced(s, ws) == UNION {writer[w].touched : w \in {u \in ws : Owes(u, s)}}

(* Two announcements of a key may arrive in either order; a change to an    *)
(* object that has lost its name is told under the name all the same.       *)
Dispute(w, keys) ==
  disputed' = [s \in Sessions |->
                 (disputed[s] \ keys)
                 \cup IF writer[w].inst # table THEN keys
                      ELSE keys \cap Unannounced(s, Writers \ {w})]

Resolve(w) ==
  /\ writer[w].at = "idle"
  /\ table # NONE
  /\ Turns(w, [NewWriter EXCEPT !.at = "resolved", !.inst = table])
  /\ UNCHANGED <<table, rows, session, reader, writes, disputed>>

(* One visit of the table, under its lock: a write, a bulk, a deletion, a   *)
(* transaction or a garbage collection.                                     *)
Change(w, call) ==
  /\ writer[w].at = "resolved"
  /\ writes < MaxWrites
  /\ writes' = writes + 1
  /\ rows' = [rows EXCEPT ![writer[w].inst] = call.rows]
  /\ Turns(w, [writer[w] EXCEPT !.at = "announce", !.touched = call.touched,
                                !.chunks = call.chunks])
  /\ Dispute(w, call.touched)
  /\ UNCHANGED <<table, session, reader>>

(* Nothing to write, nothing to announce. *)
NothingToDo(w) ==
  /\ writer[w].at = "resolved"
  /\ Turns(w, NewWriter)
  /\ UNCHANGED <<table, rows, session, reader, writes, disputed>>

(* create_table announces nothing. *)
CreateTable(i) ==
  /\ table = NONE
  /\ writes < MaxWrites
  /\ Unused(i)
  /\ table' = i
  /\ rows' = [rows EXCEPT ![i] = NoRows]
  /\ writes' = writes + 1
  /\ UNCHANGED <<writer, session, reader, disputed>>

(* delete_table: the name goes, then the rows, then the readers are told. *)
DeleteTable(w) ==
  /\ writer[w].at = "idle"
  /\ table # NONE
  /\ writes < MaxWrites
  /\ table' = NONE
  /\ writes' = writes + 1
  /\ Turns(w, [NewWriter EXCEPT !.at = "removed", !.inst = table, !.touched = Keys])
  /\ disputed' = [s \in Sessions |-> Unannounced(s, Writers \ {w})]
  /\ UNCHANGED <<rows, session, reader>>

CleanDeleted(w) ==
  /\ writer[w].at = "removed"
  /\ rows' = [rows EXCEPT ![writer[w].inst] = NoRows]
  /\ Turns(w, [writer[w] EXCEPT !.at = "announce",
                                !.chunks = Instruction("deleteTable", Nothing)])
  /\ UNCHANGED <<table, session, reader, writes, disputed>>

(* enqueue: the sessions subscribed at this moment... *)
Subscribed == {s \in Sessions : session[s].live /\ session[s].subscribed}

Announce(w) ==
  /\ writer[w].at = "announce"
  /\ Turns(w, IF Subscribed = {} \/ writer[w].chunks = <<>> THEN NewWriter
              ELSE [writer[w] EXCEPT !.at = "push", !.to = Subscribed])
  /\ UNCHANGED <<table, rows, session, reader, writes, disputed>>

(* ... get all the chunks of the call in one go, each under its own lock.   *)
(* Past the ceiling the whole backlog is thrown away.                       *)
PushedKeepingNew(sess, chunks) ==  \* slip: only the old backlog is thrown away
  IF sess.overflowed THEN sess
  ELSE IF Len(sess.queue \o chunks) > MaxQueuedChunks
       THEN [sess EXCEPT !.queue = chunks]
       ELSE [sess EXCEPT !.queue = @ \o chunks]

Pushed(sess, chunks) ==
  IF sess.overflowed THEN sess
  ELSE IF Len(sess.queue \o chunks) > MaxQueuedChunks
       THEN [sess EXCEPT !.queue = <<>>, !.overflowed = TRUE]
       ELSE [sess EXCEPT !.queue = @ \o chunks]

Push(w, s) ==
  /\ writer[w].at = "push" /\ writer[w].notify = {}
  /\ s \in writer[w].to
  /\ session' = [session EXCEPT ![s] = Pushed(@, writer[w].chunks)]
  /\ Turns(w, [writer[w] EXCEPT !.to = @ \ {s},
                                !.notify = IF session[s].overflowed THEN {} ELSE {s}])
  /\ UNCHANGED <<table, rows, reader, writes, disputed>>

(* Slip: only a poll that is waiting is woken. *)
NotifyWaiters(w, s) ==
  /\ s \in writer[w].notify
  /\ session' = [session EXCEPT ![s].permit = (reader[s].at = "wait")]
  /\ Turns(w, [writer[w] EXCEPT !.notify = {}])
  /\ UNCHANGED <<table, rows, reader, writes, disputed>>

(* notify_one: wakes the poll that waits, or the next one that would. *)
Notify(w, s) ==
  /\ s \in writer[w].notify
  /\ session' = [session EXCEPT ![s].permit = TRUE]
  /\ Turns(w, [writer[w] EXCEPT !.notify = {}])
  /\ UNCHANGED <<table, rows, reader, writes, disputed>>

Announced(w) ==
  /\ writer[w].at = "push" /\ writer[w].to = {} /\ writer[w].notify = {}
  /\ Turns(w, NewWriter)
  /\ UNCHANGED <<table, rows, session, reader, writes, disputed>>

-----------------------------------------------------------------------------
(* Readers and the calls they make. *)

Reads(s, next) == reader' = [reader EXCEPT ![s] = next]

(* A session id is used again here once nobody knows the old one. *)
Greeting(s) ==
  /\ reader[s].at = "away" /\ ~session[s].live
  /\ \A w \in Writers : s \notin writer[w].to \cup writer[w].notify
  /\ session' = [session EXCEPT ![s] = [NewSession EXCEPT !.live = TRUE]]
  /\ Reads(s, [NewReader EXCEPT !.at = "greeted"])
  /\ UNCHANGED <<table, rows, writer, writes, disputed>>

(* get_session: an overflowed session is forgotten when its reader asks;    *)
(* whoever is refused starts over with another greeting.                    *)
Refused(s) == ~session[s].live \/ session[s].overflowed

StartOver(s) ==
  /\ reader[s].at \in {"greeted", "ready"}
  /\ Refused(s)
  /\ session' = [session EXCEPT ![s].live = FALSE]
  /\ Reads(s, NewReader)
  /\ UNCHANGED <<table, rows, writer, writes, disputed>>

(* subscribe: the table as it is now... *)
SubscribeLookUp(s) ==
  /\ reader[s].at = "greeted" /\ ~Refused(s)
  /\ Reads(s, IF table # NONE THEN [reader[s] EXCEPT !.at = "found", !.inst = table]
              ELSE [reader[s] EXCEPT !.at = "missing"])
  /\ UNCHANGED <<table, rows, writer, session, writes, disputed>>

(* ... or, when there is none, the registration first and a second look. *)
SubscribeEarly(s) ==
  /\ reader[s].at = "missing"
  /\ session' = [session EXCEPT ![s].subscribed = TRUE]
  /\ Reads(s, [reader[s] EXCEPT !.at = "registered"])
  /\ UNCHANGED <<table, rows, writer, writes, disputed>>

(* What a snapshot leaves in dispute; one of an object that has lost its     *)
(* name since it was looked up settles nothing.                             *)
Contested(s, inst) ==
  IF inst # table THEN Keys
  ELSE IF session[s].queue # <<>> THEN disputed[s]
  ELSE disputed[s] \cap Unannounced(s, Writers)

(* Slip: without a second look. *)
NoSecondLook(s) ==
  /\ reader[s].at = "registered"
  /\ Reads(s, [reader[s] EXCEPT !.at = "ready"])
  /\ disputed' = [disputed EXCEPT ![s] = Contested(s, table)]
  /\ UNCHANGED <<table, rows, writer, session, writes>>

LookAgain(s) ==
  /\ reader[s].at = "registered"
  /\ \/ /\ table # NONE
        /\ Reads(s, [reader[s] EXCEPT !.at = "found", !.inst = table])
        /\ UNCHANGED disputed
     \/ /\ table = NONE
        /\ Reads(s, [reader[s] EXCEPT !.at = "ready"])
        /\ disputed' = [disputed EXCEPT ![s] = Contested(s, NONE)]
  /\ UNCHANGED <<table, rows, writer, session, writes>>

(* register_and_snapshot: both under the lock of the table. *)
Snapshot(s) ==
  /\ reader[s].at = "found"
  /\ session' = [session EXCEPT ![s].subscribed = TRUE]
  /\ Reads(s, [reader[s] EXCEPT !.at = "ready", !.inst = NONE, !.cache = rows[reader[s].inst]])
  /\ disputed' = [disputed EXCEPT ![s] = Contested(s, reader[s].inst)]
  /\ UNCHANGED <<table, rows, writer, writes>>

(* get_change: a first pop, a wait that a notification or the time limit    *)
(* ends, a second pop.                                                      *)
GetChange(s) ==
  /\ reader[s].at = "ready" /\ ~Refused(s)
  /\ Reads(s, [reader[s] EXCEPT !.at = "pop"])
  /\ UNCHANGED <<table, rows, writer, session, writes, disputed>>

Pop(s) ==
  /\ reader[s].at \in {"pop", "popAgain"}
  /\ IF session[s].queue # <<>>
     THEN /\ session' = [session EXCEPT ![s].queue = Tail(@)]
          /\ Reads(s, [reader[s] EXCEPT !.at = "answered", !.chunk = Head(session[s].queue)])
     ELSE /\ UNCHANGED session
          /\ Reads(s, [reader[s] EXCEPT !.at = IF @ = "pop" THEN "wait" ELSE "ready"])
  /\ UNCHANGED <<table, rows, writer, writes, disputed>>

Wake(s) ==
  /\ reader[s].at = "wait" /\ session[s].permit
  /\ session' = [session EXCEPT ![s].permit = FALSE]
  /\ Reads(s, [reader[s] EXCEPT !.at = "popAgain"])
  /\ UNCHANGED <<table, rows, writer, writes, disputed>>

TimeOut(s) ==
  /\ reader[s].at = "wait"
  /\ Reads(s, [reader[s] EXCEPT !.at = "popAgain"])
  /\ UNCHANGED <<table, rows, writer, session, writes, disputed>>

(* The reader takes in a chunk: records wait for their End. *)
TakenIn(r, chunk) ==
  LET batch == Overlay(r.batch, chunk.rows)
      Closed(content) == [r EXCEPT !.cache = content, !.kind = NONE, !.batch = Nothing]
  IN
  CASE chunk.kind \in {"update", "delete", "init"} ->
         [r EXCEPT !.kind = chunk.kind, !.batch = batch]
    [] chunk.kind \in {"updateEnd", "deleteEnd"} -> Closed(Overlay(r.cache, r.batch))
    [] chunk.kind = "initEnd" ->
         Closed(Overlay(Overlay(r.cache, Removed(SamePartition(DOMAIN r.batch))), r.batch))
    [] chunk.kind = "cleanPartitions" -> [r EXCEPT !.cache = Overlay(@, chunk.rows)]
    [] chunk.kind \in {"clean", "deleteTable"} -> [r EXCEPT !.cache = NoRows]

TakeIn(s) ==
  /\ reader[s].at = "answered"
  /\ Reads(s, [TakenIn(reader[s], reader[s].chunk) EXCEPT !.at = "ready", !.chunk = NONE])
  /\ UNCHANGED <<table, rows, writer, session, writes, disputed>>

(* A call fails, its answer is lost or the reader dies: the session is left *)
(* behind and whatever was popped for it is gone.                           *)
Leave(s) ==
  /\ reader[s].at # "away"
  /\ Reads(s, NewReader)
  /\ UNCHANGED <<table, rows, writer, session, writes, disputed>>

(* The collector forgets a session; it may ask again a moment later. *)
Collect(s) ==
  /\ session[s].live
  /\ session' = [session EXCEPT ![s].live = FALSE]
  /\ UNCHANGED <<table, rows, writer, reader, writes, disputed>>

-----------------------------------------------------------------------------
(* A transaction cleans, deletes and writes; it cannot replace partitions. *)
Actions(content) ==
  {change \in Changes(content) :
     change.kind # "init" /\ (change.kind = "clean" => change.rows = Nothing)}

(* A call is what it leaves in the table, what it touched, and what it tells.*)
Single(content, change) ==
  [rows |-> Applied(content, change), touched |-> Touched(change), chunks |-> ChunksOf(change)]

AndThen(call, change) ==
  [rows |-> Applied(call.rows, change), touched |-> call.touched \cup Touched(change),
   chunks |-> call.chunks \o ChunksOf(change)]

Calls(content) ==
  {Single(content, only) : only \in Changes(content)}
  \cup IF ~Transactions THEN {} ELSE
       UNION {{AndThen(Single(content, first), second) :
                 second \in Actions(Applied(content, first))} : first \in Actions(content)}

WriterStep(w) ==
  \/ Resolve(w) \/ NothingToDo(w) \/ DeleteTable(w) \/ CleanDeleted(w)
  \/ writer[w].inst # NONE /\ \E call \in Calls(rows[writer[w].inst]) : Change(w, call)
  \/ Announce(w) \/ Announced(w)
  \/ \E s \in Sessions : Push(w, s) \/ Notify(w, s)

ReaderStep(s) ==
  \/ Greeting(s) \/ StartOver(s) \/ SubscribeLookUp(s) \/ SubscribeEarly(s) \/ LookAgain(s)
  \/ Snapshot(s) \/ GetChange(s) \/ Pop(s) \/ Wake(s) \/ TakeIn(s)

Next ==
  \/ \E w \in Writers : WriterStep(w)
  \/ \E i \in Instances : CreateTable(i)
  \/ \E s \in Sessions : ReaderStep(s) \/ TimeOut(s) \/ Leave(s) \/ Collect(s)

(* The tasks of the runtime make progress and readers keep polling.  No     *)
(* fairness for the time limit of a poll, for writers to begin, or for what  *)
(* goes wrong.                                                              *)
Fairness ==
  /\ \A w \in Writers :
       /\ WF_vars(CleanDeleted(w) \/ Announce(w) \/ Announced(w))
       /\ \A s \in Sessions : WF_vars(Push(w, s) \/ Notify(w, s))
  /\ \A s \in Sessions : WF_vars(ReaderStep(s))

Spec == Init /\ [][Next]_vars
FairSpec == Spec /\ Fairness

-----------------------------------------------------------------------------
Content == Values \cup {NONE}
Partial(range) == UNION {[keys -> range] : keys \in SUBSET Keys}
BatchKinds == {"update", "delete", "init"}
Chunk == [kind : BatchKinds \cup {End(kind) : kind \in BatchKinds}
                 \cup {"clean", "cleanPartitions", "deleteTable"},
          rows : Partial(Content)]

(* The types of the variables; a queue never holds more than its ceiling.    *)
TypeOK ==
  /\ table \in Instances \cup {NONE}
  /\ rows \in [Instances -> [Keys -> Content]]
  /\ \A w \in Writers :
       /\ writer[w].at \in {"idle", "resolved", "removed", "announce", "push"}
       /\ writer[w].inst \in Instances \cup {NONE}
       /\ writer[w].touched \subseteq Keys
       /\ \A n \in DOMAIN writer[w].chunks : writer[w].chunks[n] \in Chunk
       /\ writer[w].to \cup writer[w].notify \subseteq Sessions
  /\ \A s \in Sessions :
       /\ session[s].live \in BOOLEAN /\ session[s].subscribed \in BOOLEAN
       /\ session[s].overflowed \in BOOLEAN /\ session[s].permit \in BOOLEAN
       /\ Len(session[s].queue) <= MaxQueuedChunks
       /\ \A n \in DOMAIN session[s].queue : session[s].queue[n] \in Chunk
       /\ reader[s].at \in {"away", "greeted", "missing", "registered", "found", "ready", "pop",
                            "wait", "popAgain", "answered"}
       /\ reader[s].cache \in [Keys -> Content] /\ reader[s].batch \in Partial(Content)
  /\ writes \in 0 .. MaxWrites
  /\ disputed \in [Sessions -> SUBSET Keys]

(* A reader that has been told everything: subscribed, nothing queued for it *)
(* and no writer on the way to it.                                          *)
CaughtUp(s) ==
  /\ session[s].live /\ session[s].subscribed /\ ~session[s].overflowed
  /\ session[s].queue = <<>>
  /\ reader[s].at \in {"ready", "wait"}
  /\ \A w \in Writers : ~Owes(w, s)

Current == IF table = NONE THEN NoRows ELSE rows[table]

(* A reader that has been told everything holds what the table holds,        *)
(* whenever it subscribed, also to a table that was not there yet, was       *)
(* deleted or was created again: no change is lost between the snapshot and  *)
(* the queue.  The exceptions are keys two writers announced at the same     *)
(* time, or that were written to, or read from, an object already deleted.   *)
CachesAgree ==
  \A s \in Sessions :
    CaughtUp(s) => \A k \in Keys \ disputed[s] : reader[s].cache[k] = Current[k]

(* A poll is never left waiting on a queue that has something for it (or has *)
(* just been thrown away): a notification is stored or on its way.           *)
NoLostWakeup ==
  \A s \in Sessions :
    (reader[s].at = "wait" /\ (session[s].queue # <<>> \/ session[s].overflowed))
      => session[s].permit \/ \E w \in Writers : s \in writer[w].notify

(* Whatever is cut is closed, and nobody else's chunks come in between: what *)
(* a reader has taken in, has in hand and will get is a run of whole batches *)
(* and instructions.                                                        *)
Ahead(s) ==
  (IF reader[s].kind = NONE THEN <<>> ELSE <<reader[s].kind>>)
  \o (IF reader[s].at = "answered" THEN <<reader[s].chunk.kind>> ELSE <<>>)
  \o [n \in DOMAIN session[s].queue |-> session[s].queue[n].kind]

BatchesStayWhole ==
  \A s \in Sessions : (reader[s].at # "away" /\ ~session[s].overflowed) =>
    LET kinds == Ahead(s) IN
    \A n \in DOMAIN kinds :
      /\ kinds[n] \in BatchKinds =>
           n < Len(kinds) /\ kinds[n + 1] \in {kinds[n], End(kinds[n])}
      /\ \A kind \in BatchKinds :
           kinds[n] = End(kind) => n > 1 /\ kinds[n - 1] = kind

(* All of it together, for any number of sessions told one after the other   *)
(* (sync.rs:20-270, reader_session.rs:100-200).                              *)
Inv ==
  /\ TypeOK
  /\ CachesAgree
  /\ NoLostWakeup
  /\ BatchesStayWhole

(* Once the writers stop, a reader that keeps polling catches up (or finds   *)
(* its session gone and starts over), and it does not take the time limit of *)
(* the long poll to get there.                                              *)
EveryReaderCatchesUp ==
  \A s \in Sessions : []<>(reader[s].at = "away" \/ CaughtUp(s) \/ ~session[s].live)

-----------------------------------------------------------------------------
(* The tests say of what a reader holds that it "is eventually consistent":  *)
(* a reader that has been told everything holds what the table holds.        *)
CachesConverge ==
  \A s \in Sessions : (CaughtUp(s) /\ table # NONE) => reader[s].cache = rows[table]
=============================================================================
