----------------------------- MODULE RowWrites -----------------------------
(***************************************************************************)
(* A row's way into a table: the handlers of the writer service            *)
(* (grpc_server/writer_grpc_service.rs), the schema it brings along        *)
(* (db_operations/write/build_db_row.rs), the row operations               *)
(* (db_operations/write/rows.rs, bulk.rs) and the collector of schemas     *)
(* (db_operations/gc.rs).                                                  *)
(*                                                                         *)
(* Every message carries the schema of its rows: an id, which the client   *)
(* computed, and the bytes.  The table keeps one schema per id and forgets *)
(* those no row names.  Looking an id up, registering it, inserting the    *)
(* row and marking what the disk is owed are separate takings of the       *)
(* table's locks, so writers, the collector and the persist pass run       *)
(* between them; a bulk write looks up at every message and inserts when   *)
(* its stream has ended.                                                   *)
(*                                                                         *)
(* Abstractions.  One table with one partition; one row to a message.      *)
(* A reading of the clock is any moment, one read before too, and so is a  *)
(* stamp that a client sends.  The table's own operations are the          *)
(* core crate's and atomic.  What the disk and the readers are owed for a  *)
(* row is WriteBehind and ReaderSync; here the disk is owed the schemas.   *)
(***************************************************************************)
EXTENDS Naturals, FiniteSets

CONSTANTS
  Calls,        \* requests, each made at most once
  Keys,         \* row keys of the partition
  Ids,          \* schema ids, numbers: the largest survives a collection
  Bytes,        \* their contents
  Shapes,       \* what clients send: pairs of an id and bytes
  NONE,
  MaxMessages,  \* bound: messages of a bulk write
  LastMoment    \* bound: of the moments a row may be stamped with

Kinds == {"insert", "put", "ifNew", "replace", "delete", "bulk", "bulkClean"}

ASSUME IdsAssumption == Ids \subseteq Nat
ASSUME ShapesAssumption == Shapes \subseteq Ids \X Bytes
ASSUME NoneAssumption == NONE \notin Bytes \cup Kinds \cup Nat
ASSUME BoundsAssumption == MaxMessages \in Nat \ {0} /\ LastMoment \in Nat

Moments == 0..LastMoment
NoSchemas == [i \in Ids |-> NONE]
NoRows == [k \in Keys |-> NONE]

(* A stored row: its TimeStamp, who wrote it, the shape it was written in    *)
(* (of which the row carries the id).                                        *)
Row(stamp, q, shape) == [stamp |-> stamp, by |-> q, shape |-> shape]
StoredRow == [stamp : Moments, by : Calls \cup {NONE}, shape : Shapes]

Bulk == {"bulk", "bulkClean"}

(* Requests whose row is the client's to stamp: one of them by force, two    *)
(* others never.                                                             *)
StampsOf(kind) ==
  CASE kind = "ifNew" -> Moments
    [] kind \in {"replace", "delete"} -> {NONE}
    [] OTHER -> Moments \cup {NONE}

VARIABLES
  schemas,      \* the table's schemas: id -> bytes, or NONE
  rows,         \* key -> row, or NONE
  written,      \* whether a write came after the last check for dead schemas
  call,         \* request -> where it is, with its locals
  collector,    \* the collector of schemas: where it is, the ids it saw alive
  metadataDue,  \* the mark in the persist queue
  persisting,   \* whether the persist pass has the metadata in hand
  disk,         \* the schemas of tables.meta
  taken,        \* history: moments the clock was read at or a client has sent
  shared,       \* history: those taken more than once, that two rows may carry
  unclear       \* history: ids whose rows may be shown in another shape or in
                \* none: registered by two at once, or collected under a writer that
                \* had found them

table == <<schemas, rows, written>>
persistence == <<metadataDue, persisting, disk>>
stamps == <<taken, shared>>
vars == <<schemas, rows, written, call, collector, metadataDue, persisting, disk, taken,
          shared, unclear>>

Idle == [at |-> "idle", kind |-> NONE, key |-> NONE, shape |-> NONE, base |-> NONE,
         stamp |-> NONE, messages |-> 1, batch |-> NoRows]
Watching == [at |-> "idle", live |-> {}]

(* A start: a table that was loaded, of one row or of none.                  *)
Init ==
  /\ taken = {0} /\ shared = {}
  /\ \/ rows = NoRows /\ schemas = NoSchemas
     \/ \E k \in Keys, shape \in Shapes :
          /\ rows = [NoRows EXCEPT ![k] = Row(0, NONE, shape)]
          /\ schemas = [NoSchemas EXCEPT ![shape[1]] = shape[2]]
  /\ written = TRUE
  /\ call = [q \in Calls |-> Idle]
  /\ collector = Watching
  /\ metadataDue = FALSE /\ persisting = FALSE
  /\ disk = schemas
  /\ unclear = {}

At(q, place) == call[q].at = place
Goes(q, next) == call' = [call EXCEPT ![q] = next]
Moves(q, place) == Goes(q, [call[q] EXCEPT !.at = place])
Ends(q) == Goes(q, [Idle EXCEPT !.at = "ended"])
IdOf(q) == call[q].shape[1]
BytesOf(q) == call[q].shape[2]

(* A moment comes up, for the second time perhaps.                           *)
Takes(moments) ==
  /\ taken' = taken \cup moments
  /\ shared' = shared \cup (taken \cap moments)

-----------------------------------------------------------------------------
(* The client: it makes an entity, of a stamp of its own or of none, having  *)
(* read the row it replaces.  What it stamps it with is its own affair: the  *)
(* version of the row it has read, for one.                                  *)
Call(q) ==
  /\ At(q, "idle")
  /\ \E kind \in Kinds, k \in Keys, shape \in Shapes :
       LET base == IF kind = "replace" THEN rows[k] ELSE NONE
       IN  /\ kind = "replace" => base # NONE
           /\ \E stamp \in StampsOf(kind) :
                /\ Takes({stamp} \ {NONE})
                /\ Goes(q, [Idle EXCEPT
                     !.at = IF kind = "delete" THEN "apply" ELSE "lookUp",
                     !.kind = kind, !.key = k, !.stamp = stamp, !.base = base,
                     !.shape = IF kind = "delete" THEN NONE ELSE shape])
  /\ UNCHANGED <<table, collector, persistence, unclear>>

(* Slip: a replaced row keeps the version its client has read.               *)
StampKept(q, now) ==
  IF call[q].kind = "replace" THEN call[q].base.stamp ELSE now

(* The client's stamp, as it was sent, or the server's moment.               *)
StampOf(q, now) == IF call[q].stamp # NONE THEN call[q].stamp ELSE now

Collected(q) == IF call[q].kind \in Bulk THEN "stream" ELSE "apply"

(* The moment is read, and the id looked up: one the table knows has to come *)
(* with the bytes it knows.                                                  *)
LookUp(q) ==
  /\ At(q, "lookUp")
  /\ \E now \in Moments :
       /\ Takes(IF call[q].stamp = NONE THEN {now} ELSE {})
       /\ IF schemas[IdOf(q)] \notin {NONE, BytesOf(q)}
          THEN Ends(q)
          ELSE Goes(q, [call[q] EXCEPT
                 !.at = IF schemas[IdOf(q)] = NONE THEN "register" ELSE Collected(q),
                 !.batch[call[q].key] = Row(StampOf(q, now), q, call[q].shape)])
  /\ UNCHANGED <<table, collector, persistence, unclear>>

(* Slip: registered, and the metadata not marked.                            *)
RegisterUnmarked(q) ==
  /\ At(q, "register")
  /\ schemas' = [schemas EXCEPT ![IdOf(q)] = IF @ = NONE THEN BytesOf(q) ELSE @]
  /\ Moves(q, Collected(q))
  /\ UNCHANGED <<stamps, rows, written, collector, persistence, unclear>>

(* Somebody may have registered the id since; then nothing is compared.      *)
Register(q) ==
  /\ At(q, "register")
  /\ IF schemas[IdOf(q)] = NONE
     THEN /\ schemas' = [schemas EXCEPT ![IdOf(q)] = BytesOf(q)]
          /\ Moves(q, "markMetadata")
          /\ UNCHANGED unclear
     ELSE /\ Moves(q, Collected(q))
          /\ unclear' = IF schemas[IdOf(q)] = BytesOf(q) THEN unclear
                        ELSE unclear \cup {IdOf(q)}
          /\ UNCHANGED schemas
  /\ UNCHANGED <<stamps, rows, written, collector, persistence>>

MarkMetadata(q) ==
  /\ At(q, "markMetadata")
  /\ metadataDue' = TRUE
  /\ Moves(q, Collected(q))
  /\ UNCHANGED <<stamps, table, collector, persisting, disk, unclear>>

(* The next message of a bulk write, its end, or a stream that breaks or     *)
(* disagrees with its header: then nothing is written.  Of a stream that has *)
(* ended the rows are left.                                                  *)
Message(q) ==
  /\ At(q, "stream")
  /\ \/ /\ call[q].messages < MaxMessages
        /\ \E k \in Keys, shape \in Shapes, stamp \in Moments \cup {NONE} :
             /\ stamp = NONE <=> call[q].stamp = NONE
             /\ Takes({stamp} \ {NONE})
             /\ Goes(q, [call[q] EXCEPT !.at = "lookUp", !.messages = @ + 1,
                                        !.key = k, !.shape = shape, !.stamp = stamp])
     \/ /\ Goes(q, [Idle EXCEPT !.at = "apply", !.kind = call[q].kind,
                                 !.key = call[q].key, !.batch = call[q].batch])
        /\ UNCHANGED stamps
     \/ Ends(q) /\ UNCHANGED stamps
  /\ UNCHANGED <<table, collector, persistence, unclear>>

-----------------------------------------------------------------------------
(* The table.                                                                *)

Stored(q) == rows[call[q].key]

Accepts(q) ==
  CASE call[q].kind = "insert"  -> Stored(q) = NONE
    [] call[q].kind = "ifNew"   -> Stored(q) # NONE => call[q].stamp > Stored(q).stamp
    [] call[q].kind = "replace" -> Stored(q) # NONE /\ Stored(q).stamp = call[q].base.stamp
    [] call[q].kind = "delete"  -> Stored(q) # NONE
    [] OTHER -> TRUE

Outcome(q) ==
  [k \in Keys |->
     IF call[q].kind = "delete" /\ k = call[q].key THEN NONE
     ELSE IF call[q].kind = "bulkClean" \/ call[q].batch[k] # NONE THEN call[q].batch[k]
     ELSE rows[k]]

Apply(q) ==
  /\ At(q, "apply")
  /\ IF Accepts(q)
     THEN rows' = Outcome(q) /\ written' = TRUE
     ELSE UNCHANGED <<rows, written>>
  /\ Ends(q)
  /\ UNCHANGED <<stamps, schemas, collector, persistence, unclear>>

-----------------------------------------------------------------------------
(* The collector of schemas: a cheap exit, a walk over the rows, and the     *)
(* drop, which a write since the walk cancels.                               *)

Registered == {i \in Ids : schemas[i] # NONE}
Named == {rows[k].shape[1] : k \in {key \in Keys : rows[key] # NONE}}

Walk ==
  /\ collector.at = "idle"
  /\ Cardinality(Registered) > 1
  /\ written
  /\ written' = FALSE
  /\ collector' = [at |-> "drop", live |-> Named]
  /\ UNCHANGED <<stamps, schemas, rows, call, persistence, unclear>>

Survivors(live) ==
  IF Registered \cap live # {} THEN Registered \cap live
  ELSE {i \in Registered : \A j \in Registered : j <= i}

(* Ids that calls have found or registered for rows yet to be inserted.      *)
Counted(q) ==
  {call[q].batch[k].shape[1] : k \in {key \in Keys : call[q].batch[key] # NONE}}
InFlight == UNION {Counted(q) : q \in Calls}

(* Slip: a write since the walk does not cancel it.                          *)
DropRegardless ==
  LET dead == Registered \ Survivors(collector.live)
  IN  /\ collector.at = "drop"
      /\ schemas' = [i \in Ids |-> IF i \in dead THEN NONE ELSE schemas[i]]
      /\ collector' = [Watching EXCEPT !.at = "mark"]
      /\ unclear' = unclear \cup (dead \cap InFlight)
      /\ UNCHANGED <<stamps, rows, written, call, persistence>>

Drop ==
  LET dead == Registered \ Survivors(collector.live)
  IN  /\ collector.at = "drop"
      /\ IF written \/ dead = {}
         THEN collector' = Watching /\ UNCHANGED <<schemas, unclear>>
         ELSE /\ schemas' = [i \in Ids |-> IF i \in dead THEN NONE ELSE schemas[i]]
              /\ collector' = [Watching EXCEPT !.at = "mark"]
              /\ unclear' = unclear \cup (dead \cap InFlight)
      /\ UNCHANGED <<stamps, rows, written, call, persistence>>

MarkDropped ==
  /\ collector.at = "mark"
  /\ metadataDue' = TRUE
  /\ collector' = Watching
  /\ UNCHANGED <<stamps, table, call, persisting, disk, unclear>>

-----------------------------------------------------------------------------
(* The persist pass: a task in hand is no mark any more, and what is written *)
(* is what the table holds when the task is carried out.                     *)

TakeTask ==
  /\ ~persisting
  /\ metadataDue
  /\ metadataDue' = FALSE
  /\ persisting' = TRUE
  /\ UNCHANGED <<stamps, table, call, collector, disk, unclear>>

Persist ==
  /\ persisting
  /\ disk' = schemas
  /\ persisting' = FALSE
  /\ UNCHANGED <<stamps, table, call, collector, metadataDue, unclear>>

Step(q) ==
  \/ LookUp(q) \/ Register(q) \/ MarkMetadata(q) \/ Message(q)
  \/ Apply(q)
Server == Walk \/ Drop \/ MarkDropped \/ TakeTask \/ Persist

Next ==
  \/ \E q \in Calls : Call(q) \/ Step(q)
  \/ Server

Spec == Init /\ [][Next]_vars

-----------------------------------------------------------------------------
TypeOK ==
  /\ taken \subseteq Moments /\ shared \subseteq taken
  /\ schemas \in [Ids -> Bytes \cup {NONE}]
  /\ rows \in [Keys -> StoredRow \cup {NONE}]
  /\ written \in BOOLEAN
  /\ \A q \in Calls : /\ call[q].at \in {"idle", "lookUp", "register", "markMetadata",
                                        "stream", "apply", "ended"}
                    /\ call[q].shape \in Shapes \cup {NONE}
                    /\ call[q].batch \in [Keys -> StoredRow \cup {NONE}]
  /\ collector.at \in {"idle", "drop", "mark"} /\ collector.live \subseteq Ids
  /\ {metadataDue, persisting} \subseteq BOOLEAN
  /\ disk \in [Ids -> Bytes \cup {NONE}]
  /\ unclear \subseteq Ids

(* A row is shown in the shape it was written in: its table has the schema   *)
(* of its id, with the bytes its writer sent - through collections, bulk     *)
(* writes whose stream takes its time and refused writes, but for the ids    *)
(* of "unclear".  (build_db_row.rs, register_schema; gc.rs)                  *)
RowsAreShown ==
  \A k \in Keys : rows[k] # NONE =>
    \/ schemas[rows[k].shape[1]] = rows[k].shape[2]
    \/ rows[k].shape[1] \in unclear

(* What the disk does not know of the schemas, it is owed.                   *)
(* (build_db_row.rs:90-92, gc.rs:41-45)                                      *)
SchemasOwedOrDurable ==
  \/ disk = schemas
  \/ metadataDue \/ persisting
  \/ collector.at = "mark" \/ \E q \in Calls : At(q, "markMetadata")

(* The row that a replace lands on.                                          *)
Replaces(q) ==
  /\ call[q].kind = "replace" /\ At(q, "apply")
  /\ rows'[call[q].key] # Stored(q)
  /\ call'[q].at = "ended"

(* A replace is let through only onto the row its client has read, never     *)
(* onto one written since, even when several have read the same version -    *)
(* but for rows of a stamp that came up twice, which a version does not      *)
(* tell apart: sent by a client, or read off the clock within one tick.      *)
(* (writer_grpc_service.rs, replace; build_db_row.rs, build_row)             *)
NoLostUpdate ==
  [][\A q \in Calls :
       Replaces(q) => Stored(q) = call[q].base \/ Stored(q).stamp \in shared]_vars

(* Every write that lands makes a version nobody else is holding.            *)
(* (proto/MyNoSqlWriter.proto:563-566)                                       *)
ReplacesWhatWasRead ==
  [][\A q \in Calls : Replaces(q) => Stored(q) = call[q].base]_vars

(* An id stands for one shape, and no row outlives the schema it names.      *)
(* (build_db_row.rs, register_schema)                                        *)
OneShapePerId ==
  \A k \in Keys : rows[k] # NONE => schemas[rows[k].shape[1]] \in {NONE, rows[k].shape[2]}

-----------------------------------------------------------------------------
(* The inductive invariant of RowWritesProofs.                               *)

AnyRow == [stamp : Nat, by : Calls \cup {NONE}, shape : Shapes]
RowsByKey == [Keys -> AnyRow \cup {NONE}]
AnyCall ==
  [at : {"idle", "lookUp", "register", "markMetadata", "stream", "apply", "ended"},
   kind : Kinds \cup {NONE}, key : Keys \cup {NONE}, shape : Shapes \cup {NONE},
   base : AnyRow \cup {NONE}, stamp : Nat \cup {NONE}, messages : Nat, batch : RowsByKey]

Types ==
  /\ taken \subseteq Nat /\ shared \subseteq taken
  /\ schemas \in [Ids -> Bytes \cup {NONE}]
  /\ rows \in RowsByKey
  /\ written \in BOOLEAN
  /\ call \in [Calls -> AnyCall]
  /\ collector \in [at : {"idle", "drop", "mark"}, live : SUBSET Ids]
  /\ \A q \in Calls :
       /\ call[q].at \in {"lookUp", "register", "markMetadata", "stream"} =>
            call[q].key \in Keys /\ call[q].shape \in Shapes
       /\ At(q, "apply") => call[q].key \in Keys

(* Rows a call has collected are of schemas the table knows, but for the     *)
(* ones whose schema is about to be registered.                              *)
Known(shape) == schemas[shape[1]] = shape[2] \/ shape[1] \in unclear

CollectedAreKnown ==
  \A q \in Calls, k \in Keys :
    call[q].batch[k] # NONE =>
      \/ Known(call[q].batch[k].shape)
      \/ At(q, "register") /\ call[q].batch[k].shape = call[q].shape

(* What the collector saw alive is what is alive, unless something was       *)
(* written since.                                                            *)
WalkStands == collector.at = "drop" /\ ~written => Named \subseteq collector.live

(* A stamp that came up once tells a row from every other, among the stored, *)
(* the read and the collected ones; a client's is its own until the row is   *)
(* made.                                                                     *)
Versions ==
  ({rows[k] : k \in Keys} \cup {call[q].base : q \in Calls}
     \cup UNION {{call[q].batch[k] : k \in Keys} : q \in Calls}) \ {NONE}

StampsTellRows ==
  /\ \A v \in Versions : v.stamp \in taken
  /\ \A v, w \in Versions : v.stamp = w.stamp => v = w \/ v.stamp \in shared

Stamped(q) == At(q, "lookUp") /\ call[q].stamp # NONE

StampsAreReserved ==
  \A q \in Calls : Stamped(q) =>
    /\ call[q].stamp \in taken
    /\ call[q].stamp \in shared
       \/ /\ \A v \in Versions : v.stamp # call[q].stamp
          /\ \A p \in Calls \ {q} : Stamped(p) => call[p].stamp # call[q].stamp

KindsFit ==
  \A q \in Calls : /\ call[q].kind = "replace" => call[q].base # NONE
                   /\ At(q, "stream") => call[q].kind \in Bulk

IInv ==
  /\ Types
  /\ RowsAreShown
  /\ CollectedAreKnown
  /\ WalkStands
  /\ StampsTellRows
  /\ StampsAreReserved
  /\ KindsFit
  /\ SchemasOwedOrDurable
=============================================================================
