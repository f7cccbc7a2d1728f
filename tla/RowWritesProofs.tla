--------------------------- MODULE RowWritesProofs ---------------------------
(***************************************************************************)
(* The invariants of RowWrites for any number of calls, keys, schemas and  *)
(* messages.  Types are inductive by themselves; a row is shown because    *)
(* what a call has collected is known and the collector's walk stands; an  *)
(* update is not lost because a stamp that came up once tells one row from *)
(* all the others.                                                         *)
(***************************************************************************)
EXTENDS RowWrites, TLAPS

USE DEF At, stamps

(* A stored or collected row is a row. *)
LEMMA RowIsRow ==
  ASSUME NEW stamp \in Nat, NEW q \in Calls, NEW shape \in Shapes
  PROVE  /\ Row(stamp, q, shape) \in AnyRow
         /\ Row(stamp, q, shape).stamp = stamp
         /\ Row(stamp, q, shape).shape = shape
BY DEF Row, AnyRow

LEMMA ShapeParts ==
  ASSUME NEW shape \in Shapes
  PROVE  shape[1] \in Ids /\ shape[2] \in Bytes /\ shape[2] # NONE
BY ShapesAssumption, NoneAssumption

(* One call goes on, the others stay where they are. *)
LEMMA GoesOn ==
  ASSUME Types, NEW q \in Calls, NEW next \in AnyCall, Goes(q, next)
  PROVE  /\ call' \in [Calls -> AnyCall]
         /\ call'[q] = next
         /\ \A p \in Calls : p # q => call'[p] = call[p]
BY DEF Types, Goes

LEMMA IdleIsCall ==
  /\ Idle \in AnyCall
  /\ [Idle EXCEPT !.at = "ended"] \in AnyCall
  /\ Idle.batch = NoRows
BY DEF Idle, AnyCall, RowsByKey, NoRows

LEMMA MovesIsCall ==
  ASSUME Types, NEW q \in Calls,
         NEW place \in {"idle", "lookUp", "register", "markMetadata", "stream", "apply", "ended"}
  PROVE  [call[q] EXCEPT !.at = place] \in AnyCall
BY DEF Types, AnyCall

-----------------------------------------------------------------------------
LEMMA InitTypes == Init => Types
<1> SUFFICES ASSUME Init PROVE Types
  OBVIOUS
<1>1. NoSchemas \in [Ids -> Bytes \cup {NONE}] /\ NoRows \in RowsByKey
  BY DEF NoSchemas, NoRows, RowsByKey
<1>2. rows \in RowsByKey /\ schemas \in [Ids -> Bytes \cup {NONE}]
  <2>1. CASE rows = NoRows /\ schemas = NoSchemas
    BY <1>1, <2>1
  <2>2. CASE \E k \in Keys, shape \in Shapes :
               /\ rows = [NoRows EXCEPT ![k] = Row(0, NONE, shape)]
               /\ schemas = [NoSchemas EXCEPT ![shape[1]] = shape[2]]
    <3>1. \A shape \in Shapes : Row(0, NONE, shape) \in AnyRow
      BY DEF Row, AnyRow
    <3> QED BY <1>1, <2>2, <3>1, ShapeParts DEF RowsByKey
  <2> QED BY <2>1, <2>2 DEF Init
<1>3. call \in [Calls -> AnyCall] /\ \A q \in Calls : call[q].at = "idle"
  BY IdleIsCall DEF Init, Idle
<1>4. collector \in [at : {"idle", "drop", "mark"}, live : SUBSET Ids]
  BY DEF Init, Watching
<1>5. taken \subseteq Nat /\ shared \subseteq taken
  BY DEF Init
<1> QED BY <1>2, <1>3, <1>4, <1>5 DEF Init, Types

LEMMA StampsAreNumbers ==
  ASSUME NEW kind \in Kinds, NEW stamp \in StampsOf(kind)
  PROVE  stamp \in Nat \cup {NONE}
BY DEF StampsOf, Moments

LEMMA TakesTypes ==
  ASSUME Types, NEW moments \in SUBSET Nat, Takes(moments)
  PROVE  taken' \subseteq Nat /\ shared' \subseteq taken'
BY DEF Types, Takes

(* A request as its client makes it. *)
Request(kind, k, shape, stamp) ==
  [Idle EXCEPT !.at = IF kind = "delete" THEN "apply" ELSE "lookUp",
               !.kind = kind, !.key = k, !.stamp = stamp,
               !.base = IF kind = "replace" THEN rows[k] ELSE NONE,
               !.shape = IF kind = "delete" THEN NONE ELSE shape]

Calling(q, kind, k, shape, stamp) ==
  /\ kind = "replace" => rows[k] # NONE
  /\ Takes({stamp} \ {NONE})
  /\ Goes(q, Request(kind, k, shape, stamp))

LEMMA CallIsCalling ==
  ASSUME NEW q \in Calls, Call(q)
  PROVE  \E kind \in Kinds, k \in Keys, shape \in Shapes : \E stamp \in StampsOf(kind) :
           Calling(q, kind, k, shape, stamp)
BY DEF Call, Calling, Request

LEMMA RequestIsCall ==
  ASSUME Types, NEW kind \in Kinds, NEW k \in Keys, NEW shape \in Shapes,
         NEW stamp \in StampsOf(kind)
  PROVE  /\ Request(kind, k, shape, stamp) \in AnyCall
         /\ Request(kind, k, shape, stamp).key = k
         /\ Request(kind, k, shape, stamp).kind = kind
         /\ Request(kind, k, shape, stamp).stamp = stamp
         /\ Request(kind, k, shape, stamp).batch = NoRows
         /\ Request(kind, k, shape, stamp).base = IF kind = "replace" THEN rows[k] ELSE NONE
         /\ Request(kind, k, shape, stamp).at = IF kind = "delete" THEN "apply" ELSE "lookUp"
         /\ kind # "delete" => Request(kind, k, shape, stamp).shape = shape
<1> DEFINE base == IF kind = "replace" THEN rows[k] ELSE NONE
<1>1. base \in AnyRow \cup {NONE} /\ stamp \in Nat \cup {NONE}
  BY StampsAreNumbers DEF Types, RowsByKey
<1> HIDE DEF base
<1> QED BY <1>1 DEF Request, Idle, AnyCall, RowsByKey, NoRows, base

(* Types of what a call collects and of what it leaves in the table. *)
LEMMA CallTypes ==
  ASSUME Types, NEW q \in Calls, Call(q)
  PROVE  Types'
<1>1. PICK kind \in Kinds, k \in Keys, shape \in Shapes :
             \E stamp \in StampsOf(kind) : Calling(q, kind, k, shape, stamp)
  BY CallIsCalling
<1> PICK stamp \in StampsOf(kind) : Calling(q, kind, k, shape, stamp)
  BY <1>1
<1>2. Request(kind, k, shape, stamp) \in AnyCall
      /\ Request(kind, k, shape, stamp).key \in Keys
      /\ (Request(kind, k, shape, stamp).at = "lookUp" =>
            Request(kind, k, shape, stamp).shape \in Shapes)
      /\ Request(kind, k, shape, stamp).at \in {"lookUp", "apply"}
  BY <1>1, RequestIsCall
<1>3. /\ call' \in [Calls -> AnyCall]
      /\ call'[q] = Request(kind, k, shape, stamp)
      /\ \A p \in Calls : p # q => call'[p] = call[p]
  BY <1>1, <1>2, GoesOn DEF Calling
<1>4. taken' \subseteq Nat /\ shared' \subseteq taken'
  <2>1. {stamp} \ {NONE} \subseteq Nat
    BY <1>1, StampsAreNumbers
  <2> QED BY <1>1, <2>1, TakesTypes DEF Calling
<1> QED BY <1>2, <1>3, <1>4 DEF Types, Call, table, persistence

(* A call that has ended holds nothing. *)
LEMMA EndsTypes ==
  ASSUME Types, NEW q \in Calls, Ends(q)
  PROVE  /\ call' \in [Calls -> AnyCall]
         /\ call'[q] = [Idle EXCEPT !.at = "ended"]
         /\ call'[q].at = "ended" /\ call'[q].kind = NONE /\ call'[q].base = NONE
         /\ call'[q].batch = NoRows
         /\ \A p \in Calls : p # q => call'[p] = call[p]
<1>1. [Idle EXCEPT !.at = "ended"] \in AnyCall
  BY IdleIsCall
<1>2. Goes(q, [Idle EXCEPT !.at = "ended"])
  BY DEF Ends
<1>3. /\ call' \in [Calls -> AnyCall]
      /\ call'[q] = [Idle EXCEPT !.at = "ended"]
      /\ \A p \in Calls : p # q => call'[p] = call[p]
  BY <1>1, <1>2, GoesOn
<1> QED BY <1>3 DEF Idle

(* The row a call has looked the schema up for joins what it has collected. *)
Looked(q, now) == Row(StampOf(q, now), q, call[q].shape)
Looking(q, now) ==
  [call[q] EXCEPT !.at = IF schemas[IdOf(q)] = NONE THEN "register" ELSE Collected(q),
                  !.batch[call[q].key] = Looked(q, now)]

LEMMA LookingTypes ==
  ASSUME Types, NEW q \in Calls, NEW now \in Moments, At(q, "lookUp")
  PROVE  /\ Looking(q, now) \in AnyCall
         /\ Looked(q, now) \in AnyRow
         /\ Looked(q, now).shape = call[q].shape
         /\ Looked(q, now).stamp = StampOf(q, now)
         /\ Looking(q, now).at = IF schemas[IdOf(q)] = NONE THEN "register" ELSE Collected(q)
         /\ Looking(q, now).key = call[q].key /\ Looking(q, now).shape = call[q].shape
         /\ Looking(q, now).kind = call[q].kind /\ Looking(q, now).base = call[q].base
         /\ \A k \in Keys : Looking(q, now).batch[k] =
                              IF k = call[q].key THEN Looked(q, now) ELSE call[q].batch[k]
<1>1. call[q] \in AnyCall /\ call[q].key \in Keys /\ call[q].shape \in Shapes
  BY DEF Types
<1>2. StampOf(q, now) \in Nat
  BY <1>1 DEF StampOf, Types, AnyCall, Moments
<1>3. /\ Looked(q, now) \in AnyRow
      /\ Looked(q, now).shape = call[q].shape /\ Looked(q, now).stamp = StampOf(q, now)
  BY <1>1, <1>2, RowIsRow DEF Looked
<1>4. [call[q].batch EXCEPT ![call[q].key] = Looked(q, now)] \in RowsByKey
  BY <1>1, <1>3 DEF AnyCall, RowsByKey
<1>5. Collected(q) \in {"stream", "apply"}
  BY DEF Collected
<1> QED BY <1>1, <1>3, <1>4, <1>5 DEF Looking, AnyCall, RowsByKey

(* The moment is read and the schema looked up. *)
Reading(q, now) ==
  /\ Takes(IF call[q].stamp = NONE THEN {now} ELSE {})
  /\ IF schemas[IdOf(q)] \notin {NONE, BytesOf(q)}
     THEN Ends(q)
     ELSE Goes(q, Looking(q, now))

LEMMA LookUpTypes ==
  ASSUME Types, NEW q \in Calls, LookUp(q)
  PROVE  Types'
<1> PICK now \in Moments : Reading(q, now)
  BY DEF LookUp, Reading, Looking, Looked
<1>1. taken' \subseteq Nat /\ shared' \subseteq taken'
  <2>1. {now} \subseteq Nat /\ {} \subseteq Nat
    BY DEF Moments
  <2> QED BY <2>1, TakesTypes DEF Reading
<1>2. CASE schemas[IdOf(q)] \notin {NONE, BytesOf(q)}
  <2>1. Ends(q)
    BY <1>2 DEF Reading
  <2> QED BY <1>1, <2>1, EndsTypes DEF Types, LookUp, table
<1>3. CASE schemas[IdOf(q)] \in {NONE, BytesOf(q)}
  <2>1. Goes(q, Looking(q, now))
    BY <1>3 DEF Reading
  <2>2. /\ Looking(q, now) \in AnyCall
        /\ Looking(q, now).at \in {"register", "stream", "apply"}
        /\ Looking(q, now).key = call[q].key /\ Looking(q, now).shape = call[q].shape
    BY LookingTypes DEF LookUp, Collected
  <2>3. /\ call' \in [Calls -> AnyCall]
        /\ call'[q] = Looking(q, now)
        /\ \A p \in Calls : p # q => call'[p] = call[p]
    BY <2>1, <2>2, GoesOn
  <2> QED BY <1>1, <2>2, <2>3 DEF Types, LookUp, table
<1> QED BY <1>2, <1>3

(* A call that only moves takes its locals along. *)
LEMMA MovesTypes ==
  ASSUME Types, NEW q \in Calls,
         NEW place \in {"markMetadata", "stream", "apply"},
         call[q].at \in {"register", "markMetadata", "stream"},
         Moves(q, place)
  PROVE  /\ call' \in [Calls -> AnyCall]
         /\ call'[q] = [call[q] EXCEPT !.at = place]
         /\ \A p \in Calls : p # q => call'[p] = call[p]
         /\ \A p \in Calls :
              /\ call'[p].at \in {"lookUp", "register", "markMetadata", "stream"} =>
                   call'[p].key \in Keys /\ call'[p].shape \in Shapes
              /\ call'[p].at = "apply" => call'[p].key \in Keys
<1>1. [call[q] EXCEPT !.at = place] \in AnyCall
  BY MovesIsCall
<1>2. /\ call' \in [Calls -> AnyCall]
      /\ call'[q] = [call[q] EXCEPT !.at = place]
      /\ \A p \in Calls : p # q => call'[p] = call[p]
  BY <1>1, GoesOn DEF Moves
<1>3. call[q].key \in Keys /\ call[q].shape \in Shapes
  BY DEF Types
<1>4. call'[q].key \in Keys /\ call'[q].shape \in Shapes
  BY <1>2, <1>3 DEF Types, AnyCall
<1> QED BY <1>2, <1>4 DEF Types

LEMMA RegisterTypes ==
  ASSUME Types, NEW q \in Calls, Register(q)
  PROVE  Types'
<1>1. call[q].shape \in Shapes /\ BytesOf(q) \in Bytes
  BY ShapeParts DEF Types, Register, BytesOf
<1>2. schemas' \in [Ids -> Bytes \cup {NONE}]
  BY <1>1 DEF Types, Register
<1>3. \E place \in {"markMetadata", "stream", "apply"} : Moves(q, place)
  BY DEF Register, Collected
<1> QED BY <1>2, <1>3, MovesTypes DEF Types, Register

LEMMA MarkMetadataTypes ==
  ASSUME Types, NEW q \in Calls, MarkMetadata(q)
  PROVE  Types'
<1>1. \E place \in {"stream", "apply"} : Moves(q, place)
  BY DEF MarkMetadata, Collected
<1> QED BY <1>1, MovesTypes DEF Types, MarkMetadata, table

(* The next message of a stream. *)
NextMessage(q, k, shape, stamp) ==
  [call[q] EXCEPT !.at = "lookUp", !.messages = @ + 1, !.key = k, !.shape = shape,
                  !.stamp = stamp]

Going(q, k, shape, stamp) ==
  /\ stamp = NONE <=> call[q].stamp = NONE
  /\ Takes({stamp} \ {NONE})
  /\ Goes(q, NextMessage(q, k, shape, stamp))

(* A stream has ended: its rows are left. *)
Streamed(q) ==
  [Idle EXCEPT !.at = "apply", !.kind = call[q].kind, !.key = call[q].key,
               !.batch = call[q].batch]

LEMMA StreamedTypes ==
  ASSUME Types, NEW q \in Calls, At(q, "stream"), Goes(q, Streamed(q))
  PROVE  /\ call' \in [Calls -> AnyCall]
         /\ call'[q].at = "apply" /\ call'[q].kind = call[q].kind /\ call'[q].base = NONE
         /\ call'[q].key \in Keys /\ call'[q].batch = call[q].batch
         /\ \A p \in Calls : p # q => call'[p] = call[p]
<1>1. call[q] \in AnyCall /\ call[q].key \in Keys
  BY DEF Types
<1>2. /\ Streamed(q) \in AnyCall
      /\ Streamed(q).at = "apply" /\ Streamed(q).kind = call[q].kind
      /\ Streamed(q).base = NONE
      /\ Streamed(q).key = call[q].key /\ Streamed(q).batch = call[q].batch
  BY <1>1 DEF Streamed, Idle, AnyCall
<1>3. /\ call' \in [Calls -> AnyCall]
      /\ call'[q] = Streamed(q)
      /\ \A p \in Calls : p # q => call'[p] = call[p]
  BY <1>2, GoesOn
<1> QED BY <1>1, <1>2, <1>3

LEMMA MessageTypes ==
  ASSUME Types, NEW q \in Calls, Message(q)
  PROVE  Types'
<1>1. CASE \E k \in Keys, shape \in Shapes, stamp \in Moments \cup {NONE} :
               Going(q, k, shape, stamp)
  <2>1. PICK k \in Keys, shape \in Shapes, stamp \in Moments \cup {NONE} :
               Going(q, k, shape, stamp)
    BY <1>1
  <2>2. /\ NextMessage(q, k, shape, stamp) \in AnyCall
        /\ NextMessage(q, k, shape, stamp).at = "lookUp"
        /\ NextMessage(q, k, shape, stamp).key \in Keys /\ NextMessage(q, k, shape, stamp).shape \in Shapes
    <3>1. call[q] \in AnyCall /\ call[q].messages + 1 \in Nat /\ stamp \in Nat \cup {NONE}
      BY DEF Types, AnyCall, Moments
    <3> QED BY <3>1 DEF NextMessage, AnyCall
  <2>3. /\ call' \in [Calls -> AnyCall]
        /\ call'[q] = NextMessage(q, k, shape, stamp)
        /\ \A p \in Calls : p # q => call'[p] = call[p]
    BY <2>1, <2>2, GoesOn DEF Going
  <2>4. taken' \subseteq Nat /\ shared' \subseteq taken'
    <3>1. {stamp} \ {NONE} \subseteq Nat
      BY DEF Moments
    <3> QED BY <2>1, <3>1, TakesTypes DEF Going
  <2> QED BY <2>2, <2>3, <2>4 DEF Types, Message, table
<1>2. CASE Goes(q, Streamed(q)) /\ UNCHANGED stamps
  <2>1. At(q, "stream") /\ UNCHANGED <<table, collector, persistence, unclear>>
    BY DEF Message
  <2> QED BY <1>2, <2>1, StreamedTypes DEF Types, table, stamps
<1>3. CASE Ends(q) /\ UNCHANGED stamps
  BY <1>3, EndsTypes DEF Types, Message, table, stamps
<1> QED BY <1>1, <1>2, <1>3 DEF Message, Going, NextMessage, Streamed

LEMMA OutcomeType ==
  ASSUME Types, NEW q \in Calls
  PROVE  Outcome(q) \in RowsByKey
BY DEF Types, AnyCall, RowsByKey, Outcome

LEMMA ApplyTypes ==
  ASSUME Types, NEW q \in Calls, Apply(q)
  PROVE  Types'
<1>1. Ends(q) /\ UNCHANGED <<taken, shared, schemas, collector>>
  BY DEF Apply, stamps
<1>2. rows' \in RowsByKey /\ written' \in BOOLEAN
  BY OutcomeType DEF Apply, Types
<1> QED BY <1>1, <1>2, EndsTypes DEF Types

LEMMA ServerTypes ==
  ASSUME Types, Server
  PROVE  Types'
<1>1. CASE Walk
  <2>1. Named \subseteq Ids
    BY ShapeParts DEF Types, Named, RowsByKey, AnyRow
  <2>2. collector' \in [at : {"idle", "drop", "mark"}, live : SUBSET Ids]
    BY <1>1, <2>1 DEF Walk
  <2> QED BY <1>1, <2>2 DEF Types, Walk
<1>2. CASE Drop
  <2>1. Watching \in [at : {"idle", "drop", "mark"}, live : SUBSET Ids]
        /\ [Watching EXCEPT !.at = "mark"] \in [at : {"idle", "drop", "mark"}, live : SUBSET Ids]
    BY DEF Watching
  <2>2. schemas' \in [Ids -> Bytes \cup {NONE}]
    BY <1>2 DEF Drop, Types
  <2>3. collector' \in [at : {"idle", "drop", "mark"}, live : SUBSET Ids]
    BY <1>2, <2>1 DEF Drop
  <2> QED BY <1>2, <2>2, <2>3 DEF Types, Drop
<1>3. CASE MarkDropped
  BY <1>3 DEF Types, MarkDropped, table, Watching
<1>4. CASE TakeTask
  BY <1>4 DEF Types, TakeTask, table
<1>5. CASE Persist
  BY <1>5 DEF Types, Persist, table
<1> QED BY <1>1, <1>2, <1>3, <1>4, <1>5 DEF Server

LEMMA TypesKept == Types /\ [Next]_vars => Types'
<1> SUFFICES ASSUME Types, [Next]_vars PROVE Types'
  OBVIOUS
<1>1. CASE UNCHANGED vars
  BY <1>1 DEF Types, vars, table
<1>2. ASSUME NEW q \in Calls, Call(q) PROVE Types'
  BY <1>2, CallTypes
<1>3. ASSUME NEW q \in Calls, Step(q) PROVE Types'
  BY <1>3, LookUpTypes, RegisterTypes, MarkMetadataTypes, MessageTypes, ApplyTypes DEF Step
<1>4. CASE Server
  BY <1>4, ServerTypes
<1> QED BY <1>1, <1>2, <1>3, <1>4 DEF Next

-----------------------------------------------------------------------------
(* Rows are shown: what a call collects is known to the table, or becomes    *)
(* known when the call registers it, and stays known until it is dropped -   *)
(* which the collector does to no row in the table, and writes down when it  *)
(* does it to one on its way.                                                *)

Shown == RowsAreShown /\ CollectedAreKnown /\ WalkStands

LEMMA InitShown == Init => Shown
<1> SUFFICES ASSUME Init PROVE Shown
  OBVIOUS
<1>1. RowsAreShown
  <2>1. CASE rows = NoRows
    BY <2>1 DEF RowsAreShown, NoRows
  <2>2. CASE \E k \in Keys, shape \in Shapes :
               /\ rows = [NoRows EXCEPT ![k] = Row(0, NONE, shape)]
               /\ schemas = [NoSchemas EXCEPT ![shape[1]] = shape[2]]
    BY <2>2, ShapeParts DEF RowsAreShown, NoRows, NoSchemas, Row
  <2> QED BY <2>1, <2>2 DEF Init
<1>2. CollectedAreKnown
  BY IdleIsCall DEF Init, CollectedAreKnown, NoRows
<1>3. WalkStands
  BY DEF Init, WalkStands
<1> QED BY <1>1, <1>2, <1>3 DEF Shown

(* A step of a call that knows no fewer shapes, and neither collects nor     *)
(* stores, keeps everything shown.                                           *)
LEMMA NothingForgotten ==
  ASSUME Shown, UNCHANGED <<rows, written, collector>>,
         \A shape \in Shapes : Known(shape) => Known(shape)',
         Types, Types',
         \A q \in Calls, k \in Keys :
           call'[q].batch[k] # NONE =>
             \/ Known(call[q].batch[k].shape)'
             \/ call'[q].at = "register" /\ call'[q].batch[k].shape = call'[q].shape
  PROVE  Shown'
<1>1. RowsAreShown'
  <2> SUFFICES ASSUME NEW k \in Keys, rows[k] # NONE PROVE Known(rows[k].shape)'
    BY DEF RowsAreShown, Known
  <2>1. rows[k].shape \in Shapes
    BY DEF Types, RowsByKey, AnyRow
  <2>2. Known(rows[k].shape)
    BY DEF Shown, RowsAreShown, Known
  <2> QED BY <2>1, <2>2
<1>2. CollectedAreKnown'
  BY DEF CollectedAreKnown, Known
<1>3. WalkStands'
  BY DEF Shown, WalkStands, Named
<1> QED BY <1>1, <1>2, <1>3 DEF Shown

(* The same when the schemas stay as they are and one call is left with what *)
(* it had, or with nothing.                                                  *)
LEMMA NothingCollected ==
  ASSUME Shown, Types, Types', NEW q \in Calls,
         UNCHANGED <<rows, written, collector, schemas, unclear>>,
         \A p \in Calls : p # q => call'[p] = call[p],
         call'[q].batch \in {call[q].batch, NoRows},
         call'[q].batch # NoRows => call[q].at # "register"
  PROVE  Shown'
<1>1. \A shape \in Shapes : Known(shape) => Known(shape)'
  BY DEF Known
<1>2. ASSUME NEW p \in Calls, NEW k \in Keys, call'[p].batch[k] # NONE
      PROVE  \/ Known(call[p].batch[k].shape)'
             \/ call'[p].at = "register" /\ call'[p].batch[k].shape = call'[p].shape
  <2>1. CASE p # q
    BY <1>2, <2>1 DEF Shown, CollectedAreKnown, Known
  <2>2. CASE p = q
    <3>1. call'[q].batch = call[q].batch /\ call[q].at # "register"
      BY <1>2, <2>2 DEF NoRows
    <3> QED BY <1>2, <2>2, <3>1 DEF Shown, CollectedAreKnown, Known
  <2> QED BY <2>1, <2>2
<1> QED BY <1>1, <1>2, NothingForgotten

LEMMA CallShown ==
  ASSUME Shown, Types, Types', NEW q \in Calls, Call(q)
  PROVE  Shown'
<1>1. PICK kind \in Kinds, k \in Keys, shape \in Shapes :
             \E stamp \in StampsOf(kind) : Calling(q, kind, k, shape, stamp)
  BY CallIsCalling
<1>2. PICK stamp \in StampsOf(kind) : Calling(q, kind, k, shape, stamp)
  BY <1>1
<1>3. call'[q].batch = NoRows /\ \A p \in Calls : p # q => call'[p] = call[p]
  BY <1>2, RequestIsCall, GoesOn DEF Calling
<1>4. UNCHANGED <<rows, written, collector, schemas, unclear>> /\ call[q].at = "idle"
  BY DEF Call, table
<1> QED BY <1>3, <1>4, NothingCollected

LEMMA LookUpShown ==
  ASSUME Shown, Types, Types', NEW q \in Calls, LookUp(q)
  PROVE  Shown'
<1> PICK now \in Moments : Reading(q, now)
  BY DEF LookUp, Reading, Looking, Looked
<1>1. UNCHANGED <<rows, written, collector, schemas, unclear>>
  BY DEF LookUp, table
<1>2. CASE schemas[IdOf(q)] \notin {NONE, BytesOf(q)}
  <2>1. Ends(q)
    BY <1>2 DEF Reading
  <2> QED BY <1>1, <2>1, EndsTypes, NothingCollected
<1>3. CASE schemas[IdOf(q)] \in {NONE, BytesOf(q)}
  <2>1. Goes(q, Looking(q, now))
    BY <1>3 DEF Reading
  <2>2. /\ call'[q] = Looking(q, now)
        /\ \A p \in Calls : p # q => call'[p] = call[p]
    BY <2>1, LookingTypes, GoesOn DEF LookUp
  <2>3. \A shape \in Shapes : Known(shape) => Known(shape)'
    BY <1>1 DEF Known
  <2>4. ASSUME NEW p \in Calls, NEW k \in Keys, call'[p].batch[k] # NONE
        PROVE  \/ Known(call[p].batch[k].shape)'
               \/ call'[p].at = "register" /\ call'[p].batch[k].shape = call'[p].shape
    <3>1. CASE p # q \/ k # call[q].key
      <4>1. call'[p].batch[k] = call[p].batch[k]
        BY <2>2, <3>1, LookingTypes DEF LookUp
      <4>2. \/ Known(call[p].batch[k].shape)
            \/ call[p].at = "register" /\ call[p].batch[k].shape = call[p].shape
        BY <2>4, <4>1 DEF Shown, CollectedAreKnown
      <4>3. CASE p = q
        BY <1>1, <4>1, <4>2, <4>3 DEF LookUp, Known
      <4>4. CASE p # q
        BY <1>1, <2>2, <4>1, <4>2, <4>4 DEF Known
      <4> QED BY <4>3, <4>4
    <3>2. CASE p = q /\ k = call[q].key
      <4>1. call'[q].batch[k].shape = call[q].shape
            /\ call'[q].shape = call[q].shape
            /\ call'[q].at = IF schemas[IdOf(q)] = NONE THEN "register" ELSE Collected(q)
        BY <2>2, <3>2, LookingTypes DEF LookUp
      <4>2. CASE schemas[IdOf(q)] = NONE
        BY <3>2, <4>1, <4>2
      <4>3. CASE schemas[IdOf(q)] = BytesOf(q)
        BY <1>1, <3>2, <4>1, <4>3 DEF Known, IdOf, BytesOf
      <4> QED BY <1>3, <4>2, <4>3
    <3> QED BY <3>1, <3>2
  <2> QED BY <1>1, <2>3, <2>4, NothingForgotten
<1> QED BY <1>2, <1>3

(* Registering overwrites no schema; where it finds another one, the id      *)
(* becomes unclear.                                                          *)
LEMMA RegisterShown ==
  ASSUME Shown, Types, Types', NEW q \in Calls, Register(q)
  PROVE  Shown'
<1>1. call[q].shape \in Shapes /\ IdOf(q) \in Ids /\ BytesOf(q) # NONE
  BY ShapeParts DEF Types, Register, IdOf, BytesOf
<1>2. \A shape \in Shapes : Known(shape) => Known(shape)'
  <2> SUFFICES ASSUME NEW shape \in Shapes, Known(shape) PROVE Known(shape)'
    OBVIOUS
  <2>1. shape[1] \in Ids /\ shape[2] # NONE
    BY ShapeParts
  <2>2. unclear \subseteq unclear'
    BY DEF Register
  <2>3. schemas[shape[1]] # NONE => schemas'[shape[1]] = schemas[shape[1]]
    BY <2>1 DEF Register, Types
  <2> QED BY <2>1, <2>2, <2>3 DEF Known
<1>3. Known(call[q].shape)'
  <2>1. call'[q].shape = call[q].shape
    <3>1. \E place \in {"markMetadata", "stream", "apply"} : Moves(q, place)
      BY DEF Register, Collected
    <3>2. call[q].at \in {"register", "markMetadata", "stream"}
      BY DEF Register
    <3> QED BY <3>1, <3>2, MovesTypes DEF Types, AnyCall
  <2>2. CASE schemas[IdOf(q)] = NONE
    <3>1. schemas'[IdOf(q)] = BytesOf(q)
      BY <1>1, <2>2 DEF Register, Types
    <3> QED BY <2>1, <3>1 DEF Known, IdOf, BytesOf
  <2>3. CASE schemas[IdOf(q)] # NONE
    BY <2>1, <2>3 DEF Register, Known, IdOf, BytesOf
  <2> QED BY <2>2, <2>3
<1>4. ASSUME NEW p \in Calls, NEW k \in Keys, call'[p].batch[k] # NONE
      PROVE  \/ Known(call[p].batch[k].shape)'
             \/ call'[p].at = "register" /\ call'[p].batch[k].shape = call'[p].shape
  <2>1. PICK place \in {"markMetadata", "stream", "apply"} : Moves(q, place)
    BY DEF Register, Collected
  <2>2. call[q].at \in {"register", "markMetadata", "stream"}
    BY DEF Register
  <2>3. /\ call'[q] = [call[q] EXCEPT !.at = place]
        /\ \A r \in Calls : r # q => call'[r] = call[r]
    BY <2>1, <2>2, MovesTypes
  <2>4. call'[p].batch = call[p].batch /\ call'[p].shape = call[p].shape
        /\ (p # q => call'[p].at = call[p].at)
    BY <2>3 DEF Types, AnyCall
  <2>5. call[p].batch[k].shape \in Shapes
    BY <1>4, <2>4 DEF Types, AnyCall, RowsByKey, AnyRow
  <2>6. CASE Known(call[p].batch[k].shape)
    <3>1. Known(call[p].batch[k].shape) => Known(call[p].batch[k].shape)'
      <4> DEFINE shape == call[p].batch[k].shape
      <4>1. shape[1] \in Ids /\ shape[2] # NONE
        BY <2>5, ShapeParts
      <4>2. shape' = shape
        BY <2>4
      <4>3. unclear \subseteq unclear'
        BY DEF Register
      <4>4. schemas[shape[1]] # NONE => schemas'[shape[1]] = schemas[shape[1]]
        BY <4>1 DEF Register, Types
      <4> HIDE DEF shape
      <4>5. Known(shape) => Known(shape)'
        BY <4>1, <4>2, <4>3, <4>4 DEF Known
      <4> QED BY <4>5 DEF shape
    <3> QED BY <2>6, <3>1
  <2>7. CASE call[p].at = "register" /\ call[p].batch[k].shape = call[p].shape
    <3>1. CASE p = q
      <4>1. call'[p].batch[k].shape = call'[q].shape
        BY <2>4, <2>7, <3>1
      <4> QED BY <1>3, <4>1 DEF Known
    <3>2. CASE p # q
      BY <2>4, <2>7, <3>2
    <3> QED BY <3>1, <3>2
  <2> QED BY <1>4, <2>4, <2>6, <2>7 DEF Shown, CollectedAreKnown
<1> QED BY <1>2, <1>4, NothingForgotten DEF Register

LEMMA MarkMetadataShown ==
  ASSUME Shown, Types, Types', NEW q \in Calls, MarkMetadata(q)
  PROVE  Shown'
<1>1. PICK place \in {"stream", "apply"} : Moves(q, place)
  BY DEF MarkMetadata, Collected
<1>2. call[q].at = "markMetadata" /\ UNCHANGED <<rows, written, collector, schemas, unclear>>
  BY DEF MarkMetadata, table
<1>3. /\ call'[q] = [call[q] EXCEPT !.at = place]
      /\ \A r \in Calls : r # q => call'[r] = call[r]
  BY <1>1, <1>2, MovesTypes
<1>4. call'[q].batch = call[q].batch
  BY <1>3 DEF Types, AnyCall
<1> QED BY <1>2, <1>3, <1>4, NothingCollected

LEMMA MessageShown ==
  ASSUME Shown, Types, Types', NEW q \in Calls, Message(q)
  PROVE  Shown'
<1>1. call[q].at = "stream" /\ UNCHANGED <<rows, written, collector, schemas, unclear>>
  BY DEF Message, table
<1>2. \A r \in Calls : r # q => call'[r] = call[r]
  BY DEF Message, Goes, Moves, Ends, Types
<1>3. call'[q].batch \in {call[q].batch, NoRows}
  <2>1. CASE \E k \in Keys, shape \in Shapes, stamp \in Moments \cup {NONE} :
               Goes(q, NextMessage(q, k, shape, stamp))
    BY <2>1 DEF Goes, NextMessage, Types, AnyCall
  <2>2. CASE Goes(q, Streamed(q))
    BY <1>1, <2>2, StreamedTypes
  <2>3. CASE Ends(q)
    BY <2>3, EndsTypes
  <2> QED BY <2>1, <2>2, <2>3 DEF Message, NextMessage, Streamed
<1> QED BY <1>1, <1>2, <1>3, NothingCollected

(* What is stored is what was there, or what the call has collected.         *)
LEMMA ApplyShown ==
  ASSUME Shown, Types, Types', NEW q \in Calls, Apply(q)
  PROVE  Shown'
<1>1. call[q].at = "apply" /\ Ends(q) /\ UNCHANGED <<schemas, collector, unclear>>
  BY DEF Apply
<1>2. /\ call'[q].batch = NoRows
      /\ \A r \in Calls : r # q => call'[r] = call[r]
  BY <1>1, EndsTypes
<1>3. RowsAreShown'
  <2> SUFFICES ASSUME NEW k \in Keys, rows'[k] # NONE PROVE Known(rows[k].shape)'
    BY DEF RowsAreShown, Known
  <2>1. rows'[k] \in {rows[k], call[q].batch[k]}
    BY DEF Apply, Outcome
  <2>2. CASE rows'[k] = rows[k]
    BY <1>1, <2>2 DEF Shown, RowsAreShown, Known
  <2>3. CASE rows'[k] = call[q].batch[k]
    <3>1. Known(call[q].batch[k].shape)
      BY <1>1, <2>3 DEF Shown, CollectedAreKnown
    <3> QED BY <1>1, <2>3, <3>1 DEF Known
  <2> QED BY <2>1, <2>2, <2>3
<1>4. CollectedAreKnown'
  <2> SUFFICES ASSUME NEW p \in Calls, NEW k \in Keys, call'[p].batch[k] # NONE
               PROVE  \/ Known(call[p].batch[k].shape)'
                      \/ call'[p].at = "register" /\ call'[p].batch[k].shape = call'[p].shape
    BY DEF CollectedAreKnown
  <2>1. p # q
    BY <1>2 DEF NoRows
  <2>2. call'[p] = call[p]
    BY <1>2, <2>1
  <2> QED BY <1>1, <2>2 DEF Shown, CollectedAreKnown, Known
<1>5. WalkStands'
  BY <1>1 DEF Shown, WalkStands, Apply, Named
<1> QED BY <1>3, <1>4, <1>5 DEF Shown

(* Of the schemas it drops, none is of a row in the table, and those of rows *)
(* on their way become unclear.                                              *)
LEMMA DropShown ==
  ASSUME Shown, Types, Types', Drop
  PROVE  Shown'
<1> DEFINE dead == Registered \ Survivors(collector.live)
<1>1. UNCHANGED <<rows, written, call>> /\ collector.at = "drop" /\ collector'.at # "drop"
  BY DEF Drop, Watching
<1>2. WalkStands'
  BY <1>1 DEF WalkStands
<1>3. CASE UNCHANGED <<schemas, unclear>>
  BY <1>1, <1>2, <1>3 DEF Shown, RowsAreShown, CollectedAreKnown, Known
<1>4. CASE /\ ~written
           /\ schemas' = [i \in Ids |-> IF i \in dead THEN NONE ELSE schemas[i]]
           /\ unclear' = unclear \cup (dead \cap InFlight)
  <2>1. dead \cap collector.live = {}
    BY DEF Survivors, Registered
  <2>2. Named \subseteq collector.live
    BY <1>1, <1>4 DEF Shown, WalkStands
  <2> HIDE DEF dead
  <2>3. RowsAreShown'
    <3> SUFFICES ASSUME NEW k \in Keys, rows[k] # NONE PROVE Known(rows[k].shape)'
      BY <1>1 DEF RowsAreShown, Known
    <3>1. rows[k].shape[1] \in Named /\ rows[k].shape[1] \in Ids
      BY ShapeParts DEF Named, Types, RowsByKey, AnyRow
    <3>2. schemas'[rows[k].shape[1]] = schemas[rows[k].shape[1]]
      BY <1>4, <2>1, <2>2, <3>1
    <3> QED BY <1>1, <1>4, <3>2 DEF Shown, RowsAreShown, Known
  <2>4. CollectedAreKnown'
    <3> SUFFICES ASSUME NEW q \in Calls, NEW k \in Keys, call[q].batch[k] # NONE
                 PROVE  \/ Known(call[q].batch[k].shape)'
                        \/ call[q].at = "register" /\ call[q].batch[k].shape = call[q].shape
      BY <1>1 DEF CollectedAreKnown, Known
    <3>1. call[q].batch[k].shape \in Shapes /\ call[q].batch[k].shape[1] \in Ids
      BY ShapeParts DEF Types, AnyCall, RowsByKey, AnyRow
    <3>2. call[q].batch[k].shape[1] \in InFlight
      <4>1. call[q].batch[k].shape[1] \in Counted(q)
        BY DEF Counted
      <4> QED BY <4>1 DEF InFlight
    <3>3. CASE call[q].batch[k].shape[1] \in dead
      BY <1>1, <1>4, <3>2, <3>3 DEF Known
    <3>4. CASE call[q].batch[k].shape[1] \notin dead
      BY <1>1, <1>4, <3>1, <3>4 DEF Shown, CollectedAreKnown, Known
    <3> QED BY <3>3, <3>4
  <2> QED BY <1>2, <2>3, <2>4 DEF Shown
<1> QED BY <1>3, <1>4 DEF Drop

LEMMA ServerShown ==
  ASSUME Shown, Types, Types', Server
  PROVE  Shown'
<1>1. CASE Walk
  BY <1>1 DEF Walk, Shown, RowsAreShown, CollectedAreKnown, Known, WalkStands, Named
<1>2. CASE Drop
  BY <1>2, DropShown
<1>3. CASE MarkDropped
  BY <1>3 DEF MarkDropped, table, Watching, Shown, RowsAreShown, CollectedAreKnown, Known,
              WalkStands, Named
<1>4. CASE TakeTask
  BY <1>4 DEF TakeTask, table, Shown, RowsAreShown, CollectedAreKnown, Known, WalkStands, Named
<1>5. CASE Persist
  BY <1>5 DEF Persist, table, Shown, RowsAreShown, CollectedAreKnown, Known, WalkStands, Named
<1> QED BY <1>1, <1>2, <1>3, <1>4, <1>5 DEF Server

LEMMA ShownKept == Types /\ Types' /\ Shown /\ [Next]_vars => Shown'
<1> SUFFICES ASSUME Types, Types', Shown, [Next]_vars PROVE Shown'
  OBVIOUS
<1>1. CASE UNCHANGED vars
  BY <1>1 DEF vars, table, Shown, RowsAreShown, CollectedAreKnown, Known, WalkStands, Named
<1>2. ASSUME NEW q \in Calls, Call(q) PROVE Shown'
  BY <1>2, CallShown
<1>3. ASSUME NEW q \in Calls, Step(q) PROVE Shown'
  BY <1>3, LookUpShown, RegisterShown, MarkMetadataShown, MessageShown, ApplyShown DEF Step
<1>4. CASE Server
  BY <1>4, ServerShown
<1> QED BY <1>1, <1>2, <1>3, <1>4 DEF Next

-----------------------------------------------------------------------------
(* What the disk is owed of the schemas. *)

LEMMA OwedKept == Types /\ SchemasOwedOrDurable /\ [Next]_vars => SchemasOwedOrDurable'
<1> SUFFICES ASSUME Types, SchemasOwedOrDurable, [Next]_vars PROVE SchemasOwedOrDurable'
  OBVIOUS
<1>1. CASE UNCHANGED vars
  BY <1>1 DEF vars, table, persistence, SchemasOwedOrDurable
<1>2. ASSUME NEW q \in Calls, Call(q) \/ LookUp(q) \/ Message(q) \/ Apply(q)
      PROVE  SchemasOwedOrDurable'
  <2>1. UNCHANGED <<schemas, persistence, collector>>
    BY <1>2 DEF Call, LookUp, Message, Apply, table
  <2>2. call[q].at # "markMetadata"
    BY <1>2 DEF Call, LookUp, Message, Apply
  <2>3. \A p \in Calls : p # q => call'[p] = call[p]
    BY <1>2 DEF Call, LookUp, Message, Apply, Goes, Moves, Ends, Types
  <2> QED BY <2>1, <2>2, <2>3 DEF SchemasOwedOrDurable, persistence
<1>3. ASSUME NEW q \in Calls, Register(q) PROVE SchemasOwedOrDurable'
  <2>1. /\ \A p \in Calls : p # q => call'[p] = call[p]
        /\ call[q].at = "register"
        /\ UNCHANGED <<persistence, collector>>
    BY <1>3 DEF Register, Goes, Moves, Types
  <2>2. CASE schemas[IdOf(q)] = NONE
    <3>1. Moves(q, "markMetadata")
      BY <1>3, <2>2 DEF Register
    <3>2. call'[q].at = "markMetadata"
      BY <3>1 DEF Moves, Goes, Types, AnyCall
    <3> QED BY <3>2 DEF SchemasOwedOrDurable
  <2>3. CASE schemas[IdOf(q)] # NONE
    <3>1. UNCHANGED schemas
      BY <1>3, <2>3 DEF Register
    <3> QED BY <2>1, <3>1 DEF SchemasOwedOrDurable, persistence
  <2> QED BY <2>2, <2>3
<1>4. ASSUME NEW q \in Calls, MarkMetadata(q) PROVE SchemasOwedOrDurable'
  BY <1>4 DEF MarkMetadata, SchemasOwedOrDurable
<1>5. CASE Walk
  BY <1>5 DEF Walk, SchemasOwedOrDurable, persistence
<1>6. CASE Drop
  <2>1. CASE UNCHANGED schemas
    BY <1>6, <2>1 DEF Drop, SchemasOwedOrDurable, persistence
  <2>2. CASE collector' = [Watching EXCEPT !.at = "mark"]
    BY <2>2 DEF Watching, SchemasOwedOrDurable
  <2> QED BY <1>6, <2>1, <2>2 DEF Drop
<1>7. CASE MarkDropped
  BY <1>7 DEF MarkDropped, SchemasOwedOrDurable
<1>8. CASE TakeTask
  BY <1>8 DEF TakeTask, SchemasOwedOrDurable
<1>9. CASE Persist
  BY <1>9 DEF Persist, SchemasOwedOrDurable, table
<1> QED BY <1>1, <1>2, <1>3, <1>4, <1>5, <1>6, <1>7, <1>8, <1>9 DEF Next, Step, Server

-----------------------------------------------------------------------------
(* Stamps: a row that is made is given a moment, by the clock of the server  *)
(* or by its client, and keeps it; if the moment came up once, no other row  *)
(* has it.                                                                   *)

Told == StampsTellRows /\ StampsAreReserved /\ KindsFit

LEMMA InitTold == Init => Told
<1> SUFFICES ASSUME Init PROVE Told
  OBVIOUS
<1>1. \A q \in Calls : call[q].at = "idle" /\ call[q].kind = NONE /\ call[q].base = NONE
                       /\ call[q].batch = NoRows
  BY DEF Init, Idle
<1>2. \A k \in Keys : rows[k] # NONE =>
         \E key \in Keys, shape \in Shapes : k = key /\ rows = [NoRows EXCEPT ![key] = Row(0, NONE, shape)]
  BY DEF Init, NoRows
<1>3. \A v \in Versions : \E k \in Keys : v = rows[k] /\ rows[k] # NONE
  BY <1>1 DEF Versions, NoRows
<1>4. \A v, w \in Versions : v = w /\ v.stamp = 0
  <2> SUFFICES ASSUME NEW v \in Versions, NEW w \in Versions PROVE v = w /\ v.stamp = 0
    OBVIOUS
  <2>1. PICK k \in Keys : v = rows[k] /\ rows[k] # NONE
    BY <1>3
  <2>2. PICK j \in Keys : w = rows[j] /\ rows[j] # NONE
    BY <1>3
  <2>3. PICK shape \in Shapes : rows = [NoRows EXCEPT ![k] = Row(0, NONE, shape)]
    BY <1>2, <2>1
  <2>4. j = k
    BY <2>2, <2>3 DEF NoRows
  <2> QED BY <2>1, <2>2, <2>3, <2>4 DEF NoRows, Row
<1>5. StampsTellRows
  BY <1>4 DEF StampsTellRows, Init
<1>6. StampsAreReserved /\ KindsFit
  BY <1>1, NoneAssumption DEF StampsAreReserved, Stamped, KindsFit, Kinds
<1> QED BY <1>5, <1>6 DEF Told

Grows == taken \subseteq taken' /\ shared \subseteq shared'

LEMMA TakesGrows ==
  ASSUME NEW moments, Takes(moments)
  PROVE  Grows
BY DEF Takes, Grows

(* Nothing new is made and nothing is reserved. *)
LEMMA NothingMade ==
  ASSUME Told, Types, Types', Versions' \subseteq Versions, Grows,
         \A q \in Calls : Stamped(q)' => Stamped(q) /\ call'[q].stamp = call[q].stamp,
         KindsFit'
  PROVE  Told'
<1>1. StampsTellRows'
  BY DEF Told, StampsTellRows, Grows
<1>2. StampsAreReserved'
  <2> SUFFICES ASSUME NEW q \in Calls, Stamped(q)'
               PROVE  /\ call'[q].stamp \in taken'
                      /\ call'[q].stamp \in shared'
                         \/ /\ \A v \in Versions' : v.stamp # call'[q].stamp
                            /\ \A p \in Calls \ {q} :
                                 Stamped(p)' => call'[p].stamp # call'[q].stamp
    BY DEF StampsAreReserved
  <2>1. Stamped(q) /\ call'[q].stamp = call[q].stamp
    OBVIOUS
  <2> QED BY <2>1 DEF Told, StampsAreReserved, Grows
<1> QED BY <1>1, <1>2 DEF Told

(* What a step of one call that keeps what it had, or forgets it, leaves.    *)
LEMMA VersionsKept ==
  ASSUME NEW q \in Calls,
         \A p \in Calls : p # q => call'[p] = call[p],
         \A k \in Keys : rows'[k] \in {rows[k], call[q].batch[k], NONE},
         call'[q].base \in Versions \cup {NONE},
         call'[q].batch \in {call[q].batch, NoRows}
  PROVE  Versions' \subseteq Versions
<1> SUFFICES ASSUME NEW v, v \in Versions' PROVE v \in Versions
  OBVIOUS
<1>1. v # NONE
  BY DEF Versions
<1>2. CASE \E k \in Keys : v = rows'[k]
  BY <1>1, <1>2 DEF Versions
<1>3. CASE \E p \in Calls : v = call'[p].base
  BY <1>1, <1>3 DEF Versions
<1>4. CASE \E p \in Calls, k \in Keys : v = call'[p].batch[k]
  BY <1>1, <1>4 DEF Versions, NoRows
<1> QED BY <1>2, <1>3, <1>4 DEF Versions

LEMMA NothingMadeBy ==
  ASSUME Told, Types, Types', NEW q \in Calls, Grows,
         \A p \in Calls : p # q => call'[p] = call[p],
         \A k \in Keys : rows'[k] \in {rows[k], call[q].batch[k], NONE},
         call'[q].base \in Versions \cup {NONE},
         call'[q].batch \in {call[q].batch, NoRows},
         ~ Stamped(q)',
         call'[q].kind = "replace" => call'[q].base # NONE,
         call'[q].at = "stream" => call'[q].kind \in Bulk
  PROVE  Told'
<1>1. Versions' \subseteq Versions
  BY VersionsKept
<1>2. \A p \in Calls : Stamped(p)' => Stamped(p) /\ call'[p].stamp = call[p].stamp
  BY DEF Stamped
<1>3. KindsFit'
  BY DEF Told, KindsFit
<1> QED BY <1>1, <1>2, <1>3, NothingMade

LEMMA EndsTold ==
  ASSUME Told, Types, Types', NEW q \in Calls, Ends(q), Grows,
         \A k \in Keys : rows'[k] \in {rows[k], call[q].batch[k], NONE}
  PROVE  Told'
<1>1. NONE \notin Kinds
  BY NoneAssumption
<1> QED BY <1>1, EndsTypes, NothingMadeBy DEF Stamped, Kinds

(* A client sends a stamp: one that came up before is shared from then on,   *)
(* and one that did not is on no row yet.                                    *)
LEMMA StampSent ==
  ASSUME Told, Types, Types', NEW q \in Calls, NEW stamp, Takes({stamp}),
         \A p \in Calls : p # q => call'[p] = call[p],
         rows' = rows,
         call'[q].base \in Versions \cup {NONE},
         call'[q].batch \in {call[q].batch, NoRows},
         call'[q].stamp = stamp,
         call'[q].kind = "replace" => call'[q].base # NONE,
         call'[q].at # "stream"
  PROVE  Told'
<1>1. Versions' \subseteq Versions
  BY VersionsKept
<1>2. /\ taken' = taken \cup {stamp}
      /\ shared \subseteq shared'
      /\ stamp \in taken => stamp \in shared'
  BY DEF Takes
<1>3. StampsTellRows'
  BY <1>1, <1>2 DEF Told, StampsTellRows
<1>4. \A v \in Versions' : v.stamp \in taken
  BY <1>1 DEF Told, StampsTellRows
<1>5. \A p \in Calls : p # q /\ Stamped(p)' =>
        Stamped(p) /\ call'[p].stamp = call[p].stamp /\ call[p].stamp \in taken
  BY DEF Told, StampsAreReserved, Stamped
<1>6. StampsAreReserved'
  <2> SUFFICES ASSUME NEW r \in Calls, Stamped(r)', call'[r].stamp \notin shared'
               PROVE  /\ \A v \in Versions' : v.stamp # call'[r].stamp
                      /\ \A p \in Calls \ {r} : Stamped(p)' => call'[p].stamp # call'[r].stamp
    BY <1>2, <1>5 DEF StampsAreReserved
  <2>1. CASE r = q
    BY <1>2, <1>4, <1>5, <2>1
  <2>2. CASE r # q
    <3>1. Stamped(r) /\ call'[r].stamp = call[r].stamp /\ call[r].stamp \notin shared
      BY <1>2, <1>5, <2>2
    <3>2. \A v \in Versions' : v.stamp # call'[r].stamp
      BY <1>1, <3>1 DEF Told, StampsAreReserved
    <3>3. ASSUME NEW p \in Calls \ {r}, Stamped(p)' PROVE call'[p].stamp # call'[r].stamp
      <4>1. CASE p = q
        BY <1>2, <1>5, <2>2, <4>1
      <4>2. CASE p # q
        BY <1>5, <3>1, <3>3, <4>2 DEF Told, StampsAreReserved
      <4> QED BY <4>1, <4>2
    <3> QED BY <3>2, <3>3
  <2> QED BY <2>1, <2>2
<1>7. KindsFit'
  BY DEF Told, KindsFit
<1> QED BY <1>3, <1>6, <1>7 DEF Told

LEMMA CallTold ==
  ASSUME Told, Types, Types', NEW q \in Calls, Call(q)
  PROVE  Told'
<1>1. PICK kind \in Kinds, k \in Keys, shape \in Shapes :
             \E stamp \in StampsOf(kind) : Calling(q, kind, k, shape, stamp)
  BY CallIsCalling
<1> PICK stamp \in StampsOf(kind) : Calling(q, kind, k, shape, stamp)
  BY <1>1
<1>2. /\ \A p \in Calls : p # q => call'[p] = call[p]
      /\ call'[q].kind = kind /\ call'[q].batch = NoRows /\ call'[q].stamp = stamp
      /\ call'[q].base = IF kind = "replace" THEN rows[k] ELSE NONE
      /\ call'[q].at \in {"lookUp", "apply"}
  BY <1>1, RequestIsCall, GoesOn DEF Calling
<1>3. rows' = rows
  BY DEF Call, table
<1>4. call'[q].base \in Versions \cup {NONE} /\ (kind = "replace" => call'[q].base # NONE)
  BY <1>1, <1>2 DEF Versions, Calling
<1>5. Takes({stamp} \ {NONE})
  BY <1>1 DEF Calling
<1>6. CASE stamp = NONE
  BY <1>2, <1>3, <1>4, <1>5, <1>6, TakesGrows, NothingMadeBy DEF Stamped
<1>7. CASE stamp # NONE
  <2>1. Takes({stamp})
    <3>1. {stamp} \ {NONE} = {stamp}
      BY <1>7
    <3> QED BY <1>5, <3>1
  <2> QED BY <1>2, <1>3, <1>4, <2>1, StampSent
<1> QED BY <1>6, <1>7

(* The one step that makes a row.                                            *)
LEMMA LookUpTold ==
  ASSUME Told, Types, Types', NEW q \in Calls, LookUp(q)
  PROVE  Told'
<1> PICK now \in Moments : Reading(q, now)
  BY DEF LookUp, Reading, Looking, Looked
<1>1. call[q].at = "lookUp" /\ rows' = rows /\ Grows
  BY TakesGrows DEF LookUp, table, Reading
<1>2. CASE schemas[IdOf(q)] \notin {NONE, BytesOf(q)}
  <2>1. Ends(q)
    BY <1>2 DEF Reading
  <2> QED BY <1>1, <2>1, EndsTold
<1>3. CASE schemas[IdOf(q)] \in {NONE, BytesOf(q)}
  <2>1. Goes(q, Looking(q, now))
    BY <1>3 DEF Reading
  <2>2. /\ call'[q] = Looking(q, now)
        /\ \A p \in Calls : p # q => call'[p] = call[p]
    BY <1>1, <2>1, LookingTypes, GoesOn
  <2>3. /\ call'[q].kind = call[q].kind /\ call'[q].base = call[q].base
        /\ call'[q].at = IF schemas[IdOf(q)] = NONE THEN "register" ELSE Collected(q)
        /\ \A k \in Keys : call'[q].batch[k] \in {call[q].batch[k], Looked(q, now)}
        /\ Looked(q, now).stamp = StampOf(q, now)
    BY <1>1, <2>2, LookingTypes
  <2>4. Versions' \subseteq Versions \cup {Looked(q, now)}
    <3> SUFFICES ASSUME NEW v, v \in Versions', v # Looked(q, now) PROVE v \in Versions
      OBVIOUS
    <3>1. v # NONE
      BY DEF Versions
    <3>2. CASE \E k \in Keys : v = rows'[k]
      BY <1>1, <3>1, <3>2 DEF Versions
    <3>3. CASE \E p \in Calls : v = call'[p].base
      BY <2>2, <2>3, <3>1, <3>3 DEF Versions
    <3>4. CASE \E p \in Calls, k \in Keys : v = call'[p].batch[k]
      BY <2>2, <2>3, <3>1, <3>4 DEF Versions
    <3> QED BY <3>2, <3>3, <3>4 DEF Versions
  <2> DEFINE stamp == StampOf(q, now)
  <2>5. /\ stamp \in taken'
        /\ stamp \in shared'
           \/ /\ \A v \in Versions : v.stamp # stamp
              /\ \A p \in Calls : p # q /\ Stamped(p) => call[p].stamp # stamp
    <3>1. CASE call[q].stamp # NONE
      <4>1. Stamped(q) /\ stamp = call[q].stamp
        BY <1>1, <3>1 DEF Stamped, StampOf
      <4> QED BY <1>1, <4>1 DEF Told, StampsAreReserved, Grows
    <3>2. CASE call[q].stamp = NONE
      <4>1. stamp = now /\ Takes({now})
        BY <3>2 DEF StampOf, Reading
      <4>2. now \in taken' /\ (now \in taken => now \in shared')
        BY <4>1 DEF Takes
      <4>3. \A v \in Versions : v.stamp \in taken
        BY DEF Told, StampsTellRows
      <4>4. \A p \in Calls : Stamped(p) => call[p].stamp \in taken
        BY DEF Told, StampsAreReserved
      <4> HIDE DEF stamp
      <4> QED BY <4>1, <4>2, <4>3, <4>4
    <3> QED BY <3>1, <3>2
  <2>6. Looked(q, now).stamp = stamp
    BY <2>3
  <2> HIDE DEF stamp
  <2>7. ~ Stamped(q)' /\ \A p \in Calls : Stamped(p)' =>
          p # q /\ Stamped(p) /\ call'[p].stamp = call[p].stamp
    BY <2>2, <2>3 DEF Stamped, Collected
  <2>8. StampsTellRows'
    <3>1. \A v \in Versions' : v.stamp \in taken'
      BY <1>1, <2>4, <2>5, <2>6 DEF Told, StampsTellRows, Grows
    <3>2. ASSUME NEW v \in Versions', NEW w \in Versions', v.stamp = w.stamp
          PROVE  v = w \/ v.stamp \in shared'
      <4>1. CASE v \in Versions /\ w \in Versions
        BY <1>1, <3>2, <4>1 DEF Told, StampsTellRows, Grows
      <4>2. CASE v = Looked(q, now) \/ w = Looked(q, now)
        BY <2>4, <2>5, <2>6, <3>2, <4>2
      <4> QED BY <2>4, <4>1, <4>2
    <3> QED BY <3>1, <3>2 DEF StampsTellRows
  <2>9. StampsAreReserved'
    <3> SUFFICES ASSUME NEW r \in Calls, Stamped(r)'
                 PROVE  /\ call'[r].stamp \in taken'
                        /\ call'[r].stamp \in shared'
                           \/ /\ \A v \in Versions' : v.stamp # call'[r].stamp
                              /\ \A p \in Calls \ {r} :
                                   Stamped(p)' => call'[p].stamp # call'[r].stamp
      BY DEF StampsAreReserved
    <3>1. r # q /\ Stamped(r) /\ call'[r].stamp = call[r].stamp
      BY <2>7
    <3>2. call[r].stamp \in taken'
      BY <1>1, <3>1 DEF Told, StampsAreReserved, Grows
    <3>3. ASSUME call[r].stamp \notin shared'
          PROVE  /\ \A v \in Versions' : v.stamp # call'[r].stamp
                 /\ \A p \in Calls \ {r} : Stamped(p)' => call'[p].stamp # call'[r].stamp
      <4>1. call[r].stamp \notin shared
        BY <1>1, <3>3 DEF Grows
      <4>2. call[r].stamp # stamp
        BY <2>5, <3>1, <3>3
      <4>3. \A v \in Versions' : v.stamp # call'[r].stamp
        BY <2>4, <2>6, <3>1, <4>1, <4>2 DEF Told, StampsAreReserved
      <4>4. \A p \in Calls \ {r} : Stamped(p)' => call'[p].stamp # call'[r].stamp
        BY <2>7, <3>1, <4>1 DEF Told, StampsAreReserved
      <4> QED BY <4>3, <4>4
    <3> QED BY <3>1, <3>2, <3>3
  <2>10. KindsFit'
    BY <2>2, <2>3 DEF Told, KindsFit, Collected
  <2> QED BY <2>8, <2>9, <2>10 DEF Told
<1> QED BY <1>2, <1>3

LEMMA MovesTold ==
  ASSUME Told, Types, Types', NEW q \in Calls, UNCHANGED <<stamps, rows>>,
         NEW place \in {"markMetadata", "stream", "apply"},
         call[q].at \in {"register", "markMetadata", "stream"},
         Moves(q, place), place = "stream" => call[q].kind \in Bulk
  PROVE  Told'
<1>1. /\ call'[q] = [call[q] EXCEPT !.at = place]
      /\ \A r \in Calls : r # q => call'[r] = call[r]
  BY MovesTypes
<1>2. /\ call'[q].at = place /\ call'[q].kind = call[q].kind
      /\ call'[q].base = call[q].base /\ call'[q].batch = call[q].batch
  BY <1>1 DEF Types, AnyCall
<1>3. call'[q].base \in Versions \cup {NONE}
  BY <1>2 DEF Versions
<1>4. Grows
  BY DEF Grows
<1> QED BY <1>1, <1>2, <1>3, <1>4, NothingMadeBy DEF Stamped, Told, KindsFit

LEMMA MessageTold ==
  ASSUME Told, Types, Types', NEW q \in Calls, Message(q)
  PROVE  Told'
<1>1. call[q].at = "stream" /\ rows' = rows
  BY DEF Message, table
<1>2. CASE \E k \in Keys, shape \in Shapes, stamp \in Moments \cup {NONE} :
             Going(q, k, shape, stamp)
  <2>1. PICK k \in Keys, shape \in Shapes, stamp \in Moments \cup {NONE} :
               Going(q, k, shape, stamp)
    BY <1>2
  <2>2. /\ \A r \in Calls : r # q => call'[r] = call[r]
        /\ call'[q].at = "lookUp" /\ call'[q].kind = call[q].kind /\ call'[q].stamp = stamp
        /\ call'[q].base = call[q].base /\ call'[q].batch = call[q].batch
    BY <2>1 DEF Going, Goes, NextMessage, Types, AnyCall
  <2>3. call'[q].base \in Versions \cup {NONE}
    BY <2>2 DEF Versions
  <2>4. Takes({stamp} \ {NONE})
    BY <2>1 DEF Going
  <2>5. CASE stamp = NONE
    BY <1>1, <2>2, <2>3, <2>4, <2>5, TakesGrows, NothingMadeBy DEF Stamped, Told, KindsFit
  <2>6. CASE stamp # NONE
    <3>1. Takes({stamp})
      <4>1. {stamp} \ {NONE} = {stamp}
        BY <2>6
      <4> QED BY <2>4, <4>1
    <3> QED BY <1>1, <2>2, <2>3, <3>1, StampSent DEF Told, KindsFit
  <2> QED BY <2>5, <2>6
<1>3. CASE Goes(q, Streamed(q)) /\ UNCHANGED stamps
  <2>1. /\ call'[q].at = "apply" /\ call'[q].kind = call[q].kind /\ call'[q].base = NONE
        /\ call'[q].batch = call[q].batch
        /\ \A r \in Calls : r # q => call'[r] = call[r]
    BY <1>1, <1>3, StreamedTypes
  <2>2. call[q].kind \in Bulk
    BY <1>1 DEF Told, KindsFit
  <2>3. Grows
    BY <1>3 DEF Grows, stamps
  <2>4. call'[q].kind # "replace"
    BY <2>1, <2>2 DEF Bulk
  <2>5. ~ Stamped(q)'
    BY <2>1 DEF Stamped
  <2> QED BY <1>1, <2>1, <2>3, <2>4, <2>5, NothingMadeBy
<1>4. CASE Ends(q) /\ UNCHANGED stamps
  BY <1>1, <1>4, EndsTold DEF Grows
<1> QED BY <1>2, <1>3, <1>4 DEF Message, Going, NextMessage, Streamed

LEMMA StepTold ==
  ASSUME Told, Types, Types', NEW q \in Calls, Step(q)
  PROVE  Told'
<1>1. CASE LookUp(q)
  BY <1>1, LookUpTold
<1>2. CASE Register(q)
  BY <1>2, MovesTold DEF Register, Collected, Bulk
<1>3. CASE MarkMetadata(q)
  BY <1>3, MovesTold DEF MarkMetadata, Collected, table
<1>4. CASE Message(q)
  BY <1>4, MessageTold
<1>5. CASE Apply(q)
  <2>1. Ends(q) /\ Grows
    BY <1>5 DEF Apply, Grows
  <2>2. \A k \in Keys : rows'[k] \in {rows[k], call[q].batch[k], NONE}
    BY <1>5 DEF Apply, Outcome
  <2> QED BY <2>1, <2>2, EndsTold
<1> QED BY <1>1, <1>2, <1>3, <1>4, <1>5 DEF Step

LEMMA ToldKept == Types /\ Types' /\ Told /\ [Next]_vars => Told'
<1> SUFFICES ASSUME Types, Types', Told, [Next]_vars PROVE Told'
  OBVIOUS
<1>1. CASE UNCHANGED <<stamps, rows, call>>
  BY <1>1 DEF Told, StampsTellRows, StampsAreReserved, KindsFit, Stamped, Versions
<1>2. ASSUME NEW q \in Calls, Call(q) PROVE Told'
  BY <1>2, CallTold
<1>3. ASSUME NEW q \in Calls, Step(q) PROVE Told'
  BY <1>3, StepTold
<1>4. Server => UNCHANGED <<stamps, rows, call>>
  BY DEF Server, Walk, Drop, MarkDropped, TakeTask, Persist, table
<1> QED BY <1>1, <1>2, <1>3, <1>4 DEF Next, vars, table

-----------------------------------------------------------------------------
(* The inductive invariant holds: types, known schemas, stamps that tell     *)
(* rows apart and what the disk is owed, for any calls, keys and schemas.    *)
THEOREM InvariantHolds == Spec => []IInv
<1>1. Init => IInv
  BY InitTypes, InitShown, InitTold DEF IInv, Shown, Told, Init, SchemasOwedOrDurable
<1>2. IInv /\ [Next]_vars => IInv'
  BY TypesKept, ShownKept, ToldKept, OwedKept DEF IInv, Shown, Told
<1> QED BY <1>1, <1>2, PTL DEF Spec

(* A row is shown in the shape it was written in, whatever other writers and *)
(* the collector of schemas do, but for ids registered by two at once with   *)
(* different bytes and those collected under a call that holds such a row.   *)
THEOREM RowsStayReadable == Spec => []RowsAreShown
<1>1. IInv => RowsAreShown
  BY DEF IInv
<1> QED BY <1>1, InvariantHolds, PTL

(* What the disk does not know of the schemas, it is owed.                   *)
THEOREM SchemasReachTheDisk == Spec => []SchemasOwedOrDurable
<1>1. IInv => SchemasOwedOrDurable
  BY DEF IInv
<1> QED BY <1>1, InvariantHolds, PTL

(* A replace overwrites the row its client has read and no other: of two     *)
(* that have read the same version, one is refused - unless the stamp came   *)
(* up twice, off the clock or from clients.                                  *)
THEOREM ReplacesAreSafe == Spec => NoLostUpdate
<1>1. IInv /\ [Next]_vars => \A q \in Calls :
        Replaces(q) => Stored(q) = call[q].base \/ Stored(q).stamp \in shared
  <2> SUFFICES ASSUME IInv, [Next]_vars, NEW q \in Calls,
                      call[q].kind = "replace", call[q].at = "apply",
                      rows'[call[q].key] # Stored(q), call'[q].at = "ended"
               PROVE  Stored(q) = call[q].base \/ Stored(q).stamp \in shared
    BY DEF Replaces
  <2>1. call \in [Calls -> AnyCall] /\ call[q].key \in Keys
    BY DEF IInv, Types
  <2>2. Apply(q)
    <3>1. rows' # rows /\ call'[q] # call[q]
      BY DEF Stored
    <3>2. ASSUME NEW p \in Calls, Call(p) \/ Step(p) PROVE p = q
      BY <2>1, <3>1, <3>2 DEF Call, Step, LookUp, Register, MarkMetadata, Message, Apply,
                              Ends, Moves, Goes, table
    <3>3. ~ Server /\ ~ Call(q) /\ ~ (LookUp(q) \/ Register(q) \/ MarkMetadata(q) \/ Message(q))
      BY <3>1 DEF Server, Walk, Drop, MarkDropped, TakeTask, Persist, table,
                  Call, LookUp, Register, MarkMetadata, Message
    <3> QED BY <3>1, <3>2, <3>3 DEF Next, Step, vars
  <2>3. Accepts(q)
    BY <2>2 DEF Apply, Stored
  <2>4. Stored(q) # NONE /\ Stored(q).stamp = call[q].base.stamp
    BY <2>3 DEF Accepts
  <2>5. call[q].base # NONE
    BY DEF IInv, KindsFit
  <2>6. Stored(q) \in Versions /\ call[q].base \in Versions
    BY <2>1, <2>4, <2>5 DEF Versions, Stored
  <2> QED BY <2>4, <2>6 DEF IInv, StampsTellRows
<1> QED BY <1>1, InvariantHolds, PTL DEF Spec, NoLostUpdate
=============================================================================
