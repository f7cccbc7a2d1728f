------------------------------ MODULE McpTools ------------------------------
(***************************************************************************)
(* The MCP surface (mcp/): tools an agent calls to read and to write one   *)
(* table, through the JSON view (JsonView), a gate a person opens for a    *)
(* while (app/write_window.rs) and the schemas the table already holds     *)
(* (mcp/context.rs), beside the clients that own the entities, the         *)
(* collector of schemas and restarts.  The encoder is a parameter: what    *)
(* rows look like in and out of JSON is McpRows.                           *)
(*                                                                         *)
(* A handler has no other way to wait than the locks it takes, but other   *)
(* threads run between them: a write tool passes its gate with the table   *)
(* found, then picks a schema and makes its rows, then writes them.        *)
(*                                                                         *)
(* Abstractions.  One table, which stays where it is (move_table is in     *)
(* Namespaces, what a restore does step by step in Backups); what a client *)
(* writes arrives with its schema at once (RowWrites is about that).  An   *)
(* id stands for one shape in every table.  Moments are the stamp they     *)
(* leave, and the window is the time it has left.                          *)
(***************************************************************************)
EXTENDS SchemaIndex, Integers, FiniteSets

CONSTANTS
  Calls,          \* calls of write tools that may be in flight
  Ids,            \* schema ids, numbers: the largest survives a collection
  Sent,           \* id -> the schema a client sends, or UNREADABLE
  UNREADABLE,     \* bytes that are no schema
  Absent,
  WindowLength,   \* WRITE_WINDOW_SECS
  Encoded(_, _),  \* write_row_from_json: of an object and an index the fields, or none
  Documents,      \* entity_json: objects
  Batches,        \* entities_json: sequences of JSON values
  KeyLists,       \* rows_json of bulk_delete_rows: objects
  ClientRows,     \* what clients write: pairs of an id and fields
  Archive,        \* a snapshot: a set of stored rows
  Rank,           \* the keys there are, numbered as the table sorts them
  MaxLimit        \* bound: the limit of get_rows

ASSUME IdsAssumption == Ids \subseteq Nat /\ DOMAIN Sent = Ids
ASSUME LimitAssumption == MaxLimit \in Nat \ {0} /\ WindowLength \in Nat \ {0}
ASSUME RankAssumption ==
  /\ IsFiniteSet(DOMAIN Rank)
  /\ \A k \in DOMAIN Rank : Rank[k] \in Nat
  /\ \A k, l \in DOMAIN Rank : Rank[k] = Rank[l] => k = l
ASSUME BatchesAssumption == \A b \in Batches : b \in Seq(ToSet(b))

VARIABLES
  schemas,    \* ids the table holds a schema of
  rows,       \* the table: a set of stored rows, one to a key
  left,       \* what is left of the write window: 0 when it is shut
  call,       \* call -> where it is, with its locals
  reader      \* an agent paging through the table, and the keys it was not shown yet

stored == <<schemas, rows>>
toolsVars == <<schemas, rows, left, call, reader>>

Idle == [at |-> "idle", tool |-> Absent, json |-> Absent, id |-> Absent, rows |-> {},
         invited |-> FALSE]
NotReading == [at |-> "idle", skip |-> 0, limit |-> 1, owed |-> {}]

-----------------------------------------------------------------------------
(* Rows: what the core crate keeps of an entity, and what it hands out.      *)

TextOf(fields, no) ==
  LET values == Occurrences(fields, no)
  IN  {values[i][2] : i \in {j \in DOMAIN values : values[j][1] = "text"}}

KeyOf(row) == <<row.partition, row.row>>

(* The server keeps its two moments apart from the fields of an entity.      *)
OfItsOwn(fields) == SelectSeq(fields, LAMBDA f : f.no \notin {TimeStampNo, ExpiresNo})
ExpiresOf(fields) ==
  LET given == Occurrences(fields, ExpiresNo)
  IN  IF given = <<>> THEN 0 ELSE given[Len(given)][2]

(* An entity needs its keys and moments of the calendar.                     *)
Parsed(id, fields, json) ==
  {[id |-> id, partition |-> p, row |-> r, json |-> json, fields |-> OfItsOwn(fields),
    expires |-> ExpiresOf(fields), stray |-> FALSE] :
     p \in TextOf(fields, 1), r \in TextOf(fields, 2)}

(* The cache: an id is resolved once, and an unreadable schema is no index.  *)
GetOrBuild(id) == IF Sent[id] = UNREADABLE THEN {} ELSE {Index(Sent[id])}

ToolsInit ==
  /\ schemas = {} /\ rows = {}
  /\ left = 0
  /\ call = [q \in Calls |-> Idle]
  /\ reader = NotReading

(* Rows of the same keys are replaced.                                       *)
Replaced(old, new) == {r \in old : \A n \in new : KeyOf(n) # KeyOf(r)} \cup new

-----------------------------------------------------------------------------
(* The gate.                                                                 *)

(* Slip: the last moment of the window is past it, and still open.           *)
OpenToTheEnd == left >= 0

WritesAreOpen == left > 0

FromNow == WindowLength

OpenWrites ==
  /\ left' = FromNow
  /\ call' = [q \in Calls |-> IF call[q].at = "idle" THEN Idle
                              ELSE [call[q] EXCEPT !.invited = TRUE]]
  /\ UNCHANGED <<stored, reader>>

CloseWrites ==
  /\ left > 0
  /\ left' = 0
  /\ UNCHANGED <<stored, call, reader>>

Tick ==
  /\ left > 0
  /\ left' = left - 1
  /\ UNCHANGED <<stored, call, reader>>

-----------------------------------------------------------------------------
(* Write tools.  A call is refused without leaving a trace in the table.     *)

InFlight(q, tool, json, place) ==
  call' = [call EXCEPT ![q] = [at |-> place, tool |-> tool, json |-> json, id |-> Absent,
                               rows |-> {}, invited |-> left > 0]]

(* A request arrives; its handler has not asked the gate yet.                *)
Arrive(q) ==
  /\ call[q].at = "idle"
  /\ \/ \E json \in Documents : InFlight(q, "insert_or_replace_row", json, "gate")
     \/ \E json \in Batches : InFlight(q, "bulk_insert_or_replace_rows", json, "gate")
     \/ \E r \in rows : InFlight(q, "delete_row", KeyOf(r), "gate")
     \/ \E json \in KeyLists : InFlight(q, "bulk_delete_rows", json, "gate")
     \/ \E p \in SUBSET {r.partition : r \in rows} : InFlight(q, "delete_partitions", p, "gate")
     \/ InFlight(q, "clean_table", Absent, "gate")
     \/ \E only \in {{}} \cup {{r.partition} : r \in Archive} :
          InFlight(q, "restore_backup", only, "gate")
  /\ UNCHANGED <<stored, left, reader>>

Inserts == {"insert_or_replace_row", "bulk_insert_or_replace_rows"}

Ends(q) == call' = [call EXCEPT ![q] = Idle]

(* The keys a body names, when it is an object of arrays of strings.         *)
Named(json) ==
  IF \A i \in DOMAIN json :
       /\ json[i][2][1] = "array"
       /\ \A j \in DOMAIN json[i][2][2] : json[i][2][2][j][1] = "string"
  THEN {UNION {{<< <<"plain", json[i][1]>>, v[2] >> : v \in ToSet(json[i][2][2])} : i \in DOMAIN json}}
  ELSE {}

(* Bodies a handler refuses after its gate and before it touches the table.  *)
Refused(q) ==
  \/ call[q].tool = "bulk_delete_rows" /\ (Named(call[q].json) = {} \/ call[q].json = <<>>)
  \/ call[q].tool = "delete_partitions" /\ call[q].json = {}

Gate(q) ==
  /\ call[q].at = "gate"
  /\ IF ~WritesAreOpen \/ Refused(q) THEN Ends(q)
     ELSE \/ Ends(q)  \* there is no such namespace or table
          \/ call' = [call EXCEPT ![q].at = IF call[q].tool \in Inserts THEN "pick" ELSE "apply"]
  /\ UNCHANGED <<stored, left, reader>>

(* The schema a row is written through: the one that is named, or the only   *)
(* one there is.                                                             *)
Pickable(named) == IF named = Absent THEN IF Cardinality(schemas) = 1 THEN schemas ELSE {}
                   ELSE schemas \cap {named}

Items(c) == IF c.tool = "insert_or_replace_row" THEN << <<"object", c.json>> >> ELSE c.json

RowsOf(id, item) ==
  IF item[1] # "object" THEN {}
  ELSE UNION {UNION {Parsed(id, fields, item[2]) : fields \in Encoded(item[2], index)} :
                index \in GetOrBuild(id)}

(* The rows of a batch, the last of a key.                                   *)
Lasts(id, items) ==
  UNION {{r \in RowsOf(id, items[i]) :
            \A j \in (i + 1)..Len(items) : \A l \in RowsOf(id, items[j]) : KeyOf(l) # KeyOf(r)} :
           i \in DOMAIN items}

(* Slip: an item that is no row is left out.                                 *)
BatchOfTheGood(id, items) ==
  IF \A i \in DOMAIN items : RowsOf(id, items[i]) = {} THEN {} ELSE {Lasts(id, items)}

(* All of them, or none.                                                     *)
Batch(id, items) ==
  IF items = <<>> \/ \E i \in DOMAIN items : RowsOf(id, items[i]) = {} THEN {}
  ELSE {Lasts(id, items)}

(* What can be encoded and what clients and snapshots hold: an object makes  *)
(* one row or none, and a row one key of those there are.                    *)
Writable == {<<"object", json>> : json \in Documents} \cup UNION {ToSet(b) : b \in Batches}

ASSUME RowsAssumption ==
  /\ \A id \in Ids, item \in Writable : \A r, s \in RowsOf(id, item) :
       r = s /\ KeyOf(r) \in DOMAIN Rank
  /\ \A pair \in ClientRows :
       pair[1] \in Ids /\ \A r \in Parsed(pair[1], pair[2], Absent) : KeyOf(r) \in DOMAIN Rank
  /\ \A r \in Archive : r.id \in Ids /\ KeyOf(r) \in DOMAIN Rank
  /\ \A r, s \in Archive : KeyOf(r) = KeyOf(s) => r = s

Pick(q) ==
  /\ call[q].at = "pick"
  /\ \E named \in Ids \cup {Absent} :
       IF Pickable(named) = {} THEN Ends(q)
       ELSE \E id \in Pickable(named) :
              /\ IF Batch(id, Items(call[q])) = {} THEN Ends(q)
                 ELSE \E made \in Batch(id, Items(call[q])) :
                        call' = [call EXCEPT ![q].at = "apply", ![q].id = id, ![q].rows = made]
  /\ UNCHANGED <<stored, left, reader>>

(* What a write tool does to the table.                                      *)
Insert(q) ==
  /\ call[q].tool \in Inserts
  /\ rows' = Replaced(rows, {[r EXCEPT !.stray = r.id \notin schemas] : r \in call[q].rows})
  /\ UNCHANGED schemas

Gone(q, r) ==
  CASE call[q].tool = "delete_row"        -> KeyOf(r) = call[q].json
    [] call[q].tool = "bulk_delete_rows"  -> \E keys \in Named(call[q].json) : KeyOf(r) \in keys
    [] call[q].tool = "delete_partitions" -> r.partition \in call[q].json
    [] call[q].tool = "clean_table"       -> TRUE

Delete(q) ==
  /\ call[q].tool \in {"delete_row", "bulk_delete_rows", "delete_partitions", "clean_table"}
  /\ rows' = {r \in rows : ~Gone(q, r)}
  /\ UNCHANGED schemas

(* All partitions of the snapshot, or one: each holds its rows and no other. *)
Restore(q) ==
  LET back == {r \in Archive : call[q].json = {} \/ r.partition \in call[q].json}
      over == {r.partition : r \in back}
  IN  /\ call[q].tool = "restore_backup"
      /\ rows' = {r \in rows : r.partition \notin over} \cup back
      /\ schemas' = schemas \cup {r.id : r \in Archive}

Keys == {KeyOf(r) : r \in rows}

(* Paging goes by place: rows that go take the place of others.              *)
Follows(at) == IF Keys \subseteq {KeyOf(r) : r \in rows'} THEN at ELSE NotReading

Apply(q) ==
  /\ call[q].at = "apply"
  /\ Insert(q) \/ Delete(q) \/ Restore(q)
  /\ Ends(q)
  /\ reader' = Follows(reader)
  /\ UNCHANGED left

-----------------------------------------------------------------------------
(* get_rows, page after page: one row more than the limit says whether there *)
(* is another page.                                                          *)

StartReading ==
  /\ reader.at # "reading"
  /\ \E limit \in 1..MaxLimit :
       reader' = [at |-> "reading", skip |-> 0, limit |-> limit, owed |-> Keys]
  /\ UNCHANGED <<stored, left, call>>

(* The rows from a place on, in the order of their keys.                     *)
Ahead(key) == Cardinality({k \in Keys : Rank[k] < Rank[key]})
Slice(skip, n) == {key \in Keys : skip <= Ahead(key) /\ Ahead(key) < skip + n}

(* Slip: no row is asked for beyond the page.                                *)
ThePage(limit) == limit

Wanted(limit) == limit + 1

GetRows ==
  LET matched == Slice(reader.skip, Wanted(reader.limit))
      hasMore == Cardinality(matched) > reader.limit
      page == {key \in matched : Ahead(key) < reader.skip + reader.limit}
  IN  /\ reader.at = "reading"
      /\ reader' = IF hasMore
                   THEN [reader EXCEPT !.skip = @ + reader.limit, !.owed = @ \ page]
                   ELSE [NotReading EXCEPT !.at = "done", !.owed = reader.owed \ page]
      /\ UNCHANGED <<stored, left, call>>

-----------------------------------------------------------------------------
(* Everybody else.                                                           *)

ClientWrites ==
  /\ \E pair \in ClientRows : \E row \in Parsed(pair[1], pair[2], Absent) :
       rows' = Replaced(rows, {row}) /\ schemas' = schemas \cup {pair[1]}
  /\ UNCHANGED <<left, call, reader>>

(* The collector drops the schemas no row names, but never the last one.     *)
Collect ==
  LET named == schemas \cap {r.id : r \in rows}
      kept == IF named # {} THEN named ELSE {i \in schemas : \A j \in schemas : j <= i}
  IN  /\ Cardinality(schemas) > 1
      /\ schemas' = kept
      /\ UNCHANGED <<rows, left, call, reader>>

RestartServer ==
  /\ left' = 0
  /\ call' = [q \in Calls |-> Idle]
  /\ reader' = NotReading
  /\ UNCHANGED stored

Tool(q) == Arrive(q) \/ Gate(q) \/ Pick(q) \/ Apply(q)

ToolsNext ==
  \/ \E q \in Calls : Tool(q)
  \/ StartReading \/ GetRows
  \/ OpenWrites \/ CloseWrites \/ Tick
  \/ ClientWrites \/ Collect \/ RestartServer

ToolsSpec == ToolsInit /\ [][ToolsNext]_toolsVars

-----------------------------------------------------------------------------
ToolsTypeOK ==
  /\ schemas \subseteq Ids
  /\ \A r, s \in rows : KeyOf(r) = KeyOf(s) => r = s
  /\ left \in 0..WindowLength
  /\ \A q \in Calls : call[q].at \in {"idle", "gate", "pick", "apply"}
  /\ reader.owed \subseteq DOMAIN Rank

(* The call has just done what it came for.                                  *)
Returns(q) == call[q].at = "apply" /\ call'[q].at = "idle" /\ stored' # stored

(* A batch is written whole or not at all.                                   *)
(* (bulk_insert_or_replace_rows_tool_call.rs:85-109)                         *)
WholeBatches ==
  [][\A q \in Calls :
       Returns(q) /\ call[q].tool = "bulk_insert_or_replace_rows" =>
         \A i \in DOMAIN call[q].json :
           LET item == call[q].json[i]
               later == {call[q].json[j] : j \in (i + 1)..Len(call[q].json)}
           IN  /\ RowsOf(call[q].id, item) # {}
               /\ \A made \in RowsOf(call[q].id, item) :
                    \/ \E n \in rows' : n.json = item[2] /\ KeyOf(n) = KeyOf(made)
                    \/ \E l \in later : \E m \in RowsOf(call[q].id, l) : KeyOf(m) = KeyOf(made)]_toolsVars

(* A tool changes the table only if a person had the window open at some     *)
(* moment after the call came - not because it was open before, nor because  *)
(* the time it was open for just ran out.  (context.rs:72-90)                *)
NothingUninvited ==
  [][\A q \in Calls : Returns(q) => call[q].invited]_toolsVars

(* An agent that pages until it is told that there is no more has seen every *)
(* row that was there all along, while others write and nothing is removed.  *)
(* (get_rows_tool_call.rs)                                                   *)
PagesMissNothing == reader.at = "done" => reader.owed = {}

(* One row to a key, and paging misses none of them, over any number of      *)
(* writes between two pages (get_rows_tool_call.rs).                         *)
ToolsInv == ToolsTypeOK /\ PagesMissNothing

(* The inductive invariant.  The table has ids and keys that there are, one  *)
(* row to a key.                                                             *)
Held ==
  /\ schemas \subseteq Ids /\ Keys \subseteq DOMAIN Rank
  /\ \A r, s \in rows : KeyOf(r) = KeyOf(s) => r = s

(* A call is a record with the body its tool takes; past its pick it has all *)
(* the rows of that body, under a schema.                                    *)
Carries(c) ==
  /\ c = [at |-> c.at, tool |-> c.tool, json |-> c.json, id |-> c.id, rows |-> c.rows,
          invited |-> c.invited]
  /\ c.at \in {"idle", "gate", "pick", "apply"}
  /\ c.at # "idle" =>
       /\ c.tool = "insert_or_replace_row" => c.json \in Documents
       /\ c.tool = "bulk_insert_or_replace_rows" => c.json \in Batches
  /\ c.at = "pick" => c.tool \in Inserts
  /\ c.at = "apply" /\ c.tool \in Inserts => c.id \in Ids /\ c.rows \in Batch(c.id, Items(c))

(* Past the gate, and before it while the window is open, a call is invited. *)
Invited(c) ==
  /\ c.at \in {"pick", "apply"} => c.invited
  /\ c.at = "gate" /\ left > 0 => c.invited

CallsHold == DOMAIN call = Calls /\ \A q \in Calls : Carries(call[q]) /\ Invited(call[q])

(* What a reader was not shown yet lies ahead of it.                         *)
Paging ==
  /\ reader = [at |-> reader.at, skip |-> reader.skip, limit |-> reader.limit,
               owed |-> reader.owed]
  /\ reader.at \in {"idle", "reading", "done"}
  /\ reader.owed \subseteq IF reader.at = "reading" THEN Keys ELSE {}
  /\ reader.skip \in Nat /\ reader.limit \in 1..MaxLimit
  /\ \A key \in reader.owed : reader.skip <= Ahead(key)

ToolsIInv == left \in 0..WindowLength /\ Held /\ CallsHold /\ Paging
=============================================================================
