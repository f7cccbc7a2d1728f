------------------------------ MODULE McpRows ------------------------------
(***************************************************************************)
(* What an agent is shown of a row (mcp/get_rows_tool_call.rs), with the   *)
(* encoder McpTools writes through and the renderer it reads through those *)
(* of JsonView: rows go out as they came in, and may come back.            *)
(***************************************************************************)
EXTENDS McpTools, JsonView

(* The tools write through the encoder of JsonView.                          *)
ASSUME EncoderAssumption ==
  \A id \in Ids, item \in Writable : \A index \in GetOrBuild(id) :
    item[1] = "object" => Encoded(item[2], index) = RowFrom(item[2], index)

Stamp == LastMoment  \* the moment of a write, whichever it is

Varint(no, n) == [no |-> no, value |-> <<"varint", n>>]

HandedOut(row) ==
  row.fields \o <<Varint(TimeStampNo, Stamp)>>
    \o (IF row.expires = 0 THEN <<>> ELSE <<Varint(ExpiresNo, row.expires)>>)

IndexOf(row) ==
  IF row.id \notin schemas \/ GetOrBuild(row.id) = {} THEN NoIndex
  ELSE CHOOSE index \in GetOrBuild(row.id) : TRUE

Shown(row) == ShowRow(HandedOut(row), IndexOf(row))

-----------------------------------------------------------------------------
(* What is shown for a value a caller sent: the value; for a number in a      *)
(* field of floats the nearest that its 64 or 32 bits keep, which is another   *)
(* when it has more digits than they have, and infinite when it is too large.  *)
RECURSIVE Kept(_, _, _)
Kept(field, value, index) ==
  LET FieldOf(name) == LET message == MessageOf(index, field.kind[2])
                       IN  message[CHOOSE no \in DOMAIN message : message[no].name = name]
  IN  CASE field.repeated ->
             <<"array", [i \in DOMAIN value[2] |->
                           Kept([field EXCEPT !.repeated = FALSE], value[2][i], index)]>>
        [] ~field.repeated /\ field.kind[1] = "message" ->
             <<"object", [i \in DOMAIN value[2] |->
                            LET pair == value[2][i]
                            IN  <<pair[1], Kept(FieldOf(pair[1]), pair[2], index)>>]>>
        [] ~field.repeated /\ field.kind[1] = "float"  -> Number(ToFloat(Quarters(value)))
        [] ~field.repeated /\ field.kind[1] = "double" -> Number(ToDouble(Quarters(value)))
        [] OTHER -> value

RECURSIVE HasInfinite(_)
HasInfinite(value) ==
  CASE value[1] = "infinite" -> TRUE
    [] value[1] = "array"  -> \E i \in DOMAIN value[2] : HasInfinite(value[2][i])
    [] value[1] = "object" -> \E i \in DOMAIN value[2] : HasInfinite(value[2][i][2])
    [] OTHER -> FALSE

SentAs(json, name) ==
  LET pairs == SelectSeq(json, LAMBDA pair : pair[1] = name /\ pair[2][1] # "null")
  IN  [i \in DOMAIN pairs |-> pairs[i][2]]

ShownAs(row, name) == {pair[2] : pair \in {p \in ToSet(Shown(row)) : p[1] = name}}

FieldAsSent(row, field, index) ==
  LET sent == SentAs(row.json, field.name)
      items == FoldLeft(LAMBDA done, value : done \o value[2], <<>>, sent)
  IN  ShownAs(row, field.name) =
        IF field.repeated
        THEN IF items = <<>> THEN {}
             ELSE {Kept(field, <<"array", items>>, index)}
        ELSE IF sent = <<>> THEN {} ELSE {Kept(field, Last(sent), index)}

(* A row an agent wrote is shown with every value it sent and with nothing   *)
(* else: no name was dropped, no whole number bent to the width of an        *)
(* integer, no level of a message cut off - for as long as it is stored,     *)
(* unless its schema was collected between being picked and the write.  A    *)
(* number in a field of floats is shown as they keep it, see Kept.           *)
(* (json_to_row.rs:36-50, row_to_json.rs, context.rs:92-143)                 *)
AsSent ==
  \A r \in {x \in rows : x.json # Absent /\ ~x.stray} :
    LET index == CHOOSE i \in GetOrBuild(r.id) : TRUE
        message == MessageOf(index, index.root)
    IN  /\ \A no \in DOMAIN message : FieldAsSent(r, message[no], index)
        /\ \A i \in DOMAIN r.json :
             r.json[i][1] \in {message[no].name : no \in DOMAIN message}
                                \cup {"TimeStamp", "Expires"}

(* "A row read out and handed straight back": what get_rows shows of a row   *)
(* is accepted when an agent wrote the row, and whoever wrote it, handing it *)
(* back is refused or changes nothing that is shown.  (json_to_row.rs:41-46) *)
(* Rows with an infinite number are left out: what is written for one is up   *)
(* to the JSON writer, outside the repository.                                *)
HandsBack ==
  \A r \in {x \in rows : x.id \in schemas /\ ~HasInfinite(<<"object", Shown(x)>>)} :
    LET again == RowsOf(r.id, <<"object", Shown(r)>>)
    IN  /\ r.json # Absent => again # {}
        /\ \A a \in again : Shown(a) = Shown(r)

(* "What goes in comes back out" (json_to_row.rs:370): a number sent to a field *)
(* of floats is the number shown.  One of more digits than they have is rounded *)
(* and one past the largest is infinite, where an integer that does not fit is  *)
(* refused.                                                                     *)
NumbersComeBack ==
  \A r \in {x \in rows : x.json # Absent /\ ~x.stray} :
    LET message == MessageOf(IndexOf(r), IndexOf(r).root)
    IN  \A no \in {n \in DOMAIN message : message[n].kind[1] \in {"float", "double"}} :
          LET sent == SentAs(r.json, message[no].name)
          IN  sent # <<>> => ShownAs(r, message[no].name) = {Last(sent)}
=============================================================================
