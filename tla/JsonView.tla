------------------------------ MODULE JsonView ------------------------------
(***************************************************************************)
(* Rows shown as JSON and made from it: the renderer                       *)
(* (json_view/row_to_json.rs) and the encoder (json_view/json_to_row.rs),  *)
(* by the schema as SchemaIndex has it.                                    *)
(*                                                                         *)
(* A JSON value is a pair of what it is and what it holds: a whole         *)
(* "number", a "fraction" (both of which are numbers; a fraction counts    *)
(* quarters), a "bool", a "string", an "array", an "object" - the sequence *)
(* of its pairs of name and value - or <<"null">>.  The text of a string   *)
(* says where it comes from: <<"plain", s>>, <<"base64", bytes>>, a moment *)
(* <<"iso", m>> or the digits <<"digits", n>>.  An "infinite" number is    *)
(* shown and never sent: JSON has no way to write one.                     *)
(*                                                                         *)
(* A row is the sequence of its fields, numbers with values.  A "varint"   *)
(* holds a number below 2^Wide; a "fixed" value the number its float stands *)
(* for, in quarters (+-Infinity is that one itself); a length-delimited one *)
(* is a "text", a "blob" that is no UTF-8, a nested "message" or values     *)
(* that are "packed".                                                       *)
(***************************************************************************)
EXTENDS SchemaIndex, Integers, TLC

CONSTANTS
  Narrow, Wide,     \* bits of the 32-bit and of the 64-bit types
  FloatDigits, DoubleDigits,  \* binary digits of their significands
  FloatTop, DoubleTop,        \* 2^these, in quarters, is past their largest
  MaxNestingDepth,
  LastMoment        \* the calendar ends with it

ASSUME WidthsAssumption == Narrow \in Nat /\ Wide \in Nat /\ 1 < Narrow /\ Narrow < Wide

ASSUME FloatsAssumption ==
  /\ {FloatDigits, DoubleDigits, FloatTop, DoubleTop} \subseteq Nat \ {0}
  /\ FloatDigits <= DoubleDigits /\ FloatTop <= DoubleTop

InCalendar(moment) == moment \in 0..LastMoment

AsUnsigned(width, n) == n % 2^width

(* Slip: a number is cut to the width and its sign forgotten.                *)
Cut(width, n) == n % 2^width

AsSigned(width, n) ==
  LET low == n % 2^width IN IF low < 2^(width - 1) THEN low ELSE low - 2^width
SignedRange(width) == -(2^(width - 1))..(2^(width - 1) - 1)

-----------------------------------------------------------------------------
(* The renderer.                                                             *)

Iso(value) ==
  LET moment == AsSigned(Wide, value)
  IN  <<"string", IF InCalendar(moment) THEN <<"iso", moment>> ELSE <<"digits", moment>>>>

Infinity == 2^DoubleTop

Number(quarters) ==
  IF quarters \in {Infinity, -Infinity} THEN <<"infinite", quarters>>
  ELSE IF quarters % 4 = 0 THEN <<"number", quarters \div 4>> ELSE <<"fraction", quarters>>

Delimited(value) == value[1] \notin {"varint", "fixed"}
Text(bytes) == IF bytes[1] = "text" THEN bytes[2] ELSE <<"plain", "?">>

Scalar(kind, value) ==
  CASE kind[1] \in {"double", "float"} -> Number(value[2])
    [] kind[1] = "int64"  -> <<"number", AsSigned(Wide, value[2])>>
    [] kind[1] = "int32"  -> <<"number", AsSigned(Narrow, value[2])>>
    [] kind[1] = "uint64" -> <<"number", value[2]>>
    [] kind[1] = "uint32" -> <<"number", AsUnsigned(Narrow, value[2])>>
    [] kind[1] = "bool"   -> <<"bool", value[2] # 0>>
    [] kind[1] = "string" -> <<"string", Text(value)>>
    [] OTHER -> <<"string", <<"base64", value>>>>

Guess(value) ==
  IF ~Delimited(value) THEN <<"number", AsSigned(Wide, value[2])>>
  ELSE <<"string", IF value[1] = "text" THEN value[2] ELSE <<"base64", value>>>>

(* Field numbers in the order they appear first.                             *)
Order(fields) ==
  FoldLeft(LAMBDA seen, f : IF f.no \in ToSet(seen) THEN seen ELSE Append(seen, f.no),
           <<>>, fields)

(* Repeated numbers come one to a field, or packed.                          *)
Expanded(kind, values) ==
  FoldLeft(LAMBDA done, value :
             done \o IF Packable(kind) /\ Delimited(value)
                     THEN [i \in DOMAIN value[2] |-> Scalar(kind, <<"varint", value[2][i]>>)]
                     ELSE <<Scalar(kind, value)>>,
           <<>>, values)

ShowUnknown(values) ==
  IF Len(values) > 1
  THEN <<"array", [i \in DOMAIN values |-> Guess(values[i])]>>
  ELSE Guess(values[1])

(* Slip: a level more than the encoder accepts is shown as a blob.           *)
FollowedLess(depth) == depth + 1 < MaxNestingDepth

Followed(depth) == depth < MaxNestingDepth

RECURSIVE Show(_, _, _, _)

ShowKnown(field, values, schema, depth) ==
  LET Nested(value) == <<"object", Show(value[2], schema, field.kind[2], depth + 1)>>
      whole == field.kind[1] = "message" /\ Followed(depth)
  IN  IF field.repeated
      THEN <<"array", IF whole THEN [i \in DOMAIN values |-> Nested(values[i])]
                      ELSE Expanded(field.kind, values)>>
      ELSE IF whole THEN Nested(Last(values)) ELSE Scalar(field.kind, Last(values))

OwnName(no, message) ==
  IF no \in DOMAIN message THEN message[no].name
  ELSE IF no = TimeStampNo THEN "TimeStamp" ELSE "Expires"

Show(fields, schema, name, depth) ==
  LET message == MessageOf(schema, name)
      Pair(no) ==
        LET values == Occurrences(fields, no)
        IN  IF depth = 0 /\ no \in {TimeStampNo, ExpiresNo}
            THEN <<OwnName(no, message), Iso(Last(values)[2])>>
            ELSE IF no \in DOMAIN message
            THEN <<message[no].name, ShowKnown(message[no], values, schema, depth)>>
            ELSE <<ToString(no), ShowUnknown(values)>>
  IN  [i \in DOMAIN Order(fields) |-> Pair(Order(fields)[i])]

ShowRow(fields, schema) == Show(fields, schema, schema.root, 0)

-----------------------------------------------------------------------------
(* The encoder.  What it makes of a piece of JSON is a set: of one sequence  *)
(* of fields, or empty when the piece is refused.                            *)

When(accepted, result) == IF accepted THEN {result} ELSE {}

IsNumber(value) == value[1] \in {"number", "fraction"}
Quarters(value) == IF value[1] = "number" THEN 4 * value[2] ELSE value[2]

(* The float nearest to a number, of two as near the even one: as many binary   *)
(* digits as its significand has, whatever the size of the number; and an       *)
(* infinite one for a number past the largest.                                  *)
Rounded(digits, top, quarters) ==
  LET size == IF quarters < 0 THEN -quarters ELSE quarters
      step == 2^Min({k \in 0..top : size < 2^(digits + k)})
      rest == size % step
      up   == 2 * rest > step \/ (2 * rest = step /\ (size \div step) % 2 = 1)
      near == size - rest + IF up THEN step ELSE 0
      kept == IF size >= 2^top \/ near >= 2^top THEN Infinity ELSE near
  IN  IF quarters < 0 THEN -kept ELSE kept

(* A number is read as a double, also where the field is a float.               *)
ToDouble(quarters) == Rounded(DoubleDigits, DoubleTop, quarters)
ToFloat(quarters)  == Rounded(FloatDigits, FloatTop, ToDouble(quarters))

WholeNumbers(kind) ==
  CASE kind[1] = "int64"  -> SignedRange(Wide)
    [] kind[1] = "int32"  -> SignedRange(Narrow)
    [] kind[1] = "uint64" -> 0..(2^Wide - 1)
    [] kind[1] = "uint32" -> 0..(2^Narrow - 1)

(* Slip: the server's moments are refused like any name the schema lacks.    *)
NothingOwned(name, value) == {}

(* The server's own moments: its stamp is not the caller's to set.           *)
ServerOwned(name, value) ==
  LET moment == IF value[1] = "string" /\ value[2][1] = "iso" THEN {value[2][2]}
                ELSE IF value[1] = "number" /\ value[2] \in SignedRange(Wide) THEN {value[2]}
                ELSE {}
  IN  IF name = "TimeStamp" \/ value[1] = "null" THEN {<<>>}
      ELSE {<<[no |-> ExpiresNo, value |-> <<"varint", AsUnsigned(Wide, m)>>]>> :
              m \in {x \in moment : InCalendar(x)}}

(* Slip: a name the schema does not have is skipped.                         *)
Skipped == {<<>>}

NotInSchema == {}
TooDeep(depth) == depth > MaxNestingDepth

InTurn(parts) ==
  FoldLeft(LAMBDA done, part : {a \o b : a \in done, b \in part}, {<<>>}, parts)

RECURSIVE Encode(_, _, _, _)

EncodeValue(no, kind, value, schema, depth) ==
  LET Field(content) == <<[no |-> no, value |-> content]>>
  IN  CASE kind[1] = "message" ->
             IF value[1] # "object" THEN {}
             ELSE {Field(<<"message", m>>) : m \in Encode(value[2], schema, kind[2], depth + 1)}
        [] kind[1] = "string" -> When(value[1] = "string", Field(<<"text", value[2]>>))
        [] kind[1] = "bytes" ->
             When(value[1] = "string" /\ value[2][1] = "base64", Field(value[2][2]))
        [] kind[1] = "bool" ->
             When(value[1] = "bool", Field(<<"varint", IF value[2] THEN 1 ELSE 0>>))
        [] kind[1] = "double" ->
             When(IsNumber(value), Field(<<"fixed", ToDouble(Quarters(value))>>))
        [] kind[1] = "float" ->
             When(IsNumber(value), Field(<<"fixed", ToFloat(Quarters(value))>>))
        [] OTHER -> When(value[1] = "number" /\ value[2] \in WholeNumbers(kind),
                         Field(<<"varint", AsUnsigned(Wide, value[2])>>))

Encode(json, schema, name, depth) ==
  LET message == MessageOf(schema, name)
      Numbers(pair) == {no \in DOMAIN message : message[no].name = pair[1]}
      Values(no, values) ==
        InTurn([i \in DOMAIN values |->
                  EncodeValue(no, message[no].kind, values[i], schema, depth)])
      Field(no, value) ==
        IF value[1] = "null" THEN {<<>>}
        ELSE IF ~message[no].repeated THEN Values(no, <<value>>)
        ELSE IF value[1] = "array" THEN Values(no, value[2])
        ELSE {}
      Part(pair) ==
        IF depth = 0 /\ pair[1] \in {"TimeStamp", "Expires"} THEN ServerOwned(pair[1], pair[2])
        ELSE IF Numbers(pair) = {} THEN NotInSchema
        ELSE Field(CHOOSE no \in Numbers(pair) : TRUE, pair[2])
  IN  IF TooDeep(depth) \/ name \notin DOMAIN schema.messages THEN {}
      ELSE InTurn([i \in DOMAIN json |-> Part(json[i])])

RowFrom(json, schema) == Encode(json, schema, schema.root, 0)
=============================================================================
