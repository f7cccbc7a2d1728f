---------------------------- MODULE SchemaIndex ----------------------------
(***************************************************************************)
(* What a schema is resolved to (json_view/schema_index.rs), and the       *)
(* fields of a row by their numbers.  A row is the sequence of its fields, *)
(* numbers with values.  No operator here recurses, so that what is built  *)
(* on it can be proved about; messages nest in JsonView.                   *)
(***************************************************************************)
EXTENDS Sequences, SequencesExt

TimeStampNo == 3
ExpiresNo == 4

(* A schema as it is sent has its messages in a table, and a field that is a *)
(* message has the message's place in it; resolved, everything goes by name. *)

Resolved(type, decl) ==
  IF type[1] = "object" THEN <<"message", decl.messages[type[2]].name>> ELSE type

FieldsOf(message, decl) ==
  [no \in {f.no : f \in ToSet(message.fields)} |->
     LET f == CHOOSE g \in ToSet(message.fields) : g.no = no
     IN  [name |-> f.name, kind |-> Resolved(f.type, decl), repeated |-> f.array]]

Index(decl) ==
  [root |-> decl.messages[decl.root].name,
   messages |-> [name \in {m.name : m \in ToSet(decl.messages)} |->
                   FieldsOf(CHOOSE m \in ToSet(decl.messages) : m.name = name, decl)]]

NoIndex == [root |-> "", messages |-> [name \in {} |-> <<>>]]

MessageOf(schema, name) ==
  IF name \in DOMAIN schema.messages THEN schema.messages[name] ELSE [no \in {} |-> <<>>]

Packable(kind) == kind[1] \notin {"string", "bytes", "message"}

(* The values a row has under one number, in their order.                    *)
Occurrences(fields, no) ==
  LET own == SelectSeq(fields, LAMBDA f : f.no = no) IN [i \in DOMAIN own |-> own[i].value]
=============================================================================
