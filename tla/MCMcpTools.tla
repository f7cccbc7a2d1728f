----------------------------- MODULE MCMcpTools -----------------------------
(* McpTools on small instances: two entities and an unreadable schema, keys  *)
(* of two partitions.                                                        *)
EXTENDS McpRows

Plain(s) == <<"string", <<"plain", s>>>>
Field(name, no, type, array) == [name |-> name, no |-> no, type |-> type, array |-> array]
KeyFields == <<Field("PartitionKey", 1, <<"string">>, FALSE), Field("RowKey", 2, <<"string">>, FALSE)>>

Trader ==
  [root |-> 1,
   messages |->
     <<[name |-> "Trader",
        fields |-> KeyFields \o <<Field("Level", 5, <<"int32">>, FALSE),
                                  Field("Limits", 6, <<"object", 2>>, FALSE),
                                  Field("Amount", 7, <<"double">>, FALSE)>>],
       [name |-> "Limits",
        fields |-> <<Field("Max", 1, <<"double">>, FALSE), Field("Inner", 2, <<"object", 2>>, TRUE)>>]>>]

Price ==
  [root |-> 1,
   messages |->
     <<[name |-> "Price",
        fields |-> KeyFields \o <<Field("Ratio", 5, <<"float">>, FALSE),
                                  Field("Counts", 6, <<"uint32">>, TRUE),
                                  Field("Blob", 7, <<"bytes">>, FALSE),
                                  Field("On", 8, <<"bool">>, FALSE)>>]>>]

MCSent == [i \in Ids |-> IF i = 1 THEN Trader ELSE IF i = 2 THEN Price ELSE UNREADABLE]

Pair(name, value) == <<name, value>>
Num(n) == <<"number", n>>
Half == <<"fraction", 2>>
TwoAndAQuarter == <<"fraction", 9>>   \* a digit more than a float has
FourAndAQuarter == <<"fraction", 17>> \* a digit more than a double has
ThreeQuarters == <<"fraction", 3>>
Base64Of(s) == <<"string", <<"base64", <<"blob", s>>>>>>
Object(pairs) == <<"object", pairs>>
Array(values) == <<"array", values>>

KeyOne == <<Pair("PartitionKey", Plain("p")), Pair("RowKey", Plain("a"))>>
KeyTwo == <<Pair("PartitionKey", Plain("q")), Pair("RowKey", Plain("a"))>>
MCKeys == << << <<"plain", "p">>, <<"plain", "a">> >>, << <<"plain", "q">>, <<"plain", "a">> >> >>
MCRank == [k \in ToSet(MCKeys) |-> CHOOSE i \in DOMAIN MCKeys : MCKeys[i] = k]

Bare(max) == Object(<<Pair("Max", max)>>)
Limits(max, inner) == Object(<<Pair("Max", max), Pair("Inner", Array(inner))>>)

Negative == KeyOne \o <<Pair("Level", Num(-2)), Pair("Amount", Num(-19)), Pair("TimeStamp", Plain("whenever"))>>
TooWide == KeyOne \o <<Pair("Level", Num(2))>>
ToTheCap == KeyTwo \o <<Pair("Limits", Limits(ThreeQuarters, <<Bare(FourAndAQuarter), Bare(Half)>>))>>
PastTheCap == KeyTwo \o <<Pair("Limits", Limits(Num(1), <<Limits(Num(1), <<Bare(Num(1))>>)>>))>>
Twice == KeyOne \o <<Pair("Level", Num(0)), Pair("Expires", <<"string", <<"iso", 1>>>>),
                     Pair("Level", Num(1)), Pair("Level", <<"null">>)>>
Huge == KeyTwo \o <<Pair("Amount", Num(32))>>
Misspelled == KeyTwo \o <<Pair("Lvl", Num(1))>>
Mixed == KeyTwo \o <<Pair("Counts", Array(<<Num(1), Num(3)>>)), Pair("Ratio", TwoAndAQuarter),
                     Pair("Blob", Base64Of("b")), Pair("On", <<"bool", FALSE>>),
                     Pair("Counts", Array(<<Num(0)>>))>>
Keyless == <<Pair("Level", Num(1))>>

MCDocuments == {TooWide, Huge, ToTheCap, PastTheCap, Twice, Misspelled, Mixed}
Objects(docs) == [i \in DOMAIN docs |-> Object(docs[i])]
MCBatches ==
  {<<>>, Objects(<<Negative, ToTheCap>>), Objects(<<Twice, Misspelled>>), Objects(<<Negative, Twice>>),
   Objects(<<ToTheCap, Keyless>>), <<Object(Mixed), Num(1)>>}
MCKeyLists ==
  {<<>>, <<Pair("p", Array(<<Plain("a")>>))>>, <<Pair("p", Array(<<Plain("a"), Num(1)>>))>>}

Bytes(no, bytes) == [no |-> no, value |-> bytes]
Message(fields) == <<"message", fields>>
Own(p, r) == <<Bytes(1, <<"text", <<"plain", p>> >>), Bytes(2, <<"text", <<"plain", r>> >>)>>
Deep == Message(<<Bytes(2, Message(<<Bytes(2, Message(<<Bytes(2, Message(<<>>))>>))>>))>>)

MCClientRows ==
  { <<1, Own("q", "a") \o <<Varint(5, 5), Bytes(6, Deep), Varint(77, 7)>> >>,
    <<2, Own("p", "a") \o <<Bytes(6, <<"packed", <<1, 2>> >>), [no |-> 5, value |-> <<"fixed", 2>>], Varint(6, 6),
                            Varint(8, 1), Varint(ExpiresNo, 1)>> >>,
    <<3, Own("q", "a") \o <<Bytes(5, <<"blob", "b">>), Varint(5, 7)>> >> }

MCArchive == Parsed(2, Own("p", "a") \o <<Varint(8, 1)>>, Absent)
=============================================================================
