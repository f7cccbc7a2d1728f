-------------------------- MODULE NamespacesProofs --------------------------
(***************************************************************************)
(* The invariants of Namespaces for any number of names, tables, calls and *)
(* crashes.  Who may touch what is settled by two locks (Locks) and by who *)
(* came into being when: a namespace or a table made by a call has been    *)
(* seen by nobody before (Births), a table sits where it was made (Homes)  *)
(* until a move takes it out, which nobody else then holds (Hands).  A     *)
(* name that is being deleted, and what is opened on it meanwhile, is told *)
(* by Going, Priming and Passing.  On that rest the two halves of the      *)
(* matter: a served namespace and its folder (Mirrored), and rows that     *)
(* were acknowledged (Kept).                                               *)
(***************************************************************************)
EXTENDS Namespaces, TLAPS

RequestState ==
  [at : Places, kind : Kinds \cup {NONE}, name : Names \cup {NONE},
   table : Tables \cup {NONE}, ns : Opened \cup {NONE}, source : Opened \cup {NONE},
   obj : Objects \cup {NONE}, copied : SUBSET (Rows \cup Tables), owes : Seq(Task),
   then : {NONE, "ended", "insert", "clean"}, answer : Answers]

(* What a call has in hand at each place.                                    *)
Working == {"table", "insert", "mark", "check", "take", "copy", "publish", "clean"}
Marking(x) ==
  /\ x.kind \in {"create", "write", "restore", "move"} /\ x.obj \in Objects
  /\ x.kind \in {"create", "write"} => x.then = "ended"
  /\ x.kind = "restore" => x.then \in {"insert", "ended"}
  /\ x.kind = "move" =>
       x.then \in {"clean", "ended"} /\ x.source \in Opened /\ x.source # x.ns

Placed(x) ==
  /\ x.at = "idle" => x = NewRequest
  /\ x.at \in {"resolve", "prime"} =>
       /\ x.kind \in Kinds \ {"delete"} /\ x.obj = NONE
       /\ x.kind = "move" => x.source \in Opened
  /\ x.at = "resolve" => x.ns = NONE
  /\ x.at = "table" => x.kind \in {"write", "create", "restore"}
  /\ x.at = "insert" => x.kind \in {"write", "restore"} /\ x.obj \in Objects
  /\ x.at \in {"check", "take", "copy", "publish", "clean"} =>
       x.kind = "move" /\ x.source \in Opened
  /\ x.at \in {"take", "copy", "publish", "clean"} => x.source # x.ns
  /\ x.at \in {"copy", "publish", "clean"} => x.obj \in Objects
  /\ x.at = "publish" => x.copied \subseteq Rows
  /\ x.at = "mark" => Marking(x)
  /\ x.at \in {"resolve", "prime"} \cup Working => x.name \in Names /\ x.table \in Tables
  /\ x.at \in {"prime"} \cup Working => x.ns \in Opened
  /\ x.at \in {"wait", "tables"} =>
       x.kind = "delete" /\ x.name \in Names \ {DEFAULT} /\ x.ns \in Opened
  /\ x.at = "tables" => x.copied \subseteq Tables

GoodRequest == {x \in RequestState : Placed(x)}

(* Types.                                                                    *)
Typed == TypeOK /\ request \in [Requests -> GoodRequest]

Locks ==
  /\ \A q \in Requests : (writeLock = q <=> At(q, "prime")) /\ (persistLock = q <=> At(q, "tables"))
  /\ pass # {} => persistLock = "pass"

(* A namespace nobody has seen, and a table nobody has seen.                 *)
Unopened(q) ==
  /\ \A n \in Names : map[n] # q
  /\ \A p \in Requests : request[p].source # q /\ (p # q => request[p].ns # q)
  /\ tables[q] = NoTables /\ queue[q] = {} /\ q \notin pass

Unborn(q) ==
  /\ rows[q] = {}
  /\ \A i \in Opened, t \in Tables : tables[i][t] # q
  /\ \A p \in Requests : request[p].obj # q

Opening == {"idle", "resolve", "prime"}
Bearing == Opening \cup {"table", "check", "take", "copy", "publish"}

Births ==
  \A q \in Requests :
    /\ request[q].at \in Opening => Unopened(q)
    /\ request[q].at \in Bearing => Unborn(q)
    /\ At(q, "prime") => request[q].ns = q

(* The namespace and the name a table was made for.                          *)
InHome(o, i, t) ==
  IF o \in Requests THEN request[o].ns = i /\ request[o].table = t ELSE o = <<i, t>>

AboutToInsert(q) == At(q, "insert") \/ (At(q, "mark") /\ request[q].then = "insert")

Homes ==
  /\ \A n \in Names : map[n] # NONE => NameOf(map[n]) = n
  /\ \A i \in pass : NameOf(i) \in Names
  /\ \A i \in Opened, t \in Tables : tables[i][t] # NONE => InHome(tables[i][t], i, t)
  /\ \A q \in Requests :
       AboutToInsert(q) => InHome(request[q].obj, request[q].ns, request[q].table)

(* From the table's leaving its namespace to its being cleaned.              *)
Moving(q) ==
  \/ request[q].at \in {"copy", "publish", "clean"}
  \/ At(q, "mark") /\ request[q].kind = "move" /\ request[q].then = "clean"

Hands ==
  \A q \in Requests : Moving(q) =>
    /\ \A i \in Opened, t \in Tables : tables[i][t] # request[q].obj
    /\ \A p \in Requests : p # q /\ Moving(p) => request[p].obj # request[q].obj

(* A deletion that has taken its namespace out of the map.                   *)
Deletes(d) == request[d].at \in {"wait", "tables"}

Going ==
  \A d \in Requests : Deletes(d) =>
    /\ \A n \in Names : map[n] # request[d].ns
    /\ map[request[d].name] \in doomed \cup {NONE}
    /\ \A p \in Requests : At(p, "prime") /\ request[p].name = request[d].name => p \in doomed

Priming ==
  \A p \in Requests : At(p, "prime") =>
    /\ map[request[p].name] = NONE
    /\ p \notin doomed => LoadedTables(request[p].name) = {} /\ repo[p].meta = {}

Passing ==
  \A i \in pass :
    /\ folder[NameOf(i)].exists \/ i \in doomed
    /\ map[NameOf(i)] # i => \E d \in Requests : At(d, "wait") /\ request[d].name = NameOf(i)

Gone == \A n \in Names : ~folder[n].exists => folder[n] = NoFolder

(* What the repository of a served namespace knows is what is there.         *)
Known(n) ==
  /\ folder[n].exists
  /\ repo[map[n]].meta = folder[n].meta
  /\ Slots(n) \subseteq repo[map[n]].index

(* A move owes the rows it holds, if it holds any.                           *)
OwesRowsBy(q, i, t) ==
  \/ At(q, "mark") /\ Marks(q) = i /\ \E k \in 1 .. Len(request[q].owes) :
                                          request[q].owes[k] = Partition(t)
  \/ Moving(q) /\ request[q].source = i /\ request[q].table = t /\ rows[request[q].obj] # {}

OwesEntryBy(q, i, t) ==
  \/ At(q, "mark") /\ Marks(q) = i /\ \E k \in 1 .. Len(request[q].owes) :
                                          request[q].owes[k] = Metadata(t)
  \/ Moving(q) /\ request[q].source = i /\ request[q].table = t

RowsMirrored(n, t) ==
  Content(map[n], t) # folder[n].slot[t] =>
    \/ Partition(t) \in queue[map[n]]
    \/ \E q \in Requests : OwesRowsBy(q, map[n], t)
    \/ PublishedOver(n, t)

EntryMirrored(n, t) ==
  (tables[map[n]][t] # NONE) # (t \in folder[n].meta) =>
    \/ Metadata(t) \in queue[map[n]]
    \/ \E q \in Requests : OwesEntryBy(q, map[n], t)
    \/ RestoredWithoutEntry(n, t)

Mirrored ==
  \A n \in Names : map[n] # NONE /\ map[n] \notin doomed =>
    Known(n) /\ \A t \in Tables : RowsMirrored(n, t) /\ EntryMirrored(n, t)

(* Rows that are, or will be, acknowledged; and where one may be.            *)
Inserted(q) ==
  /\ request[q].kind \in {"write", "restore"}
  /\ \/ At(q, "mark") /\ request[q].then = "ended"
     \/ request[q].answer = "done"

InTable(x, n, t) ==
  /\ map[n] # NONE
  /\ tables[map[n]][t] # NONE
  /\ x \in rows[tables[map[n]][t]]

Carries(q, x) ==
  \/ At(q, "copy") /\ x \in rows[request[q].obj]
  \/ At(q, "publish") /\ x \in request[q].copied

Found(x) ==
  \/ \E n \in Names, t \in Tables : InTable(x, n, t)
  \/ \E q \in Requests : Carries(q, x)
  \/ x \in forgiven

Kept == Found(SEEDED) /\ \A q \in Requests : Inserted(q) => Found(q)

IInv ==
  /\ Typed
  /\ Locks
  /\ Births
  /\ Homes
  /\ Hands
  /\ Going
  /\ Priming
  /\ Passing
  /\ Gone
  /\ Mirrored
  /\ Kept

-----------------------------------------------------------------------------
(* What a step does to its call.                                             *)

After(q) ==
  /\ request' \in [Requests -> GoodRequest]
  /\ \A p \in Requests : p # q => request'[p] = request[p]

(* The call it was.                                                          *)
Same(q) ==
  /\ request'[q].kind = request[q].kind /\ request'[q].name = request[q].name
  /\ request'[q].table = request[q].table /\ request'[q].source = request[q].source

LEMMA RequestFacts ==
  ASSUME NEW q \in Requests, Typed
  PROVE  request[q] \in RequestState /\ Placed(request[q])
BY DEF Typed, GoodRequest

LEMMA Sets ==
  /\ NONE \notin Opened \cup Objects \cup Tables \cup Names
  /\ NONE \notin {"pass", "done"}
  /\ Requests \subseteq Opened /\ Requests \subseteq Objects /\ Requests \subseteq Rows
  /\ Names \subseteq Opened
  /\ \A n \in Names, t \in Tables : <<n, t>> \in Objects /\ <<n, t>> \notin Requests
  /\ \A n \in Names : n \notin Requests
  /\ "pass" \notin Requests /\ SEEDED \notin Requests /\ SEEDED \in Rows /\ NONE \notin Requests
BY ApartAssumption DEF Opened, Objects, Rows

LEMMA GoesAfter ==
  ASSUME NEW q \in Requests, Typed, NEW r, r \in RequestState, Placed(r), Goes(q, r)
  PROVE  After(q) /\ request'[q] = r
BY DEF Typed, Goes, After, GoodRequest

LEMMA EndsAfter ==
  ASSUME NEW q \in Requests, Typed, NEW answer, answer \in Answers, Ends(q, answer)
  PROVE  /\ After(q) /\ Same(q)
         /\ request'[q].at = "ended" /\ request'[q].answer = answer
         /\ request'[q].ns = request[q].ns /\ request'[q].obj = request[q].obj
<1> DEFINE x == request[q]
           r == [x EXCEPT !.at = "ended", !.answer = answer, !.owes = <<>>]
<1>1. x \in RequestState
  BY RequestFacts
<1>2. /\ r \in RequestState /\ r.at = "ended" /\ r.answer = answer
      /\ r.kind = x.kind /\ r.name = x.name /\ r.table = x.table /\ r.source = x.source
      /\ r.ns = x.ns /\ r.obj = x.obj
  <2>1. "ended" \in Places /\ <<>> \in Seq(Task)
    BY DEF Places
  <2> QED BY <1>1, <2>1 DEF RequestState
<1>3. Placed(r)
  BY <1>2 DEF Placed, Working
<1>4. Goes(q, r)
  BY DEF Ends
<1> HIDE DEF r
<1>5. After(q) /\ request'[q] = r
  BY <1>2, <1>3, <1>4, GoesAfter
<1> QED BY <1>2, <1>5 DEF Same

LEMMA ResolveRequest ==
  ASSUME NEW q \in Requests, Typed, Resolve(q)
  PROVE  /\ After(q) /\ Same(q)
         /\ request[q].at = "resolve" /\ request'[q].at = AfterResolve(q)
         /\ request'[q].ns = map[request[q].name] /\ map[request[q].name] # NONE
         /\ request'[q].obj = NONE /\ request'[q].answer = request[q].answer
<1> DEFINE x == request[q]
           r == [x EXCEPT !.at = AfterResolve(q), !.ns = map[x.name]]
<1>1. x \in RequestState /\ Placed(x) /\ x.at = "resolve" /\ map[x.name] # NONE
  BY RequestFacts DEF Resolve, At
<1>2. x.name \in Names /\ map[x.name] \in Opened /\ AfterResolve(q) \in Places
  BY <1>1 DEF Placed, Typed, TypeOK, AfterResolve, Places
<1>3. /\ r \in RequestState /\ r.at = AfterResolve(q) /\ r.ns = map[x.name]
      /\ r.kind = x.kind /\ r.name = x.name /\ r.table = x.table /\ r.source = x.source
      /\ r.obj = x.obj /\ r.answer = x.answer
  BY <1>1, <1>2 DEF RequestState
<1>4. Placed(r)
  BY <1>1, <1>2, <1>3 DEF Placed, Working, AfterResolve, Kinds
<1>5. Goes(q, r)
  BY DEF Resolve
<1> HIDE DEF r
<1>6. After(q) /\ request'[q] = r
  BY <1>3, <1>4, <1>5, GoesAfter
<1> QED BY <1>1, <1>3, <1>6 DEF Same, Placed

LEMMA NewFacts ==
  /\ NewRequest.at = "idle" /\ NewRequest.kind = NONE /\ NewRequest.ns = NONE
  /\ NewRequest.source = NONE /\ NewRequest.obj = NONE /\ NewRequest.answer = NONE
  /\ NewRequest.owes = <<>> /\ NewRequest.then = NONE
BY DEF NewRequest

LEMMA CallRequest ==
  ASSUME NEW q \in Requests, Typed, Call(q)
  PROVE  /\ After(q)
         /\ request[q] = NewRequest /\ request'[q].at = "resolve"
         /\ request'[q].ns = NONE /\ request'[q].source = NONE /\ request'[q].obj = NONE
         /\ request'[q].answer = NONE /\ request'[q].name \in Names
<1>1. PICK kind \in Kinds \ {"move", "delete"}, n \in Names, t \in Tables :
        Goes(q, [request[q] EXCEPT !.at = "resolve", !.kind = kind, !.name = n, !.table = t])
  BY DEF Call
<1> DEFINE x == request[q]
           r == [x EXCEPT !.at = "resolve", !.kind = kind, !.name = n, !.table = t]
<1>2. x \in RequestState /\ x = NewRequest
  BY RequestFacts DEF Call, At, Placed
<1>3. /\ r \in RequestState /\ r.at = "resolve" /\ r.kind = kind /\ r.name = n /\ r.table = t
      /\ r.ns = x.ns /\ r.obj = x.obj /\ r.source = x.source /\ r.answer = x.answer
  BY <1>2 DEF RequestState, Places
<1>4. Placed(r)
  BY <1>2, <1>3, NewFacts DEF Placed, Working, Kinds
<1> HIDE DEF r
<1>5. After(q) /\ request'[q] = r
  BY <1>1, <1>3, <1>4, GoesAfter DEF r
<1> QED BY <1>2, <1>3, <1>5, NewFacts

LEMMA CallMoveRequest ==
  ASSUME NEW q \in Requests, Typed, CallMove(q)
  PROVE  /\ After(q)
         /\ request[q] = NewRequest
         /\ request'[q].ns = NONE /\ request'[q].obj = NONE
         /\ \/ /\ request'[q].at = "ended" /\ request'[q].kind = NONE
               /\ request'[q].source = NONE /\ request'[q].answer # "done"
            \/ /\ request'[q].at = "resolve" /\ request'[q].name \in Names
               /\ request'[q].answer = NONE
               /\ \E n \in Names : map[n] # NONE /\ request'[q].source = map[n]
<1> DEFINE x == request[q]
<1>1. x \in RequestState /\ x = NewRequest
  BY RequestFacts DEF CallMove, At, Placed
<1>2. CASE Ends(q, "namespace not found")
  <2>1. "namespace not found" \in Answers
    BY DEF Answers
  <2>2. After(q) /\ Same(q) /\ request'[q].at = "ended" /\ request'[q].ns = x.ns
        /\ request'[q].obj = x.obj /\ request'[q].answer = "namespace not found"
    BY <1>2, <2>1, EndsAfter
  <2> QED BY <1>1, <2>2, NewFacts DEF Same
<1>3. CASE ~Ends(q, "namespace not found")
  <2>1. PICK n, m \in Names, t \in Tables :
          /\ map[n] # NONE
          /\ Goes(q, [request[q] EXCEPT !.at = "resolve", !.kind = "move", !.name = m,
                                        !.table = t, !.source = map[n]])
    BY <1>3 DEF CallMove
  <2> DEFINE r == [x EXCEPT !.at = "resolve", !.kind = "move", !.name = m,
                            !.table = t, !.source = map[n]]
  <2>2. map[n] \in Opened
    BY <2>1 DEF Typed, TypeOK
  <2>3. /\ r \in RequestState /\ r.at = "resolve" /\ r.kind = "move" /\ r.name = m
        /\ r.table = t /\ r.source = map[n]
        /\ r.ns = x.ns /\ r.obj = x.obj /\ r.answer = x.answer
    BY <1>1, <2>2 DEF RequestState, Places, Kinds
  <2>4. Placed(r)
    BY <1>1, <2>2, <2>3, NewFacts DEF Placed, Working, Kinds
  <2> HIDE DEF r
  <2>5. After(q) /\ request'[q] = r
    BY <2>1, <2>3, <2>4, GoesAfter DEF r
  <2> QED BY <1>1, <2>1, <2>3, <2>5, NewFacts
<1> QED BY <1>2, <1>3

LEMMA OpenFolderRequest ==
  ASSUME NEW q \in Requests, Typed, OpenFolder(q)
  PROVE  /\ After(q) /\ Same(q)
         /\ request[q].at = "resolve" /\ request'[q].at = "prime"
         /\ request'[q].ns = q /\ request'[q].obj = NONE
         /\ request'[q].answer = request[q].answer /\ request[q].name \in Names
<1> DEFINE x == request[q]
           r == [x EXCEPT !.at = "prime", !.ns = q]
<1>1. x \in RequestState /\ Placed(x) /\ x.at = "resolve" /\ q \in Opened /\ x.name \in Names
  BY RequestFacts, Sets DEF OpenFolder, At, Placed
<1>2. /\ r \in RequestState /\ r.at = "prime" /\ r.ns = q
      /\ r.kind = x.kind /\ r.name = x.name /\ r.table = x.table /\ r.source = x.source
      /\ r.obj = x.obj /\ r.answer = x.answer
  BY <1>1 DEF RequestState, Places
<1>3. Placed(r)
  BY <1>1, <1>2 DEF Placed, Working
<1>4. Goes(q, r)
  BY DEF OpenFolder
<1> HIDE DEF r
<1>5. After(q) /\ request'[q] = r
  BY <1>2, <1>3, <1>4, GoesAfter
<1> QED BY <1>1, <1>2, <1>5 DEF Same, Placed

LEMMA PrimeRequest ==
  ASSUME NEW q \in Requests, Typed, Prime(q)
  PROVE  /\ After(q) /\ Same(q)
         /\ request[q].at = "prime"
         /\ request'[q].at = IF folder[request[q].name].exists THEN AfterResolve(q) ELSE "ended"
         /\ request'[q].ns = request[q].ns /\ request'[q].obj = NONE
         /\ request'[q].answer \in {request[q].answer, "panic"}
<1> DEFINE x == request[q]
           r == [x EXCEPT !.at = AfterResolve(q)]
<1>1. x \in RequestState /\ Placed(x) /\ x.at = "prime" /\ x.obj = NONE
  BY RequestFacts DEF Prime, At, Placed
<1>2. CASE ~folder[x.name].exists
  <2>1. "panic" \in Answers /\ Ends(q, "panic")
    BY <1>2 DEF Answers, Prime
  <2> QED BY <1>1, <1>2, <2>1, EndsAfter
<1>3. CASE folder[x.name].exists
  <2>1. AfterResolve(q) \in Places
    BY DEF AfterResolve, Places
  <2>2. /\ r \in RequestState /\ r.at = AfterResolve(q) /\ r.ns = x.ns
        /\ r.kind = x.kind /\ r.name = x.name /\ r.table = x.table /\ r.source = x.source
        /\ r.obj = x.obj /\ r.answer = x.answer
    BY <1>1, <2>1 DEF RequestState
  <2>3. Placed(r)
    BY <1>1, <2>2 DEF Placed, Working, AfterResolve, Kinds
  <2>4. Goes(q, r)
    BY <1>3 DEF Prime
  <2> HIDE DEF r
  <2>5. After(q) /\ request'[q] = r
    BY <2>2, <2>3, <2>4, GoesAfter
  <2> QED BY <1>1, <1>3, <2>2, <2>5 DEF Same
<1> QED BY <1>2, <1>3

LEMMA HeldType ==
  ASSUME NEW q \in Requests, Typed, request[q].ns \in Opened, request[q].table \in Tables
  PROVE  Held(q) \in Objects \cup {NONE}
BY DEF Typed, TypeOK, Held

LEMMA LookUpRequest ==
  ASSUME NEW q \in Requests, Typed, LookUp(q)
  PROVE  /\ After(q) /\ Same(q)
         /\ request[q].at = "table" /\ request'[q].ns = request[q].ns
         /\ \/ request'[q].at = "ended" /\ request'[q].answer = "table not found"
               /\ request'[q].obj = request[q].obj
            \/ /\ request'[q].at = "insert" /\ request'[q].answer = request[q].answer
               /\ request'[q].obj = Held(q) /\ Held(q) # NONE
<1> DEFINE x == request[q]
           r == [x EXCEPT !.at = "insert", !.obj = Held(q)]
<1>1. /\ x \in RequestState /\ Placed(x) /\ x.at = "table" /\ x.kind = "write"
      /\ x.ns \in Opened /\ x.table \in Tables
  BY RequestFacts DEF LookUp, At, Placed, Working
<1>2. CASE Held(q) = NONE
  <2>1. "table not found" \in Answers /\ Ends(q, "table not found")
    BY <1>2 DEF Answers, LookUp
  <2> QED BY <1>1, <1>2, <2>1, EndsAfter
<1>3. CASE Held(q) # NONE
  <2>1. Held(q) \in Objects
    BY <1>1, <1>3, HeldType
  <2>2. /\ r \in RequestState /\ r.at = "insert" /\ r.ns = x.ns /\ r.obj = Held(q)
        /\ r.kind = x.kind /\ r.name = x.name /\ r.table = x.table /\ r.source = x.source
        /\ r.answer = x.answer
    BY <1>1, <2>1 DEF RequestState, Places
  <2>3. Placed(r)
    BY <1>1, <2>1, <2>2 DEF Placed, Working
  <2>4. Goes(q, r)
    BY <1>3 DEF LookUp
  <2> HIDE DEF r
  <2>5. After(q) /\ request'[q] = r
    BY <2>2, <2>3, <2>4, GoesAfter
  <2> QED BY <1>1, <1>3, <2>2, <2>5 DEF Same
<1> QED BY <1>2, <1>3

LEMMA GetOrCreateTableRequest ==
  ASSUME NEW q \in Requests, Typed, GetOrCreateTable(q)
  PROVE  /\ After(q) /\ Same(q)
         /\ request[q].at = "table" /\ request'[q].ns = request[q].ns
         /\ request[q].kind \in {"create", "restore"}
         /\ \/ request'[q].at = "ended" /\ request'[q].answer = "table exists"
               /\ Held(q) # NONE /\ request'[q].obj = request[q].obj
            \/ /\ request'[q].at = "mark" /\ request'[q].answer = request[q].answer
               /\ request'[q].owes = <<Metadata(request[q].table)>>
               /\ request'[q].obj = IF Held(q) = NONE THEN q ELSE Held(q)
               /\ request'[q].then = IF request[q].kind = "create" THEN "ended" ELSE "insert"
<1> DEFINE x == request[q]
           o == IF Held(q) = NONE THEN q ELSE Held(q)
           then == IF x.kind = "create" THEN "ended" ELSE "insert"
           r == [x EXCEPT !.at = "mark", !.owes = <<Metadata(x.table)>>, !.obj = o,
                          !.then = then]
<1>1. /\ x \in RequestState /\ Placed(x) /\ x.at = "table" /\ x.kind \in {"create", "restore"}
      /\ x.ns \in Opened /\ x.table \in Tables
  BY RequestFacts DEF GetOrCreateTable, At, Placed, Working
<1>2. CASE x.kind = "create" /\ Held(q) # NONE
  <2>1. "table exists" \in Answers /\ Ends(q, "table exists")
    BY <1>2 DEF Answers, GetOrCreateTable
  <2> QED BY <1>1, <1>2, <2>1, EndsAfter
<1>3. CASE ~(x.kind = "create" /\ Held(q) # NONE)
  <2>1. o \in Objects
    BY <1>1, HeldType, Sets
  <2>2. <<Metadata(x.table)>> \in Seq(Task) /\ then \in {"ended", "insert"}
    <3>1. Metadata(x.table) \in Task
      BY <1>1 DEF Task
    <3> QED BY <3>1
  <2> HIDE DEF o, then
  <2>3. /\ r \in RequestState /\ r.at = "mark" /\ r.ns = x.ns /\ r.obj = o
        /\ r.kind = x.kind /\ r.name = x.name /\ r.table = x.table /\ r.source = x.source
        /\ r.answer = x.answer /\ r.owes = <<Metadata(x.table)>> /\ r.then = then
    BY <1>1, <2>1, <2>2 DEF RequestState, Places
  <2>4. Placed(r)
    BY <1>1, <2>1, <2>2, <2>3 DEF Placed, Working, Marking, then
  <2>5. Goes(q, r)
    BY <1>3 DEF GetOrCreateTable, o, then
  <2> HIDE DEF r
  <2>6. After(q) /\ request'[q] = r
    BY <2>3, <2>4, <2>5, GoesAfter
  <2> QED BY <1>1, <2>3, <2>6 DEF Same, o, then
<1> QED BY <1>2, <1>3

LEMMA InsertRequest ==
  ASSUME NEW q \in Requests, Typed, Insert(q)
  PROVE  /\ After(q) /\ Same(q)
         /\ request[q].at = "insert" /\ request'[q].at = "mark"
         /\ request'[q].ns = request[q].ns /\ request'[q].obj = request[q].obj
         /\ request'[q].owes = <<Partition(request[q].table)>>
         /\ request'[q].then = "ended" /\ request'[q].answer = request[q].answer
<1> DEFINE x == request[q]
           r == [x EXCEPT !.at = "mark", !.owes = <<Partition(x.table)>>, !.then = "ended"]
<1>1. /\ x \in RequestState /\ Placed(x) /\ x.at = "insert" /\ x.table \in Tables
      /\ x.kind \in {"write", "restore"} /\ x.obj \in Objects
  BY RequestFacts DEF Insert, At, Placed, Working
<1>2. <<Partition(x.table)>> \in Seq(Task)
  <2>1. Partition(x.table) \in Task
    BY <1>1 DEF Task
  <2> QED BY <2>1
<1>3. /\ r \in RequestState /\ r.at = "mark" /\ r.ns = x.ns /\ r.obj = x.obj
      /\ r.kind = x.kind /\ r.name = x.name /\ r.table = x.table /\ r.source = x.source
      /\ r.answer = x.answer /\ r.owes = <<Partition(x.table)>> /\ r.then = "ended"
  BY <1>1, <1>2 DEF RequestState, Places
<1>4. Placed(r)
  BY <1>1, <1>3 DEF Placed, Working, Marking
<1>5. Goes(q, r)
  BY DEF Insert
<1> HIDE DEF r
<1>6. After(q) /\ request'[q] = r
  BY <1>3, <1>4, <1>5, GoesAfter
<1> QED BY <1>1, <1>3, <1>6 DEF Same

LEMMA MarkRequest ==
  ASSUME NEW q \in Requests, Typed, Mark(q)
  PROVE  /\ After(q) /\ Same(q)
         /\ request[q].at = "mark" /\ request'[q].at = "mark"
         /\ request'[q].ns = request[q].ns /\ request'[q].obj = request[q].obj
         /\ request[q].owes \in Seq(Task) /\ request[q].owes # <<>>
         /\ request'[q].owes = Tail(request[q].owes)
         /\ request'[q].then = request[q].then /\ request'[q].answer = request[q].answer
         /\ Marks(q) \in Opened
<1> DEFINE x == request[q]
           r == [x EXCEPT !.owes = Tail(@)]
<1>1. x \in RequestState /\ Placed(x) /\ x.at = "mark" /\ x.owes # <<>>
  BY RequestFacts DEF Mark, At
<1>2. x.owes \in Seq(Task) /\ Tail(x.owes) \in Seq(Task)
  BY <1>1 DEF RequestState
<1>3. /\ r \in RequestState /\ r.at = "mark" /\ r.ns = x.ns /\ r.obj = x.obj
      /\ r.kind = x.kind /\ r.name = x.name /\ r.table = x.table /\ r.source = x.source
      /\ r.answer = x.answer /\ r.owes = Tail(x.owes) /\ r.then = x.then
  BY <1>1, <1>2 DEF RequestState
<1>4. Placed(r)
  BY <1>1, <1>3 DEF Placed, Working, Marking
<1>5. Goes(q, r)
  BY DEF Mark
<1> HIDE DEF r
<1>6. After(q) /\ request'[q] = r
  BY <1>3, <1>4, <1>5, GoesAfter
<1>7. Marks(q) \in Opened
  BY <1>1 DEF Placed, Marking, Working, Marks
<1> QED BY <1>1, <1>2, <1>3, <1>6, <1>7 DEF Same

LEMMA MarkedRequest ==
  ASSUME NEW q \in Requests, Typed, Marked(q)
  PROVE  /\ After(q) /\ Same(q)
         /\ request[q].at = "mark" /\ request[q].owes = <<>>
         /\ request'[q].ns = request[q].ns /\ request'[q].obj = request[q].obj
         /\ \/ request'[q].at = "ended" /\ request[q].then = "ended"
            \/ /\ request'[q].at = request[q].then /\ request[q].then \in {"insert", "clean"}
               /\ request'[q].answer = request[q].answer
<1> DEFINE x == request[q]
           r == [x EXCEPT !.at = x.then]
<1>1. x \in RequestState /\ Placed(x) /\ x.at = "mark" /\ x.owes = <<>>
  BY RequestFacts DEF Marked, At
<1>2. CASE x.then = "ended"
  <2>1. "done" \in Answers /\ Ends(q, "done")
    BY <1>2 DEF Answers, Marked
  <2> QED BY <1>1, <1>2, <2>1, EndsAfter
<1>3. CASE x.then # "ended"
  <2>1. x.then \in {"insert", "clean"} /\ x.then \in Places
    BY <1>1, <1>3 DEF Placed, Marking, Places
  <2>2. /\ r \in RequestState /\ r.at = x.then /\ r.ns = x.ns /\ r.obj = x.obj
        /\ r.kind = x.kind /\ r.name = x.name /\ r.table = x.table /\ r.source = x.source
        /\ r.answer = x.answer
    BY <1>1, <2>1 DEF RequestState
  <2>3. Placed(r)
    <3>1. x.then = "insert" => x.kind = "restore"
      BY <1>1 DEF Placed, Marking
    <3>2. x.then = "clean" => x.kind = "move" /\ x.source \in Opened /\ x.source # x.ns
      BY <1>1 DEF Placed, Marking
    <3>3. x.obj \in Objects /\ x.name \in Names /\ x.table \in Tables /\ x.ns \in Opened
      BY <1>1 DEF Placed, Marking, Working
    <3> HIDE DEF r
    <3> QED BY <2>1, <2>2, <3>1, <3>2, <3>3 DEF Placed, Working
  <2>4. Goes(q, r)
    BY <1>3 DEF Marked
  <2> HIDE DEF r
  <2>5. After(q) /\ request'[q] = r
    BY <2>2, <2>3, <2>4, GoesAfter
  <2> QED BY <1>1, <2>1, <2>2, <2>5 DEF Same
<1> QED BY <1>2, <1>3

LEMMA MoveCheckRequest ==
  ASSUME NEW q \in Requests, Typed, MoveCheck(q)
  PROVE  /\ After(q) /\ Same(q)
         /\ request[q].at = "check" /\ request'[q].at \in {"take", "ended"}
         /\ request'[q].ns = request[q].ns /\ request'[q].obj = request[q].obj
         /\ request'[q].answer \in {request[q].answer, "table exists"}
<1> DEFINE x == request[q]
           r == [x EXCEPT !.at = "take"]
<1>1. x \in RequestState /\ Placed(x) /\ x.at = "check"
  BY RequestFacts DEF MoveCheck, At
<1>2. CASE x.source = x.ns \/ Held(q) # NONE
  <2>1. "table exists" \in Answers /\ Ends(q, "table exists")
    BY <1>2 DEF Answers, MoveCheck
  <2> QED BY <1>1, <2>1, EndsAfter
<1>3. CASE ~(x.source = x.ns \/ Held(q) # NONE)
  <2>1. /\ r \in RequestState /\ r.at = "take" /\ r.ns = x.ns /\ r.obj = x.obj
        /\ r.kind = x.kind /\ r.name = x.name /\ r.table = x.table /\ r.source = x.source
        /\ r.answer = x.answer
    BY <1>1 DEF RequestState, Places
  <2>2. Placed(r)
    BY <1>1, <1>3, <2>1 DEF Placed, Working
  <2>3. Goes(q, r)
    BY <1>3 DEF MoveCheck
  <2> HIDE DEF r
  <2>4. After(q) /\ request'[q] = r
    BY <2>1, <2>2, <2>3, GoesAfter
  <2> QED BY <1>1, <2>1, <2>4 DEF Same
<1> QED BY <1>2, <1>3

LEMMA MoveTakeRequest ==
  ASSUME NEW q \in Requests, Typed, MoveTake(q)
  PROVE  /\ After(q) /\ Same(q)
         /\ request[q].at = "take" /\ request'[q].ns = request[q].ns
         /\ request[q].source \in Opened /\ request[q].table \in Tables
         /\ request[q].kind = "move" /\ request[q].source # request[q].ns
         /\ LET held == tables[request[q].source][request[q].table] IN
            \/ request'[q].at = "ended" /\ request'[q].answer = "table not found"
               /\ request'[q].obj = request[q].obj /\ held = NONE
            \/ /\ request'[q].at = "copy" /\ request'[q].answer = request[q].answer
               /\ request'[q].obj = held /\ held # NONE
<1> DEFINE x == request[q]
           held == tables[x.source][x.table]
           r == [x EXCEPT !.at = "copy", !.obj = held]
<1>1. /\ x \in RequestState /\ Placed(x) /\ x.at = "take" /\ x.kind = "move"
      /\ x.source \in Opened /\ x.table \in Tables /\ x.source # x.ns
  BY RequestFacts DEF MoveTake, At, Placed, Working
<1>2. CASE held = NONE
  <2>1. "table not found" \in Answers /\ Ends(q, "table not found")
    BY <1>2 DEF Answers, MoveTake
  <2> QED BY <1>1, <1>2, <2>1, EndsAfter
<1>3. CASE held # NONE
  <2>1. held \in Objects
    BY <1>1, <1>3 DEF Typed, TypeOK
  <2> HIDE DEF held
  <2>2. /\ r \in RequestState /\ r.at = "copy" /\ r.ns = x.ns /\ r.obj = held
        /\ r.kind = x.kind /\ r.name = x.name /\ r.table = x.table /\ r.source = x.source
        /\ r.answer = x.answer
    BY <1>1, <2>1 DEF RequestState, Places
  <2>3. Placed(r)
    BY <1>1, <2>1, <2>2 DEF Placed, Working
  <2>4. Goes(q, r)
    BY <1>3 DEF MoveTake, held
  <2> HIDE DEF r
  <2>5. After(q) /\ request'[q] = r
    BY <2>2, <2>3, <2>4, GoesAfter
  <2> QED BY <1>1, <1>3, <2>2, <2>5 DEF Same, held
<1> QED BY <1>2, <1>3

LEMMA MoveCopyRequest ==
  ASSUME NEW q \in Requests, Typed, MoveCopy(q)
  PROVE  /\ After(q) /\ Same(q)
         /\ request[q].at = "copy" /\ request'[q].at = "publish"
         /\ request'[q].ns = request[q].ns /\ request'[q].obj = request[q].obj
         /\ request'[q].copied = rows[request[q].obj]
         /\ request'[q].answer = request[q].answer
<1> DEFINE x == request[q]
           r == [x EXCEPT !.at = "publish", !.copied = rows[x.obj]]
<1>1. /\ x \in RequestState /\ Placed(x) /\ x.at = "copy" /\ x.obj \in Objects
  BY RequestFacts DEF MoveCopy, At, Placed
<1>2. rows[x.obj] \subseteq Rows
  BY <1>1 DEF Typed, TypeOK
<1>3. /\ r \in RequestState /\ r.at = "publish" /\ r.ns = x.ns /\ r.obj = x.obj
      /\ r.kind = x.kind /\ r.name = x.name /\ r.table = x.table /\ r.source = x.source
      /\ r.answer = x.answer /\ r.copied = rows[x.obj]
  BY <1>1, <1>2 DEF RequestState, Places
<1>4. Placed(r)
  BY <1>1, <1>2, <1>3 DEF Placed, Working
<1>5. Goes(q, r)
  BY DEF MoveCopy
<1> HIDE DEF r
<1>6. After(q) /\ request'[q] = r
  BY <1>3, <1>4, <1>5, GoesAfter
<1> QED BY <1>1, <1>3, <1>6 DEF Same

LEMMA TwoTasks ==
  ASSUME NEW a, NEW b, a \in Task, b \in Task
  PROVE  /\ <<a>> \o <<b>> \in Seq(Task) /\ Len(<<a>> \o <<b>>) = 2
         /\ (<<a>> \o <<b>>)[1] = a /\ (<<a>> \o <<b>>)[2] = b
<1>1. /\ <<a>> \in Seq(Task) /\ Len(<<a>>) = 1 /\ <<a>>[1] = a
      /\ <<b>> \in Seq(Task) /\ Len(<<b>>) = 1 /\ <<b>>[1] = b
  OBVIOUS
<1> QED BY <1>1

LEMMA OneTask ==
  ASSUME NEW a, a \in Task
  PROVE  /\ <<a>> \o <<>> \in Seq(Task) /\ Len(<<a>> \o <<>>) = 1 /\ (<<a>> \o <<>>)[1] = a
         /\ <<>> \o <<a>> \in Seq(Task) /\ Len(<<>> \o <<a>>) = 1 /\ (<<>> \o <<a>>)[1] = a
<1>1. /\ <<a>> \in Seq(Task) /\ Len(<<a>>) = 1 /\ <<a>>[1] = a
      /\ <<>> \in Seq(Task) /\ Len(<<>>) = 0
  OBVIOUS
<1> QED BY <1>1

LEMMA PartitionOfFacts ==
  ASSUME NEW t \in Tables, NEW content
  PROVE  \A owes \in {<<Metadata(t)>> \o PartitionOf(t, content),
                       PartitionOf(t, content) \o <<Metadata(t)>>} :
           /\ owes \in Seq(Task)
           /\ \E k \in 1..Len(owes) : owes[k] = Metadata(t)
           /\ content # {} => \E k \in 1..Len(owes) : owes[k] = Partition(t)
<1>1. Metadata(t) \in Task /\ Partition(t) \in Task
  BY DEF Task
<1> SUFFICES ASSUME NEW owes,
                    \/ owes = <<Metadata(t)>> \o PartitionOf(t, content)
                    \/ owes = PartitionOf(t, content) \o <<Metadata(t)>>
             PROVE  /\ owes \in Seq(Task)
                    /\ \E k \in 1..Len(owes) : owes[k] = Metadata(t)
                    /\ content # {} => \E k \in 1..Len(owes) : owes[k] = Partition(t)
  OBVIOUS
<1>2. CASE content = {}
  <2>1. PartitionOf(t, content) = <<>>
    BY <1>2 DEF PartitionOf
  <2>2. owes \in Seq(Task) /\ Len(owes) = 1 /\ owes[1] = Metadata(t)
    BY <1>1, <2>1, OneTask
  <2>3. 1 \in 1..Len(owes)
    BY <2>2
  <2> QED BY <1>2, <2>2, <2>3
<1>3. CASE content # {}
  <2>1. PartitionOf(t, content) = <<Partition(t)>>
    BY <1>3 DEF PartitionOf
  <2>2. /\ owes \in Seq(Task) /\ Len(owes) = 2
        /\ \/ owes[1] = Metadata(t) /\ owes[2] = Partition(t)
           \/ owes[2] = Metadata(t) /\ owes[1] = Partition(t)
    <3> DEFINE mp == <<Metadata(t)>> \o <<Partition(t)>>
               pm == <<Partition(t)>> \o <<Metadata(t)>>
    <3>1. mp \in Seq(Task) /\ Len(mp) = 2 /\ mp[1] = Metadata(t) /\ mp[2] = Partition(t)
      BY <1>1, TwoTasks
    <3>2. pm \in Seq(Task) /\ Len(pm) = 2 /\ pm[1] = Partition(t) /\ pm[2] = Metadata(t)
      BY <1>1, TwoTasks
    <3>3. owes = mp \/ owes = pm
      BY <2>1
    <3> HIDE DEF mp, pm
    <3> QED BY <3>1, <3>2, <3>3
  <2>3. 1 \in 1..Len(owes) /\ 2 \in 1..Len(owes)
    BY <2>2
  <2> QED BY <2>2, <2>3
<1> QED BY <1>2, <1>3

LEMMA MovePublishRequest ==
  ASSUME NEW q \in Requests, Typed, MovePublish(q)
  PROVE  /\ After(q) /\ Same(q)
         /\ request[q].at = "publish" /\ request'[q].at = "mark"
         /\ request[q].copied \subseteq Rows /\ request[q].kind = "move"
         /\ request[q].ns \in Opened /\ request[q].table \in Tables
         /\ request'[q].ns = request[q].ns /\ request'[q].obj = request[q].obj
         /\ request'[q].answer = request[q].answer /\ request'[q].then = "clean"
         /\ \E k \in 1..Len(request'[q].owes) :
              request'[q].owes[k] = Metadata(request[q].table)
         /\ request[q].copied # {} => \E k \in 1..Len(request'[q].owes) :
              request'[q].owes[k] = Partition(request[q].table)
<1> DEFINE x == request[q]
           owed == <<Metadata(x.table)>> \o PartitionOf(x.table, x.copied)
           r == [x EXCEPT !.at = "mark", !.then = "clean", !.owes = owed]
<1>1. /\ x \in RequestState /\ Placed(x) /\ x.at = "publish" /\ x.kind = "move"
      /\ x.copied \subseteq Rows /\ x.obj \in Objects /\ x.table \in Tables /\ x.ns \in Opened
      /\ x.source \in Opened
  BY RequestFacts DEF MovePublish, At, Placed, Working
<1>2. /\ owed \in Seq(Task)
      /\ \E k \in 1..Len(owed) : owed[k] = Metadata(x.table)
      /\ x.copied # {} => \E k \in 1..Len(owed) : owed[k] = Partition(x.table)
  BY <1>1, PartitionOfFacts
<1>3. Goes(q, r)
  BY DEF MovePublish
<1> HIDE DEF owed
<1>4. /\ r \in RequestState /\ r.at = "mark" /\ r.ns = x.ns /\ r.obj = x.obj
      /\ r.kind = x.kind /\ r.name = x.name /\ r.table = x.table /\ r.source = x.source
      /\ r.answer = x.answer /\ r.then = "clean" /\ r.owes = owed
  BY <1>1, <1>2 DEF RequestState, Places
<1>5. Placed(r)
  BY <1>1, <1>4 DEF Placed, Working, Marking
<1> HIDE DEF r
<1>6. After(q) /\ request'[q] = r
  BY <1>3, <1>4, <1>5, GoesAfter
<1> QED BY <1>1, <1>2, <1>4, <1>6 DEF Same

LEMMA MoveCleanRequest ==
  ASSUME NEW q \in Requests, Typed, MoveClean(q)
  PROVE  /\ After(q) /\ Same(q)
         /\ request[q].at = "clean" /\ request'[q].at = "mark"
         /\ request[q].obj \in Objects /\ request[q].kind = "move"
         /\ request'[q].ns = request[q].ns /\ request'[q].obj = request[q].obj
         /\ request'[q].answer = request[q].answer /\ request'[q].then = "ended"
         /\ \E k \in 1..Len(request'[q].owes) :
              request'[q].owes[k] = Metadata(request[q].table)
         /\ rows[request[q].obj] # {} => \E k \in 1..Len(request'[q].owes) :
              request'[q].owes[k] = Partition(request[q].table)
<1> DEFINE x == request[q]
           owed == PartitionOf(x.table, rows[x.obj]) \o <<Metadata(x.table)>>
           r == [x EXCEPT !.at = "mark", !.then = "ended", !.owes = owed]
<1>1. /\ x \in RequestState /\ Placed(x) /\ x.at = "clean" /\ x.kind = "move"
      /\ x.obj \in Objects /\ x.table \in Tables /\ x.ns \in Opened /\ x.source \in Opened
  BY RequestFacts DEF MoveClean, At, Placed, Working
<1>2. /\ owed \in Seq(Task)
      /\ \E k \in 1..Len(owed) : owed[k] = Metadata(x.table)
      /\ rows[x.obj] # {} => \E k \in 1..Len(owed) : owed[k] = Partition(x.table)
  BY <1>1, PartitionOfFacts
<1>3. Goes(q, r)
  BY DEF MoveClean
<1> HIDE DEF owed
<1>4. /\ r \in RequestState /\ r.at = "mark" /\ r.ns = x.ns /\ r.obj = x.obj
      /\ r.kind = x.kind /\ r.name = x.name /\ r.table = x.table /\ r.source = x.source
      /\ r.answer = x.answer /\ r.then = "ended" /\ r.owes = owed
  BY <1>1, <1>2 DEF RequestState, Places
<1>5. Placed(r)
  BY <1>1, <1>4 DEF Placed, Working, Marking
<1> HIDE DEF r
<1>6. After(q) /\ request'[q] = r
  BY <1>3, <1>4, <1>5, GoesAfter
<1> QED BY <1>1, <1>2, <1>4, <1>6 DEF Same

LEMMA RemoveFromMapRequest ==
  ASSUME NEW q \in Requests, Typed, RemoveFromMap(q)
  PROVE  /\ After(q)
         /\ request[q] = NewRequest
         /\ request'[q].source = NONE /\ request'[q].obj = NONE
         /\ \/ /\ request'[q].at = "ended" /\ request'[q].kind = NONE
               /\ request'[q].ns = NONE /\ request'[q].answer # "done"
               /\ map' = map /\ forgiven' = forgiven
            \/ /\ request'[q].at = "wait" /\ request'[q].kind = "delete"
               /\ request'[q].answer = NONE
               /\ \E n \in Names : /\ n # DEFAULT /\ map[n] # NONE
                                   /\ request'[q].name = n /\ request'[q].ns = map[n]
                                   /\ map' = [map EXCEPT ![n] = NONE]
                                   /\ forgiven' = forgiven \cup ServedRows(map[n])
<1> DEFINE x == request[q]
<1>1. x \in RequestState /\ x = NewRequest
  BY RequestFacts DEF RemoveFromMap, At, Placed
<1>2. PICK n \in Names :
       IF n = DEFAULT \/ map[n] = NONE
       THEN Ends(q, "refused") /\ UNCHANGED <<map, forgiven>>
       ELSE /\ map' = [map EXCEPT ![n] = NONE]
            /\ Goes(q, [request[q] EXCEPT !.at = "wait", !.kind = "delete", !.name = n,
                                          !.ns = map[n]])
            /\ forgiven' = forgiven \cup ServedRows(map[n])
  BY DEF RemoveFromMap
<1>3. CASE n = DEFAULT \/ map[n] = NONE
  <2>1. Ends(q, "refused") /\ UNCHANGED <<map, forgiven>> /\ "refused" \in Answers
    BY <1>2, <1>3 DEF Answers
  <2>2. After(q) /\ Same(q) /\ request'[q].at = "ended" /\ request'[q].ns = x.ns
        /\ request'[q].obj = x.obj /\ request'[q].answer = "refused"
    BY <2>1, EndsAfter
  <2> QED BY <1>1, <2>1, <2>2, NewFacts DEF Same
<1>4. CASE ~(n = DEFAULT \/ map[n] = NONE)
  <2> DEFINE r == [x EXCEPT !.at = "wait", !.kind = "delete", !.name = n, !.ns = map[n]]
  <2>1. /\ map' = [map EXCEPT ![n] = NONE]
        /\ Goes(q, r)
        /\ forgiven' = forgiven \cup ServedRows(map[n])
    BY <1>2, <1>4
  <2>2. map[n] \in Opened
    BY <1>4 DEF Typed, TypeOK
  <2>3. /\ r \in RequestState /\ r.at = "wait" /\ r.kind = "delete" /\ r.name = n
        /\ r.ns = map[n] /\ r.table = x.table /\ r.source = x.source /\ r.obj = x.obj
        /\ r.answer = x.answer
    BY <1>1, <2>2 DEF RequestState, Places, Kinds
  <2>4. Placed(r)
    BY <1>4, <2>2, <2>3 DEF Placed, Working
  <2> HIDE DEF r
  <2>5. After(q) /\ request'[q] = r
    BY <2>1, <2>3, <2>4, GoesAfter
  <2> QED BY <1>1, <1>4, <2>1, <2>3, <2>5, NewFacts
<1> QED BY <1>3, <1>4

LEMMA DeleteTakeLockRequest ==
  ASSUME NEW q \in Requests, Typed, DeleteTakeLock(q)
  PROVE  /\ After(q) /\ Same(q)
         /\ request[q].at = "wait" /\ request'[q].at = "tables"
         /\ request'[q].ns = request[q].ns /\ request'[q].obj = request[q].obj
         /\ request'[q].answer = request[q].answer
<1> DEFINE x == request[q]
           held == {t \in Tables : tables[x.ns][t] # NONE}
           r == [x EXCEPT !.at = "tables", !.copied = held]
<1>1. /\ x \in RequestState /\ Placed(x) /\ x.at = "wait" /\ x.kind = "delete"
      /\ x.name \in Names \ {DEFAULT} /\ x.ns \in Opened
  BY RequestFacts DEF DeleteTakeLock, At, Placed
<1>2. Goes(q, r)
  BY DEF DeleteTakeLock
<1>3. held \subseteq Tables
  OBVIOUS
<1> HIDE DEF held
<1>4. /\ r \in RequestState /\ r.at = "tables" /\ r.ns = x.ns /\ r.obj = x.obj
      /\ r.kind = x.kind /\ r.name = x.name /\ r.table = x.table /\ r.source = x.source
      /\ r.answer = x.answer /\ r.copied = held
  BY <1>1, <1>3 DEF RequestState, Places
<1>5. Placed(r)
  BY <1>1, <1>3, <1>4 DEF Placed, Working
<1> HIDE DEF r
<1>6. After(q) /\ request'[q] = r
  BY <1>2, <1>4, <1>5, GoesAfter
<1> QED BY <1>1, <1>4, <1>6 DEF Same

LEMMA DeleteOneTableRequest ==
  ASSUME NEW q \in Requests, Typed, DeleteOneTable(q)
  PROVE  /\ After(q) /\ Same(q)
         /\ request[q].at = "tables" /\ request[q].ns \in Opened
         /\ request'[q].ns = request[q].ns /\ request'[q].obj = request[q].obj
         /\ request[q].kind = "delete"
         /\ \/ /\ request'[q].at = "ended" /\ persistLock' = NONE
               /\ UNCHANGED <<tables, rows, queue>>
            \/ /\ request'[q].at = "tables" /\ persistLock' = persistLock
               /\ \E t \in Tables :
                    /\ tables[request[q].ns][t] # NONE
                    /\ tables' = [tables EXCEPT ![request[q].ns][t] = NONE]
                    /\ rows' = [rows EXCEPT ![tables[request[q].ns][t]] = {}]
                    /\ queue' = [queue EXCEPT ![request[q].ns] = @ \cup {Metadata(t), Partition(t)}]
<1> DEFINE x == request[q]
           i == x.ns
<1>1. /\ x \in RequestState /\ Placed(x) /\ x.at = "tables" /\ x.kind = "delete"
      /\ x.name \in Names \ {DEFAULT} /\ x.ns \in Opened /\ x.copied \subseteq Tables
  BY RequestFacts DEF DeleteOneTable, At, Placed
<1>2. PICK t \in x.copied :
       IF tables[i][t] = NONE
       THEN /\ Ends(q, "table not found")
            /\ persistLock' = NONE
            /\ UNCHANGED <<tables, queue, rows>>
       ELSE /\ tables' = [tables EXCEPT ![i][t] = NONE]
            /\ rows' = [rows EXCEPT ![tables[i][t]] = {}]
            /\ queue' = [queue EXCEPT ![i] = @ \cup {Metadata(t), Partition(t)}]
            /\ Goes(q, [request[q] EXCEPT !.copied = @ \ {t}])
            /\ UNCHANGED persistLock
  BY DEF DeleteOneTable
<1>3. t \in Tables
  BY <1>1
<1>4. CASE tables[i][t] = NONE
  <2>1. "table not found" \in Answers /\ Ends(q, "table not found")
    BY <1>2, <1>4 DEF Answers
  <2> QED BY <1>1, <1>2, <1>4, <2>1, EndsAfter
<1>5. CASE tables[i][t] # NONE
  <2> DEFINE r == [x EXCEPT !.copied = @ \ {t}]
  <2>1. /\ tables' = [tables EXCEPT ![i][t] = NONE]
        /\ rows' = [rows EXCEPT ![tables[i][t]] = {}]
        /\ queue' = [queue EXCEPT ![i] = @ \cup {Metadata(t), Partition(t)}]
        /\ Goes(q, r)
        /\ UNCHANGED persistLock
    BY <1>2, <1>5
  <2>2. /\ r \in RequestState /\ r.at = "tables" /\ r.ns = x.ns /\ r.obj = x.obj
        /\ r.kind = x.kind /\ r.name = x.name /\ r.table = x.table /\ r.source = x.source
        /\ r.copied = x.copied \ {t}
    BY <1>1 DEF RequestState
  <2>3. Placed(r)
    BY <1>1, <2>2 DEF Placed, Working
  <2> HIDE DEF r
  <2>4. After(q) /\ request'[q] = r
    BY <2>1, <2>2, <2>3, GoesAfter
  <2> QED BY <1>1, <1>3, <1>5, <2>1, <2>2, <2>4 DEF Same
<1> QED BY <1>4, <1>5

LEMMA DeleteFolderRequest ==
  ASSUME NEW q \in Requests, Typed, DeleteFolder(q)
  PROVE  /\ After(q) /\ Same(q)
         /\ request[q].at = "tables" /\ request'[q].at = "ended"
         /\ request'[q].ns = request[q].ns /\ request'[q].obj = request[q].obj
         /\ request[q].kind = "delete"
         /\ request[q].name \in Names /\ request[q].ns \in Opened
         /\ folder' = folder \/ folder' = [folder EXCEPT ![request[q].name] = NoFolder]
<1>1. /\ request[q].at = "tables" /\ request[q].kind = "delete"
      /\ request[q].name \in Names /\ request[q].ns \in Opened
  BY RequestFacts DEF DeleteFolder, At, Placed
<1>2. PICK answer \in {"done", "folder not deleted"} : Ends(q, answer)
  BY DEF DeleteFolder
<1>3. answer \in Answers
  BY DEF Answers
<1>4. folder' = folder \/ folder' = [folder EXCEPT ![request[q].name] = NoFolder]
  BY DEF DeleteFolder
<1> QED BY <1>1, <1>2, <1>3, <1>4, EndsAfter

-----------------------------------------------------------------------------
(* What a step of one call has to see to, conjunct by conjunct.              *)

RestTyped ==
  /\ map \in [Names -> Opened \cup {NONE}]
  /\ writeLock \in Requests \cup {NONE}
  /\ tables \in [Opened -> [Tables -> Objects \cup {NONE}]]
  /\ queue \in [Opened -> SUBSET Task]
  /\ repo \in [Opened -> [index : SUBSET Tables, meta : SUBSET Tables]]
  /\ rows \in [Objects -> SUBSET Rows]
  /\ folder \in [Names -> [exists : BOOLEAN, meta : SUBSET Tables,
                           slot : [Tables -> SUBSET Rows]]]
  /\ pass \subseteq Opened
  /\ persistLock \in Requests \cup {"pass", NONE}
  /\ restarts \in 0 .. MaxRestarts
  /\ forgiven \subseteq Rows
  /\ doomed \subseteq Requests

LEMMA TypedParts == Typed <=> RestTyped /\ request \in [Requests -> GoodRequest]
<1>1. ASSUME request \in [Requests -> GoodRequest], NEW q \in Requests
      PROVE  /\ request[q].at \in Places
             /\ request[q].kind \in Kinds \cup {NONE}
             /\ request[q].answer \in Answers
             /\ request[q].ns \in Opened \cup {NONE}
             /\ request[q].obj \in Objects \cup {NONE}
             /\ request[q].at \in {"insert", "copy", "publish", "clean"} =>
                  request[q].obj # NONE
  <2>1. request[q] \in RequestState /\ Placed(request[q])
    BY <1>1 DEF GoodRequest
  <2>2. request[q].at \in {"insert", "copy", "publish", "clean"} => request[q].obj \in Objects
    BY <2>1 DEF Placed
  <2> QED BY <2>1, <2>2, Sets DEF RequestState
<1> QED BY <1>1 DEF Typed, TypeOK, RestTyped

LEMMA TypedNext == Typed' <=> RestTyped' /\ request' \in [Requests -> GoodRequest]
<1>1. (Typed <=> RestTyped /\ request \in [Requests -> GoodRequest])'
  BY TypedParts, PTL
<1> QED BY <1>1

LEMMA BirthsStep ==
  ASSUME NEW q \in Requests, Births, After(q),
         \A n \in Names : map'[n] \in {map[n], NONE, q},
         \A i \in Opened, t \in Tables : tables'[i][t] \in {tables[i][t], NONE, q},
         \A p \in Requests : p # q /\ request[p].at \in Opening =>
           /\ tables'[p] = tables[p] /\ queue'[p] = queue[p] /\ p \notin pass'
           /\ request'[q].source # p /\ request'[q].ns # p,
         \A p \in Requests : p # q /\ request[p].at \in Bearing =>
           rows'[p] = rows[p] /\ request'[q].obj # p,
         request'[q].at \in Opening => Unopened(q)',
         request'[q].at \in Bearing => Unborn(q)',
         At(q, "prime")' => request'[q].ns = q
  PROVE  Births'
<1> SUFFICES ASSUME NEW p \in Requests
             PROVE  /\ request'[p].at \in Opening => Unopened(p)'
                    /\ request'[p].at \in Bearing => Unborn(p)'
                    /\ At(p, "prime")' => request'[p].ns = p
  BY DEF Births
<1>1. CASE p = q
  BY <1>1
<1>2. CASE p # q
  <2>1. request'[p] = request[p] /\ \A o \in Requests : o # q => request'[o] = request[o]
    BY <1>2 DEF After
  <2>2. request[p].at \in Opening => Unopened(p)'
    <3> SUFFICES ASSUME request[p].at \in Opening PROVE Unopened(p)'
      OBVIOUS
    <3>1. Unopened(p) /\ p # NONE
      BY Sets DEF Births
    <3>2. \A n \in Names : map'[n] # p
      BY <1>2, <3>1 DEF Unopened
    <3>3. \A o \in Requests : request'[o].source # p /\ (o # p => request'[o].ns # p)
      BY <1>2, <2>1, <3>1 DEF Unopened
    <3> QED BY <1>2, <3>1, <3>2, <3>3 DEF Unopened
  <2>3. request[p].at \in Bearing => Unborn(p)'
    <3> SUFFICES ASSUME request[p].at \in Bearing PROVE Unborn(p)'
      OBVIOUS
    <3>1. Unborn(p) /\ p # NONE
      BY Sets DEF Births
    <3>2. \A i \in Opened, t \in Tables : tables'[i][t] # p
      BY <1>2, <3>1 DEF Unborn
    <3>3. \A o \in Requests : request'[o].obj # p
      BY <1>2, <2>1, <3>1 DEF Unborn
    <3> QED BY <1>2, <3>1, <3>2, <3>3 DEF Unborn
  <2> QED BY <2>1, <2>2, <2>3 DEF Births, At
<1> QED BY <1>1, <1>2

LEMMA HomesStep ==
  ASSUME NEW q \in Requests, Typed, Births, Homes, After(q),
         \A n \in Names : map'[n] # NONE =>
           map'[n] = map[n] \/ (map'[n] = q /\ request'[q].name = n),
         \A i \in pass' : i \in pass,
         request[q].at = "idle" \/ Same(q),
         request'[q].ns = request[q].ns \/ request[q].at \in Opening,
         \A i \in Opened, t \in Tables :
           \/ tables'[i][t] \in {tables[i][t], NONE}
           \/ tables'[i][t] = q /\ i = request'[q].ns /\ t = request'[q].table,
         AboutToInsert(q)' =>
           \/ AboutToInsert(q) /\ request'[q].obj = request[q].obj
           \/ /\ request'[q].ns \in Opened /\ request'[q].table \in Tables
              /\ request'[q].obj # NONE
              /\ request'[q].obj = tables'[request'[q].ns][request'[q].table]
  PROVE  Homes'
<1>1. \A p \in Requests : p # q => request'[p] = request[p]
  BY DEF After
<1>2. Opening \subseteq Bearing /\ "idle" \in Opening
  BY DEF Opening, Bearing
<1>3. \A n \in Names : map[n] \in Requests =>
        request'[map[n]].name = request[map[n]].name
  <2> SUFFICES ASSUME NEW n \in Names, map[n] = q
               PROVE  request'[q].name = request[q].name
    BY <1>1
  <2>1. request[q].at # "idle"
    BY <1>2 DEF Births, Unopened
  <2> QED BY <2>1 DEF Same
<1>4. ASSUME NEW n \in Names, NEW i, i = map'[n], i # NONE
      PROVE  NameOf(i)' = n
  <2>1. CASE i = map[n]
    <3>1. NameOf(i) = n
      BY <1>4, <2>1 DEF Homes
    <3>2. i \in Opened /\ (i \notin Names => i \in Requests)
      BY <1>4, <2>1 DEF Typed, TypeOK, Opened
    <3> QED BY <1>3, <2>1, <3>1, <3>2 DEF NameOf
  <2>2. CASE i = q /\ request'[q].name = n
    BY <2>2, Sets DEF NameOf
  <2> QED BY <1>4, <2>1, <2>2
<1>5. ASSUME NEW i \in pass'
      PROVE  NameOf(i)' \in Names
  <2>1. i \in pass /\ NameOf(i) \in Names /\ (i \notin Names => i \in Requests)
    BY <1>5 DEF Homes, Typed, TypeOK, Opened
  <2>2. i = q => request[q].at # "idle"
    BY <1>2, <2>1 DEF Births, Unopened
  <2>3. i \in Requests => request'[i].name = request[i].name
    BY <1>1, <2>2 DEF Same
  <2> QED BY <2>1, <2>3 DEF NameOf
<1>6. ASSUME NEW o, NEW i, NEW t, InHome(o, i, t),
             o = q => request[q].at \notin Bearing
      PROVE  InHome(o, i, t)'
  <2>1. o = q => request'[q].ns = request[q].ns /\ request'[q].table = request[q].table
    BY <1>2, <1>6 DEF Same
  <2> QED BY <1>1, <1>6, <2>1 DEF InHome
<1>7. ASSUME NEW i \in Opened, NEW t \in Tables, NEW o, o = tables'[i][t], o # NONE
      PROVE  InHome(o, i, t)'
  <2>1. CASE o = tables[i][t]
    <3>1. o = q => request[q].at \notin Bearing
      <4>1. request[q].at \in Bearing => tables[i][t] # q
        BY <1>7 DEF Births, Unborn
      <4> QED BY <2>1, <4>1
    <3>2. InHome(o, i, t)
      BY <1>7, <2>1 DEF Homes
    <3> QED BY <1>6, <3>1, <3>2
  <2>2. CASE o = q /\ i = request'[q].ns /\ t = request'[q].table
    BY <2>2 DEF InHome
  <2> QED BY <1>7, <2>1, <2>2
<1>8. ASSUME NEW p \in Requests, AboutToInsert(p)',
             NEW o, NEW i, NEW t, o = request'[p].obj, i = request'[p].ns, t = request'[p].table
      PROVE  InHome(o, i, t)'
  <2>1. CASE AboutToInsert(p) /\ request'[p].obj = request[p].obj
    <3>1. p = q => request'[q].ns = request[q].ns /\ request'[q].table = request[q].table
      BY <2>1 DEF AboutToInsert, At, Opening, Same
    <3>2. InHome(o, i, t)
      BY <1>1, <1>8, <2>1, <3>1 DEF Homes
    <3>3. o = q => request[q].at \notin Bearing
      BY <1>8, <2>1 DEF Births, Unborn
    <3> QED BY <1>6, <3>2, <3>3
  <2>2. CASE p = q /\ ~(AboutToInsert(q) /\ request'[q].obj = request[q].obj)
    BY <1>7, <1>8, <2>2
  <2>3. p # q => AboutToInsert(p) /\ request'[p].obj = request[p].obj
    BY <1>1, <1>8 DEF AboutToInsert, At
  <2> QED BY <2>1, <2>2, <2>3
<1>9. /\ \A n \in Names : map'[n] # NONE => NameOf(map[n])' = n
      /\ \A i \in pass' : NameOf(i)' \in Names
      /\ \A i \in Opened, t \in Tables : tables'[i][t] # NONE => InHome(tables[i][t], i, t)'
      /\ \A p \in Requests :
           AboutToInsert(p)' => InHome(request[p].obj, request[p].ns, request[p].table)'
  <2>1. \A n \in Names : map'[n] # NONE => NameOf(map[n])' = n
    BY <1>4 DEF NameOf
  <2>2. \A i \in Opened, t \in Tables : tables'[i][t] # NONE => InHome(tables[i][t], i, t)'
    BY <1>7 DEF InHome
  <2>3. \A p \in Requests :
          AboutToInsert(p)' => InHome(request[p].obj, request[p].ns, request[p].table)'
    BY <1>8 DEF InHome
  <2> QED BY <1>5, <2>1, <2>2, <2>3
<1> QED BY <1>9 DEF Homes

LEMMA HandsStep ==
  ASSUME NEW q \in Requests, Births, Hands, After(q),
         \A i \in Opened, t \in Tables : tables'[i][t] \in {tables[i][t], NONE, q},
         \A i \in Opened, t \in Tables : tables'[i][t] = q =>
           tables[i][t] = q \/ request[q].at \in Bearing,
         \A p \in Requests : Moving(p) => request[p].obj # NONE,
         Moving(q)' =>
           \/ Moving(q) /\ request'[q].obj = request[q].obj
           \/ /\ \E i \in Opened, t \in Tables : tables[i][t] = request'[q].obj
              /\ \A i \in Opened, t \in Tables : tables'[i][t] # request'[q].obj
  PROVE  Hands'
<1>1. \A p \in Requests : p # q => request'[p] = request[p]
  BY DEF After
<1>2. \A p \in Requests : p # q => (Moving(p)' <=> Moving(p))
  BY <1>1 DEF Moving, At
<1>3. ASSUME NEW p \in Requests, Moving(p)', Moving(p), request'[p].obj = request[p].obj
      PROVE  \A i \in Opened, t \in Tables : tables'[i][t] # request'[p].obj
  <2>1. \A i \in Opened, t \in Tables : tables[i][t] # request[p].obj
    BY <1>3 DEF Hands
  <2>2. request[q].at \in Bearing => request[p].obj # q
    BY DEF Births, Unborn
  <2> QED BY <1>3, <2>1, <2>2
<1>4. \A p \in Requests : Moving(p)' =>
        \A i \in Opened, t \in Tables : tables'[i][t] # request'[p].obj
  BY <1>1, <1>2, <1>3
<1>5. ASSUME NEW p \in Requests, NEW o \in Requests, o # p, Moving(p)', Moving(o)'
      PROVE  request'[o].obj # request'[p].obj
  <2>1. CASE Moving(p) /\ Moving(o) /\ request'[p].obj = request[p].obj
             /\ request'[o].obj = request[o].obj
    BY <1>5, <2>1 DEF Hands
  <2>2. ASSUME NEW r \in Requests, r # q, Moving(q)', Moving(r)',
               ~(Moving(q) /\ request'[q].obj = request[q].obj)
        PROVE  request'[q].obj # request'[r].obj
    <3>1. Moving(r) /\ request'[r].obj = request[r].obj
      BY <1>1, <1>2, <2>2
    <3> QED BY <2>2, <3>1 DEF Hands
  <2> QED BY <1>1, <1>2, <1>5, <2>1, <2>2
<1> QED BY <1>4, <1>5 DEF Hands

LEMMA GoingStep ==
  ASSUME NEW q \in Requests, Typed, Births, Going, After(q),
         \A n \in Names : \/ map'[n] \in {map[n], NONE}
                          \/ map'[n] = q /\ At(q, "prime") /\ request[q].name = n,
         doomed \subseteq doomed',
         Deletes(q)' => Deletes(q) /\ Same(q) /\ request'[q].ns = request[q].ns,
         At(q, "prime")' =>
           \/ At(q, "prime") /\ Same(q)
           \/ \A d \in Requests : Deletes(d) /\ request[d].name = request'[q].name => q \in doomed'
  PROVE  Going'
<1>1. \A p \in Requests : p # q => request'[p] = request[p]
  BY DEF After
<1> SUFFICES ASSUME NEW d \in Requests, Deletes(d)'
             PROVE  /\ \A n \in Names : map'[n] # request'[d].ns
                    /\ map'[request'[d].name] \in doomed' \cup {NONE}
                    /\ \A p \in Requests : At(p, "prime")' /\ request'[p].name = request'[d].name
                                             => p \in doomed'
  BY DEF Going
<1>2. Deletes(d) /\ request'[d].ns = request[d].ns /\ request'[d].name = request[d].name
  BY <1>1 DEF Deletes, Same
<1>3. /\ \A n \in Names : map[n] # request[d].ns
      /\ map[request[d].name] \in doomed \cup {NONE}
      /\ \A p \in Requests : At(p, "prime") /\ request[p].name = request[d].name => p \in doomed
  BY <1>2 DEF Going
<1>4. request[d].name \in Names /\ request[d].ns \in Opened
  BY <1>2, RequestFacts DEF Deletes, Placed
<1>5. At(q, "prime") => d # q /\ request[d].ns # q
  BY <1>2 DEF Births, Unopened, Deletes, At, Opening
<1>6. \A n \in Names : map'[n] # request'[d].ns
  BY <1>2, <1>3, <1>4, <1>5, Sets
<1>7. map'[request'[d].name] \in doomed' \cup {NONE}
  BY <1>2, <1>3, <1>4
<1>8. ASSUME NEW p \in Requests, At(p, "prime")', request'[p].name = request'[d].name
      PROVE  p \in doomed'
  <2>1. p # q => At(p, "prime") /\ request'[p].name = request[p].name
    BY <1>1, <1>8 DEF At
  <2> QED BY <1>2, <1>3, <1>8, <2>1 DEF Same
<1> QED BY <1>6, <1>7, <1>8

LEMMA PrimingStep ==
  ASSUME NEW q \in Requests, Typed, Priming, After(q),
         \A p \in Requests : At(p, "prime") => map'[request[p].name] \in {map[request[p].name], NONE},
         \A p \in Requests : At(p, "prime") =>
           folder'[request[p].name].meta = folder[request[p].name].meta
           /\ folder'[request[p].name].slot = folder[request[p].name].slot,
         \A p \in Requests : At(p, "prime") => repo'[p] = repo[p],
         doomed \subseteq doomed',
         ~At(q, "prime")'
  PROVE  Priming'
<1> SUFFICES ASSUME NEW p \in Requests, At(p, "prime")'
             PROVE  /\ map'[request'[p].name] = NONE
                    /\ p \notin doomed' => LoadedTables(request[p].name)' = {} /\ repo'[p].meta = {}
  BY DEF Priming
<1>1. At(p, "prime") /\ request'[p] = request[p]
  BY DEF At, After
<1>2. map[request[p].name] = NONE /\ (p \notin doomed => LoadedTables(request[p].name) = {} /\ repo[p].meta = {})
  BY <1>1 DEF Priming
<1>3. folder'[request[p].name].meta = folder[request[p].name].meta
      /\ folder'[request[p].name].slot = folder[request[p].name].slot
  BY <1>1
<1>4. LoadedTables(request[p].name)' = LoadedTables(request[p].name)
  BY <1>1, <1>3 DEF LoadedTables, Slots
<1> QED BY <1>1, <1>2, <1>4

LEMMA PassingStep ==
  ASSUME NEW q \in Requests, Typed, Births, Homes, Passing, After(q),
         pass' = pass,
         request[q].at = "idle" \/ Same(q),
         \A i \in pass : folder[NameOf(i)].exists => folder'[NameOf(i)].exists,
         doomed \subseteq doomed',
         \A i \in pass : map'[NameOf(i)] = i \/ map'[NameOf(i)] = map[NameOf(i)]
           \/ (At(q, "wait")' /\ request'[q].name = NameOf(i))
           \/ map[NameOf(i)] # i,
         pass # {} /\ At(q, "wait") => At(q, "wait")'
  PROVE  Passing'
<1>1. \A p \in Requests : p # q => request'[p] = request[p]
  BY DEF After
<1> SUFFICES ASSUME NEW i \in pass
             PROVE  /\ folder'[NameOf(i)'].exists \/ i \in doomed'
                    /\ map'[NameOf(i)'] # i =>
                         \E d \in Requests : At(d, "wait")' /\ request'[d].name = NameOf(i)'
  BY DEF Passing
<1>2. NameOf(i)' = NameOf(i)
  <2>1. i = q => request[q].at # "idle"
    BY DEF Births, Unopened, Opening
  <2>2. i \in Names \/ i \in Requests
    BY DEF Typed, TypeOK, Opened
  <2> QED BY <1>1, <2>1, <2>2 DEF NameOf, Same
<1>3. /\ folder[NameOf(i)].exists \/ i \in doomed
      /\ map[NameOf(i)] # i => \E d \in Requests : At(d, "wait") /\ request[d].name = NameOf(i)
  BY DEF Passing
<1>4. \A d \in Requests : At(d, "wait") => At(d, "wait")' /\ request'[d].name = request[d].name
  BY <1>1 DEF At, Same
<1>5. folder'[NameOf(i)].exists \/ i \in doomed'
  BY <1>3
<1>6. map'[NameOf(i)] # i => \E d \in Requests : At(d, "wait")' /\ request'[d].name = NameOf(i)
  BY <1>3, <1>4
<1> QED BY <1>2, <1>5, <1>6

(* What a call owes it goes on owing.                                        *)
LEMMA RowsKept ==
  ASSUME NEW n \in Names, NEW t \in Tables, RowsMirrored(n, t),
         map'[n] = map[n], NEW i, i = map[n],
         Content(i, t)' = Content(i, t),
         folder'[n].slot[t] = folder[n].slot[t],
         Partition(t) \in queue[i] => Partition(t) \in queue'[i],
         \A q \in Requests : OwesRowsBy(q, i, t) =>
           OwesRowsBy(q, i, t)' \/ Partition(t) \in queue'[i],
         forgiven \subseteq forgiven'
  PROVE  RowsMirrored(n, t)'
<1>1. Content(map[n], t)' = Content(i, t)
  BY DEF Content
<1>2. PublishedOver(n, t) => PublishedOver(n, t)'
  BY DEF PublishedOver
<1>3. \A q \in Requests : OwesRowsBy(q, map[n], t) =>
          OwesRowsBy(q, map[n], t)' \/ Partition(t) \in queue'[map[n]]
  BY DEF OwesRowsBy
<1>4. RowsMirrored(n, t)' =
       (Content(map[n], t)' # folder'[n].slot[t] =>
          \/ Partition(t) \in queue'[map'[n]]
          \/ \E q \in Requests : OwesRowsBy(q, map[n], t)'
          \/ PublishedOver(n, t)')
  BY DEF RowsMirrored, Partition
<1> QED BY <1>1, <1>2, <1>3, <1>4 DEF RowsMirrored

LEMMA EntryKept ==
  ASSUME NEW n \in Names, NEW t \in Tables, EntryMirrored(n, t),
         map'[n] = map[n], NEW i, i = map[n],
         tables'[i][t] = tables[i][t],
         t \in folder'[n].meta <=> t \in folder[n].meta,
         Metadata(t) \in queue[i] => Metadata(t) \in queue'[i],
         \A q \in Requests : OwesEntryBy(q, i, t) =>
           OwesEntryBy(q, i, t)' \/ Metadata(t) \in queue'[i],
         restarts' = restarts
  PROVE  EntryMirrored(n, t)'
<1>1. RestoredWithoutEntry(n, t) => RestoredWithoutEntry(n, t)'
  BY DEF RestoredWithoutEntry
<1>2. \A q \in Requests : OwesEntryBy(q, map[n], t) =>
          OwesEntryBy(q, map[n], t)' \/ Metadata(t) \in queue'[map[n]]
  BY DEF OwesEntryBy
<1>3. EntryMirrored(n, t)' =
       ((tables'[map'[n]][t] # NONE) # (t \in folder'[n].meta) =>
          \/ Metadata(t) \in queue'[map'[n]]
          \/ \E q \in Requests : OwesEntryBy(q, map[n], t)'
          \/ RestoredWithoutEntry(n, t)')
  BY DEF EntryMirrored, Metadata
<1> QED BY <1>1, <1>2, <1>3 DEF EntryMirrored

(* A step that leaves a served namespace and its folder as they are.         *)
LEMMA MirroredAt ==
  ASSUME NEW n \in Names, Mirrored, map[n] # NONE, map[n] \notin doomed, map'[n] = map[n],
         folder'[n].exists = folder[n].exists, folder'[n].meta = folder[n].meta,
         folder'[n].slot = folder[n].slot,
         repo'[map[n]] = repo[map[n]],
         tables'[map[n]] = tables[map[n]],
         \A t \in Tables : Content(map[n], t)' = Content(map[n], t),
         queue[map[n]] \subseteq queue'[map[n]],
         \A t \in Tables, q \in Requests :
           /\ OwesRowsBy(q, map[n], t) => OwesRowsBy(q, map[n], t)'
           /\ OwesEntryBy(q, map[n], t) => OwesEntryBy(q, map[n], t)',
         forgiven \subseteq forgiven', restarts' = restarts
  PROVE  Known(n)' /\ \A t \in Tables : RowsMirrored(n, t)' /\ EntryMirrored(n, t)'
<1> DEFINE i == map[n]
<1>1. Known(n) /\ \A t \in Tables : RowsMirrored(n, t) /\ EntryMirrored(n, t)
  BY DEF Mirrored
<1>2. Known(n)'
  BY <1>1 DEF Known, Slots
<1>3. ASSUME NEW t \in Tables, NEW j, j = map[n]
      PROVE  RowsMirrored(n, t)' /\ EntryMirrored(n, t)'
  <2>1. Content(j, t)' = Content(j, t)
    <3>1. Content(map[n], t)' = Content(map[n], t)
      OBVIOUS
    <3> QED BY <1>3, <3>1 DEF Content
  <2>2. \A q \in Requests : OwesRowsBy(q, j, t) => OwesRowsBy(q, j, t)'
    <3>1. \A q \in Requests : OwesRowsBy(q, map[n], t) => OwesRowsBy(q, map[n], t)'
      OBVIOUS
    <3> QED BY <1>3, <3>1 DEF OwesRowsBy
  <2>3. \A q \in Requests : OwesEntryBy(q, j, t) => OwesEntryBy(q, j, t)'
    <3>1. \A q \in Requests : OwesEntryBy(q, map[n], t) => OwesEntryBy(q, map[n], t)'
      OBVIOUS
    <3> QED BY <1>3, <3>1 DEF OwesEntryBy
  <2>4. RowsMirrored(n, t)'
    BY <1>1, <1>3, <2>1, <2>2, RowsKept
  <2>5. EntryMirrored(n, t)'
    BY <1>1, <1>3, <2>3, EntryKept
  <2> QED BY <2>4, <2>5
<1> QED BY <1>2, <1>3

LEMMA MirroredStep ==
  ASSUME Mirrored,
         \A n \in Names : map'[n] # NONE /\ map'[n] \notin doomed' =>
           /\ map[n] = map'[n]
           /\ folder'[n].exists = folder[n].exists /\ folder'[n].meta = folder[n].meta
           /\ folder'[n].slot = folder[n].slot
           /\ repo'[map[n]] = repo[map[n]]
           /\ tables'[map[n]] = tables[map[n]]
           /\ \A t \in Tables : Content(map[n], t)' = Content(map[n], t)
           /\ queue[map[n]] \subseteq queue'[map[n]]
           /\ \A t \in Tables, q \in Requests :
                /\ OwesRowsBy(q, map[n], t) => OwesRowsBy(q, map[n], t)'
                /\ OwesEntryBy(q, map[n], t) => OwesEntryBy(q, map[n], t)',
         doomed \subseteq doomed', forgiven \subseteq forgiven', restarts' = restarts
  PROVE  Mirrored'
<1> SUFFICES ASSUME NEW n \in Names, map'[n] # NONE, map'[n] \notin doomed'
             PROVE  Known(n)' /\ \A t \in Tables : RowsMirrored(n, t)' /\ EntryMirrored(n, t)'
  BY DEF Mirrored
<1>1. map[n] # NONE /\ map[n] \notin doomed /\ map'[n] = map[n]
  OBVIOUS
<1> QED BY <1>1, MirroredAt

LEMMA OwesServed ==
  ASSUME NEW n \in Names, map[n] \in Opened, map'[n] = map[n],
         \A p \in Requests, i \in Opened, t \in Tables :
           /\ OwesRowsBy(p, i, t) => OwesRowsBy(p, i, t)'
           /\ OwesEntryBy(p, i, t) => OwesEntryBy(p, i, t)'
  PROVE  \A t \in Tables, p \in Requests :
           /\ OwesRowsBy(p, map[n], t) => OwesRowsBy(p, map[n], t)'
           /\ OwesEntryBy(p, map[n], t) => OwesEntryBy(p, map[n], t)'
<1>1. PICK i \in Opened : i = map[n]
  OBVIOUS
<1> SUFFICES ASSUME NEW t \in Tables, NEW p \in Requests
             PROVE  /\ OwesRowsBy(p, i, t) => OwesRowsBy(p, i, t)'
                    /\ OwesEntryBy(p, i, t) => OwesEntryBy(p, i, t)'
  BY <1>1 DEF OwesRowsBy, OwesEntryBy
<1> QED OBVIOUS

LEMMA KeptStep ==
  ASSUME Kept,
         \A x \in Rows : Found(x) => Found(x)',
         \A q \in Requests : Inserted(q)' => Inserted(q) \/ Found(q)'
  PROVE  Kept'
<1>1. SEEDED \in Rows /\ Requests \subseteq Rows
  BY Sets
<1>2. Found(SEEDED)'
  BY <1>1 DEF Kept
<1>3. \A q \in Requests : Inserted(q)' => Found(q)'
  BY <1>1 DEF Kept
<1> QED BY <1>2, <1>3 DEF Kept

LEMMA FoundStep ==
  ASSUME NEW x, Found(x),
         forgiven \subseteq forgiven',
         \A n \in Names, t \in Tables : InTable(x, n, t) => InTable(x, n, t)' \/ Found(x)',
         \A q \in Requests : Carries(q, x) => Carries(q, x)' \/ Found(x)'
  PROVE  Found(x)'
BY DEF Found

LEMMA OthersOwe ==
  ASSUME NEW q \in Requests, After(q), NEW p \in Requests, p # q, NEW i, NEW t,
         Moving(p) /\ rows[request[p].obj] # {} => rows'[request[p].obj] # {}
  PROVE  /\ OwesRowsBy(p, i, t) => OwesRowsBy(p, i, t)'
         /\ OwesEntryBy(p, i, t) => OwesEntryBy(p, i, t)'
<1>1. request'[p] = request[p]
  BY DEF After
<1> QED BY <1>1 DEF OwesRowsBy, OwesEntryBy, At, Moving, Marks, Partition, Metadata

LEMMA MovingHolds ==
  ASSUME NEW q \in Requests, Typed, Moving(q)
  PROVE  /\ request[q].obj \in Objects /\ request[q].kind = "move"
         /\ request[q].source \in Opened /\ request[q].source # request[q].ns
BY RequestFacts DEF Moving, At, Placed, Marking

-----------------------------------------------------------------------------
(* Steps that change nothing but the call.                                   *)

LEMMA QuietStep ==
  ASSUME IInv, NEW q \in Requests, After(q),
         UNCHANGED <<memory, writeLock, repo, folder, pass, persistLock, restarts, history>>,
         request[q].at \notin {"prime", "wait", "tables"},
         request'[q].at \notin {"prime", "wait", "tables"},
         request[q].at = "idle" \/ Same(q),
         \/ request'[q].ns = request[q].ns
         \/ request[q].at \in Opening /\ \E n \in Names : map[n] # NONE /\ request'[q].ns = map[n],
         \/ request'[q].source = request[q].source
         \/ \E n \in Names : map[n] # NONE /\ request'[q].source = map[n],
         \/ request'[q].obj = request[q].obj
         \/ \E i \in Opened, t \in Tables : tables[i][t] # NONE /\ request'[q].obj = tables[i][t],
         request'[q].at \in Opening => request[q].at \in Opening,
         request'[q].at \in Bearing => request[q].at \in Bearing,
         AboutToInsert(q)' =>
           \/ AboutToInsert(q) /\ request'[q].obj = request[q].obj
           \/ /\ request'[q].ns \in Opened /\ request'[q].table \in Tables
              /\ request'[q].obj # NONE
              /\ request'[q].obj = tables[request'[q].ns][request'[q].table],
         Moving(q)' => Moving(q) /\ request'[q].obj = request[q].obj,
         \A i \in Opened, t \in Tables :
           /\ OwesRowsBy(q, i, t) => OwesRowsBy(q, i, t)'
           /\ OwesEntryBy(q, i, t) => OwesEntryBy(q, i, t)',
         Inserted(q)' => Inserted(q),
         \A x \in Rows : Carries(q, x) => Carries(q, x)'
  PROVE  IInv'
<1>0. /\ Typed /\ Locks /\ Births /\ Homes /\ Hands /\ Going /\ Priming /\ Passing /\ Gone
      /\ Mirrored /\ Kept
  BY DEF IInv
<1>1. /\ map' = map /\ tables' = tables /\ queue' = queue /\ rows' = rows
      /\ writeLock' = writeLock /\ repo' = repo /\ folder' = folder /\ pass' = pass
      /\ persistLock' = persistLock /\ restarts' = restarts
      /\ forgiven' = forgiven /\ doomed' = doomed
  BY DEF memory, history
<1>2. \A p \in Requests : p # q => request'[p] = request[p]
  BY DEF After
<1>3. Typed'
  <2>1. RestTyped'
    BY <1>0, <1>1, TypedParts DEF RestTyped
  <2> QED BY <2>1, TypedNext DEF After
<1>4. Locks'
  BY <1>0, <1>1, <1>2 DEF Locks, At
<1>5. Births'
  <2>1. ASSUME NEW p \in Requests, request[p].at \in Opening
        PROVE  request'[q].source # p /\ (p # q => request'[q].ns # p)
    BY <1>0, <2>1 DEF Births, Unopened
  <2>2. ASSUME NEW p \in Requests, request[p].at \in Bearing
        PROVE  request'[q].obj # p
    BY <1>0, <2>2 DEF Births, Unborn
  <2>3. request'[q].at \in Opening => Unopened(q)'
    <3> SUFFICES ASSUME request'[q].at \in Opening PROVE Unopened(q)'
      OBVIOUS
    <3>1. Unopened(q)
      BY <1>0 DEF Births
    <3> QED BY <1>1, <1>2, <2>1, <3>1 DEF Unopened, NoTables
  <2>4. request'[q].at \in Bearing => Unborn(q)'
    <3> SUFFICES ASSUME request'[q].at \in Bearing PROVE Unborn(q)'
      OBVIOUS
    <3>1. Unborn(q)
      BY <1>0 DEF Births
    <3> QED BY <1>1, <1>2, <2>2, <3>1 DEF Unborn
  <2>5. \A p \in Requests : p # q /\ request[p].at \in Opening => p \notin pass'
    BY <1>0, <1>1 DEF Births, Unopened
  <2> QED BY <1>0, <1>1, <2>1, <2>2, <2>3, <2>4, <2>5, BirthsStep DEF At
<1>6. Homes'
  BY <1>0, <1>1, HomesStep
<1>7. Hands'
  <2>1. \A p \in Requests : Moving(p) => request[p].obj # NONE
    BY <1>0, MovingHolds, Sets
  <2> QED BY <1>0, <1>1, <2>1, HandsStep
<1>8. Going'
  BY <1>0, <1>1, GoingStep DEF Deletes, At
<1>9. Priming'
  BY <1>0, <1>1, PrimingStep DEF At
<1>10. Passing'
  BY <1>0, <1>1, PassingStep DEF At
<1>11. Gone'
  BY <1>0, <1>1 DEF Gone
<1>12. Mirrored'
  <2>1. ASSUME NEW n \in Names, NEW t \in Tables, NEW p \in Requests, map[n] # NONE
        PROVE  /\ OwesRowsBy(p, map[n], t) => OwesRowsBy(p, map[n], t)'
               /\ OwesEntryBy(p, map[n], t) => OwesEntryBy(p, map[n], t)'
    <3>1. map[n] \in Opened
      BY <1>0, <2>1 DEF Typed, TypeOK
    <3>2. PICK i \in Opened : i = map[n]
      BY <3>1
    <3>3. /\ OwesRowsBy(p, i, t) => OwesRowsBy(p, i, t)'
          /\ OwesEntryBy(p, i, t) => OwesEntryBy(p, i, t)'
      BY <1>1, OthersOwe
    <3> QED BY <1>1, <3>2, <3>3 DEF OwesRowsBy, OwesEntryBy
  <2>2. \A n \in Names, t \in Tables : Content(map[n], t)' = Content(map[n], t)
    BY <1>1 DEF Content
  <2> QED BY <1>0, <1>1, <2>1, <2>2, MirroredStep
<1>13. Kept'
  <2>1. ASSUME NEW x \in Rows, Found(x)
        PROVE  Found(x)'
    <3>1. \A n \in Names, t \in Tables : InTable(x, n, t) => InTable(x, n, t)'
      BY <1>1 DEF InTable
    <3>2. \A p \in Requests : Carries(p, x) => Carries(p, x)'
      BY <1>1, <1>2 DEF Carries, At
    <3> QED BY <1>1, <2>1, <3>1, <3>2, FoundStep
  <2>2. \A p \in Requests : Inserted(p)' => Inserted(p)
    BY <1>2 DEF Inserted, At
  <2> QED BY <1>0, <2>1, <2>2, KeptStep
<1> QED BY <1>3, <1>4, <1>5, <1>6, <1>7, <1>8, <1>9, <1>10, <1>11, <1>12, <1>13 DEF IInv

LEMMA CallStep ==
  ASSUME IInv, NEW q \in Requests, Call(q)
  PROVE  IInv'
<1>1. Typed /\ Births
  BY DEF IInv
<1>2. /\ After(q)
      /\ request[q].at = "idle" /\ request'[q].at = "resolve"
      /\ request'[q].ns = NONE /\ request'[q].source = NONE /\ request'[q].obj = NONE
      /\ request'[q].answer = NONE
      /\ request[q].ns = NONE /\ request[q].source = NONE /\ request[q].obj = NONE
  BY <1>1, CallRequest, NewFacts
<1>3. UNCHANGED <<memory, writeLock, repo, folder, pass, persistLock, restarts, history>>
  BY DEF Call
<1>4. ~Moving(q) /\ ~Moving(q)' /\ ~AboutToInsert(q)' /\ ~Inserted(q)'
  BY <1>2, Sets DEF Moving, AboutToInsert, Inserted, At
<1>5. \A i \in Opened, t \in Tables : ~OwesRowsBy(q, i, t) /\ ~OwesEntryBy(q, i, t)
  BY <1>2, <1>4 DEF OwesRowsBy, OwesEntryBy, At
<1>6. \A x \in Rows : ~Carries(q, x)
  BY <1>2 DEF Carries, At
<1>7. /\ request[q].at \in Opening /\ request[q].at \in Bearing
      /\ request[q].at \notin {"prime", "wait", "tables"}
      /\ request'[q].at \notin {"prime", "wait", "tables"}
  BY <1>2 DEF Opening, Bearing
<1> QED BY <1>2, <1>3, <1>4, <1>5, <1>6, <1>7, QuietStep

LEMMA CallMoveStep ==
  ASSUME IInv, NEW q \in Requests, CallMove(q)
  PROVE  IInv'
<1>1. Typed /\ Births
  BY DEF IInv
<1>2. /\ After(q)
      /\ request[q].at = "idle" /\ request'[q].at \in {"resolve", "ended"}
      /\ request'[q].ns = NONE /\ request'[q].obj = NONE
      /\ request'[q].answer # "done"
      /\ request[q].ns = NONE /\ request[q].source = NONE /\ request[q].obj = NONE
      /\ \/ request'[q].source = NONE
         \/ \E n \in Names : map[n] # NONE /\ request'[q].source = map[n]
  BY <1>1, CallMoveRequest, NewFacts, Sets
<1>3. UNCHANGED <<memory, writeLock, repo, folder, pass, persistLock, restarts, history>>
  BY DEF CallMove
<1>4. ~Moving(q) /\ ~Moving(q)' /\ ~AboutToInsert(q)' /\ ~Inserted(q)'
  BY <1>2 DEF Moving, AboutToInsert, Inserted, At
<1>5. \A i \in Opened, t \in Tables : ~OwesRowsBy(q, i, t) /\ ~OwesEntryBy(q, i, t)
  BY <1>2, <1>4 DEF OwesRowsBy, OwesEntryBy, At
<1>6. \A x \in Rows : ~Carries(q, x)
  BY <1>2 DEF Carries, At
<1>7. /\ request[q].at \in Opening /\ request[q].at \in Bearing
      /\ request[q].at \notin {"prime", "wait", "tables"}
      /\ request'[q].at \notin {"prime", "wait", "tables"}
  BY <1>2 DEF Opening, Bearing
<1> QED BY <1>2, <1>3, <1>4, <1>5, <1>6, <1>7, QuietStep

LEMMA ResolveStep ==
  ASSUME IInv, NEW q \in Requests, Resolve(q)
  PROVE  IInv'
<1>1. Typed /\ Births
  BY DEF IInv
<1>2. /\ After(q) /\ Same(q)
      /\ request[q].at = "resolve" /\ request'[q].at \in {"check", "table"}
      /\ request'[q].ns = map[request[q].name] /\ map[request[q].name] # NONE
      /\ request[q].name \in Names
      /\ request'[q].obj = NONE /\ request[q].obj = NONE
      /\ request'[q].answer = request[q].answer
  <2>1. request[q].name \in Names /\ request[q].obj = NONE
    BY <1>1, RequestFacts DEF Resolve, At, Placed
  <2> QED BY <1>1, <2>1, ResolveRequest DEF AfterResolve
<1>3. UNCHANGED <<memory, writeLock, repo, folder, pass, persistLock, restarts, history>>
  BY DEF Resolve
<1>4. ~Moving(q) /\ ~Moving(q)' /\ ~AboutToInsert(q)' /\ (Inserted(q)' => Inserted(q))
  BY <1>2 DEF Moving, AboutToInsert, Inserted, At, Same
<1>5. \A i \in Opened, t \in Tables : ~OwesRowsBy(q, i, t) /\ ~OwesEntryBy(q, i, t)
  BY <1>2, <1>4 DEF OwesRowsBy, OwesEntryBy, At
<1>6. \A x \in Rows : ~Carries(q, x)
  BY <1>2 DEF Carries, At
<1>7. /\ request[q].at \in Opening /\ request[q].at \in Bearing
      /\ request[q].at \notin {"prime", "wait", "tables"}
      /\ request'[q].at \notin {"prime", "wait", "tables"}
  BY <1>2 DEF Opening, Bearing
<1> QED BY <1>2, <1>3, <1>4, <1>5, <1>6, <1>7, QuietStep DEF Same

LEMMA LookUpStep ==
  ASSUME IInv, NEW q \in Requests, LookUp(q)
  PROVE  IInv'
<1>1. Typed /\ Births
  BY DEF IInv
<1>2. /\ After(q) /\ Same(q)
      /\ request[q].at = "table" /\ request'[q].at \in {"insert", "ended"}
      /\ request'[q].ns = request[q].ns
      /\ request[q].ns \in Opened /\ request[q].table \in Tables
      /\ \/ request'[q].at = "ended" /\ request'[q].obj = request[q].obj
         \/ request'[q].at = "insert" /\ request'[q].obj = Held(q) /\ Held(q) # NONE
      /\ request'[q].answer \in {request[q].answer, "table not found"}
  <2>1. request[q].ns \in Opened /\ request[q].table \in Tables
    BY <1>1, RequestFacts DEF LookUp, At, Placed, Working
  <2> QED BY <1>1, <2>1, LookUpRequest
<1>3. UNCHANGED <<memory, writeLock, repo, folder, pass, persistLock, restarts, history>>
  BY DEF LookUp
<1>4. ~Moving(q) /\ ~Moving(q)' /\ (Inserted(q)' => Inserted(q))
  BY <1>2 DEF Moving, Inserted, At, Same
<1>5. \A i \in Opened, t \in Tables : ~OwesRowsBy(q, i, t) /\ ~OwesEntryBy(q, i, t)
  BY <1>2, <1>4 DEF OwesRowsBy, OwesEntryBy, At
<1>6. \A x \in Rows : ~Carries(q, x)
  BY <1>2 DEF Carries, At
<1>7. /\ request'[q].at \notin Opening /\ request'[q].at \notin Bearing
      /\ request[q].at \notin {"prime", "wait", "tables"}
      /\ request'[q].at \notin {"prime", "wait", "tables"}
  BY <1>2 DEF Opening, Bearing
<1>8. AboutToInsert(q)' =>
        /\ request'[q].ns \in Opened /\ request'[q].table \in Tables
        /\ request'[q].obj # NONE
        /\ request'[q].obj = tables[request'[q].ns][request'[q].table]
  BY <1>2 DEF AboutToInsert, At, Held, Same
<1>9. \/ request'[q].obj = request[q].obj
      \/ \E i \in Opened, t \in Tables : tables[i][t] # NONE /\ request'[q].obj = tables[i][t]
  BY <1>2 DEF Held
<1> QED BY <1>2, <1>3, <1>4, <1>5, <1>6, <1>7, <1>8, <1>9, QuietStep DEF Same

LEMMA MarkedStep ==
  ASSUME IInv, NEW q \in Requests, Marked(q)
  PROVE  IInv'
<1>1. Typed /\ Births
  BY DEF IInv
<1>2. /\ After(q) /\ Same(q)
      /\ request[q].at = "mark" /\ request'[q].at \in {"insert", "clean", "ended"}
      /\ request[q].owes = <<>>
      /\ request'[q].ns = request[q].ns /\ request'[q].obj = request[q].obj
      /\ \/ request'[q].at = "ended" /\ request[q].then = "ended"
         \/ /\ request'[q].at = request[q].then
            /\ request'[q].answer = request[q].answer
      /\ request[q].then = "clean" => request[q].kind = "move"
  <2>1. request[q].then = "clean" => request[q].kind = "move"
    BY <1>1, RequestFacts DEF Marked, At, Placed, Marking
  <2> QED BY <1>1, <2>1, MarkedRequest
<1>3. UNCHANGED <<memory, writeLock, repo, folder, pass, persistLock, restarts, history>>
  BY DEF Marked
<1>4. /\ Moving(q)' <=> Moving(q)
      /\ AboutToInsert(q)' => AboutToInsert(q)
      /\ Inserted(q)' => Inserted(q)
  BY <1>2 DEF Moving, AboutToInsert, Inserted, At, Same
<1>5. \A i \in Opened, t \in Tables : /\ OwesRowsBy(q, i, t) => OwesRowsBy(q, i, t)'
                                      /\ OwesEntryBy(q, i, t) => OwesEntryBy(q, i, t)'
  <2>1. 1..Len(request[q].owes) = {} /\ rows' = rows
    BY <1>2, <1>3 DEF memory
  <2> QED BY <1>2, <1>4, <2>1 DEF OwesRowsBy, OwesEntryBy, Same
<1>6. \A x \in Rows : ~Carries(q, x)
  BY <1>2 DEF Carries, At
<1>7. /\ request'[q].at \notin Opening /\ request'[q].at \notin Bearing
      /\ request[q].at \notin {"prime", "wait", "tables"}
      /\ request'[q].at \notin {"prime", "wait", "tables"}
  BY <1>2 DEF Opening, Bearing
<1> QED BY <1>2, <1>3, <1>4, <1>5, <1>6, <1>7, QuietStep DEF Same

LEMMA MoveCheckStep ==
  ASSUME IInv, NEW q \in Requests, MoveCheck(q)
  PROVE  IInv'
<1>1. Typed /\ Births
  BY DEF IInv
<1>2. /\ After(q) /\ Same(q)
      /\ request[q].at = "check" /\ request'[q].at \in {"take", "ended"}
      /\ request'[q].ns = request[q].ns /\ request'[q].obj = request[q].obj
      /\ request'[q].answer \in {request[q].answer, "table exists"}
  BY <1>1, MoveCheckRequest
<1>3. UNCHANGED <<memory, writeLock, repo, folder, pass, persistLock, restarts, history>>
  BY DEF MoveCheck
<1>4. ~Moving(q) /\ ~Moving(q)' /\ ~AboutToInsert(q)' /\ (Inserted(q)' => Inserted(q))
  BY <1>2 DEF Moving, AboutToInsert, Inserted, At, Same
<1>5. \A i \in Opened, t \in Tables : ~OwesRowsBy(q, i, t) /\ ~OwesEntryBy(q, i, t)
  BY <1>2, <1>4 DEF OwesRowsBy, OwesEntryBy, At
<1>6. \A x \in Rows : ~Carries(q, x)
  BY <1>2 DEF Carries, At
<1>7. /\ request'[q].at \notin Opening /\ request[q].at \in Bearing
      /\ request[q].at \notin {"prime", "wait", "tables"}
      /\ request'[q].at \notin {"prime", "wait", "tables"}
  BY <1>2 DEF Opening, Bearing
<1> QED BY <1>2, <1>3, <1>4, <1>5, <1>6, <1>7, QuietStep DEF Same

LEMMA MoveCopyStep ==
  ASSUME IInv, NEW q \in Requests, MoveCopy(q)
  PROVE  IInv'
<1>1. Typed /\ Births
  BY DEF IInv
<1>2. /\ After(q) /\ Same(q)
      /\ request[q].at = "copy" /\ request'[q].at = "publish"
      /\ request'[q].ns = request[q].ns /\ request'[q].obj = request[q].obj
      /\ request'[q].copied = rows[request[q].obj]
      /\ request'[q].answer = request[q].answer
  BY <1>1, MoveCopyRequest
<1>3. UNCHANGED <<memory, writeLock, repo, folder, pass, persistLock, restarts, history>>
  BY DEF MoveCopy
<1>4. Moving(q) /\ Moving(q)' /\ ~AboutToInsert(q)' /\ (Inserted(q)' => Inserted(q))
  BY <1>2 DEF Moving, AboutToInsert, Inserted, At, Same
<1>5. \A i \in Opened, t \in Tables : /\ OwesRowsBy(q, i, t) => OwesRowsBy(q, i, t)'
                                      /\ OwesEntryBy(q, i, t) => OwesEntryBy(q, i, t)'
  BY <1>2, <1>3, <1>4 DEF OwesRowsBy, OwesEntryBy, Same, At, memory
<1>6. \A x \in Rows : Carries(q, x) => Carries(q, x)'
  BY <1>2 DEF Carries, At
<1>7. /\ request'[q].at \notin Opening /\ request[q].at \in Bearing
      /\ request[q].at \notin {"prime", "wait", "tables"}
      /\ request'[q].at \notin {"prime", "wait", "tables"}
  BY <1>2 DEF Opening, Bearing
<1> QED BY <1>2, <1>3, <1>4, <1>5, <1>6, <1>7, QuietStep DEF Same

-----------------------------------------------------------------------------
(* Namespaces come, under the write lock.                                    *)

LEMMA OpenFolderStep ==
  ASSUME IInv, NEW q \in Requests, OpenFolder(q)
  PROVE  IInv'
<1> DEFINE name == request[q].name
<1>0. /\ Typed /\ Locks /\ Births /\ Homes /\ Hands /\ Going /\ Priming /\ Passing /\ Gone
      /\ Mirrored /\ Kept
  BY DEF IInv
<1>1. /\ After(q) /\ Same(q)
      /\ request[q].at = "resolve" /\ request'[q].at = "prime"
      /\ request'[q].ns = q /\ request'[q].obj = NONE
      /\ request'[q].answer = request[q].answer /\ name \in Names
      /\ \A p \in Requests : p # q => request'[p] = request[p]
  BY <1>0, OpenFolderRequest DEF After
<1>2. /\ map' = map /\ tables' = tables /\ queue' = queue /\ rows' = rows /\ pass' = pass
      /\ persistLock' = persistLock /\ restarts' = restarts /\ forgiven' = forgiven
      /\ map[name] = NONE /\ writeLock = NONE /\ writeLock' = q
      /\ folder' = [folder EXCEPT ![name].exists = TRUE]
      /\ repo' = [repo EXCEPT ![q] = [index |-> {}, meta |-> folder[name].meta]]
      /\ doomed' = IF OpensDoomed(name) THEN doomed \cup {q} ELSE doomed
  BY DEF OpenFolder, memory
<1>3. /\ folder \in [Names -> [exists : BOOLEAN, meta : SUBSET Tables,
                               slot : [Tables -> SUBSET Rows]]]
      /\ repo \in [Opened -> [index : SUBSET Tables, meta : SUBSET Tables]]
  BY <1>0 DEF Typed, TypeOK
<1>4. /\ folder' \in [Names -> [exists : BOOLEAN, meta : SUBSET Tables,
                                slot : [Tables -> SUBSET Rows]]]
      /\ folder'[name].exists = TRUE
      /\ \A n \in Names : /\ folder'[n].meta = folder[n].meta /\ folder'[n].slot = folder[n].slot
                          /\ folder[n].exists => folder'[n].exists
                          /\ n # name => folder'[n] = folder[n]
  BY <1>1, <1>2, <1>3
<1>5. /\ repo' \in [Opened -> [index : SUBSET Tables, meta : SUBSET Tables]]
      /\ \A i \in Opened : i # q => repo'[i] = repo[i]
  BY <1>1, <1>2, <1>3, Sets
<1>6. Unopened(q) /\ Unborn(q) /\ q \in Opened
  BY <1>0, <1>1, Sets DEF Births, Opening, Bearing
<1>7. doomed \subseteq doomed' /\ doomed' \subseteq Requests
  BY <1>0, <1>2 DEF Typed, TypeOK
<1>8. Typed'
  <2>1. RestTyped'
    BY <1>0, <1>2, <1>4, <1>5, <1>7, TypedParts DEF RestTyped
  <2> QED BY <1>1, <2>1, TypedNext DEF After
<1>9. Locks'
  BY <1>0, <1>1, <1>2, Sets DEF Locks, At
<1>10. Births'
  <2>1. Unopened(q)'
    BY <1>1, <1>2, <1>6 DEF Unopened, NoTables, Same
  <2>2. Unborn(q)'
    BY <1>1, <1>2, <1>6, Sets DEF Unborn
  <2>3. \A p \in Requests : p # q /\ request[p].at \in Opening =>
          p \notin pass' /\ request'[q].source # p
    BY <1>0, <1>1, <1>2 DEF Births, Unopened, Same
  <2> QED BY <1>0, <1>1, <1>2, <2>1, <2>2, <2>3, Sets, BirthsStep
<1>11. Homes'
  <2>1. ~AboutToInsert(q)' /\ request[q].at \in Opening
    BY <1>1 DEF AboutToInsert, At, Opening
  <2> QED BY <1>0, <1>1, <1>2, <2>1, HomesStep
<1>12. ~Moving(q)' /\ ~Moving(q)
  BY <1>1 DEF Moving, At
<1>13. Hands'
  <2>1. \A p \in Requests : Moving(p) => request[p].obj # NONE
    BY <1>0, MovingHolds, Sets
  <2> QED BY <1>0, <1>1, <1>2, <1>12, <2>1, HandsStep
<1>14. \A d \in Requests : Deletes(d) /\ request[d].name = name => q \in doomed'
  <2>1. ASSUME NEW d \in Requests, Deletes(d), request[d].name = name
        PROVE  Deleting(name)
    <3>1. request[d].kind = "delete"
      BY <1>0, <2>1, RequestFacts DEF Deletes, Placed
    <3> QED BY <2>1, <3>1 DEF Deleting, Deletes
  <2> QED BY <1>2, <2>1 DEF OpensDoomed
<1>15. Going'
  BY <1>0, <1>1, <1>2, <1>7, <1>14, GoingStep DEF Deletes, At, Same
<1>16. Priming'
  <2> SUFFICES ASSUME NEW p \in Requests, At(p, "prime")'
               PROVE  /\ map'[request'[p].name] = NONE
                      /\ p \notin doomed' =>
                           LoadedTables(request[p].name)' = {} /\ repo'[p].meta = {}
    BY DEF Priming
  <2>1. p = q
    BY <1>0, <1>1, <1>2, Sets DEF Locks, At
  <2>2. request'[q].name = name
    BY <1>1 DEF Same
  <2>3. LoadedTables(request[p].name)' = LoadedTables(name)
    BY <1>1, <1>4, <2>1, <2>2 DEF LoadedTables, Slots
  <2>4. repo'[q].meta = folder[name].meta
    BY <1>2, <1>3, <1>6
  <2> QED BY <1>2, <2>1, <2>2, <2>3, <2>4 DEF OpensDoomed, LoadedTables
<1>17. Passing'
  <2>1. \A i \in pass : NameOf(i) \in Names
    BY <1>0 DEF Homes
  <2> QED BY <1>0, <1>1, <1>2, <1>4, <1>7, <2>1, PassingStep DEF At
<1>18. Gone'
  BY <1>0, <1>1, <1>4 DEF Gone
<1>19. Mirrored'
  <2>1. ASSUME NEW n \in Names, NEW t \in Tables, NEW p \in Requests, map[n] # NONE
        PROVE  /\ OwesRowsBy(p, map[n], t) => OwesRowsBy(p, map[n], t)'
               /\ OwesEntryBy(p, map[n], t) => OwesEntryBy(p, map[n], t)'
    <3>1. CASE p = q
      BY <1>1, <1>12, <3>1 DEF OwesRowsBy, OwesEntryBy, At
    <3>2. CASE p # q
      <4>1. PICK i \in Opened : i = map[n]
        BY <1>0, <2>1 DEF Typed, TypeOK
      <4>2. /\ OwesRowsBy(p, i, t) => OwesRowsBy(p, i, t)'
            /\ OwesEntryBy(p, i, t) => OwesEntryBy(p, i, t)'
        BY <1>1, <1>2, <3>2, OthersOwe
      <4> QED BY <1>2, <4>1, <4>2 DEF OwesRowsBy, OwesEntryBy
    <3> QED BY <3>1, <3>2
  <2>2. \A n \in Names, t \in Tables : Content(map[n], t)' = Content(map[n], t)
    BY <1>2 DEF Content
  <2>3. \A n \in Names : map[n] # NONE =>
          /\ map[n] # q /\ map[n] \in Opened /\ n # name
          /\ map[n] \in Opened
    BY <1>0, <1>2, <1>6 DEF Unopened, Typed, TypeOK
  <2> QED BY <1>0, <1>2, <1>4, <1>5, <1>7, <2>1, <2>2, <2>3, MirroredStep
<1>20. Kept'
  <2>1. ASSUME NEW x \in Rows, Found(x)
        PROVE  Found(x)'
    <3>1. \A n \in Names, t \in Tables : InTable(x, n, t) => InTable(x, n, t)'
      BY <1>2 DEF InTable
    <3>2. \A p \in Requests : Carries(p, x) => Carries(p, x)'
      BY <1>1, <1>2 DEF Carries, At
    <3> QED BY <1>2, <2>1, <3>1, <3>2, FoundStep
  <2>2. \A p \in Requests : Inserted(p)' => Inserted(p)
    BY <1>1 DEF Inserted, At, Same
  <2> QED BY <1>0, <2>1, <2>2, KeptStep
<1> QED BY <1>8, <1>9, <1>10, <1>11, <1>13, <1>15, <1>16, <1>17, <1>18, <1>19, <1>20 DEF IInv

LEMMA PrimeStep ==
  ASSUME IInv, NEW q \in Requests, Prime(q)
  PROVE  IInv'
<1> DEFINE name == request[q].name
<1>0. /\ Typed /\ Locks /\ Births /\ Homes /\ Hands /\ Going /\ Priming /\ Passing /\ Gone
      /\ Mirrored /\ Kept
  BY DEF IInv
<1>1. /\ After(q) /\ Same(q)
      /\ request[q].at = "prime"
      /\ request'[q].at = IF folder[name].exists THEN AfterResolve(q) ELSE "ended"
      /\ request'[q].at \in {"check", "table", "ended"}
      /\ request'[q].ns = request[q].ns /\ request'[q].obj = NONE /\ request[q].obj = NONE
      /\ request'[q].answer \in {request[q].answer, "panic"}
      /\ request[q].ns = q /\ name \in Names
      /\ \A p \in Requests : p # q => request'[p] = request[p]
  <2>1. request[q].at = "prime" /\ name \in Names /\ request[q].obj = NONE
    BY <1>0, RequestFacts DEF Prime, At, Placed
  <2> QED BY <1>0, <2>1, PrimeRequest DEF After, AfterResolve, Births, At
<1>2. /\ tables' = tables /\ queue' = queue /\ rows' = rows /\ pass' = pass /\ folder' = folder
      /\ persistLock' = persistLock /\ restarts' = restarts /\ forgiven' = forgiven
      /\ writeLock' = NONE /\ doomed' = doomed
      /\ \/ /\ folder[name].exists
            /\ repo' = [repo EXCEPT ![q].index = Slots(name)]
            /\ map' = [map EXCEPT ![name] = q]
         \/ ~folder[name].exists /\ UNCHANGED <<repo, map>>
  BY DEF Prime, history
<1>3. /\ repo \in [Opened -> [index : SUBSET Tables, meta : SUBSET Tables]]
      /\ map \in [Names -> Opened \cup {NONE}] /\ q \in Opened
  BY <1>0, Sets DEF Typed, TypeOK
<1>4. /\ repo' \in [Opened -> [index : SUBSET Tables, meta : SUBSET Tables]]
      /\ \A i \in Opened : i # q => repo'[i] = repo[i]
      /\ repo'[q].meta = repo[q].meta
      /\ folder[name].exists => repo'[q].index = Slots(name)
  BY <1>1, <1>2, <1>3 DEF Slots
<1>5. /\ map' \in [Names -> Opened \cup {NONE}]
      /\ \A n \in Names : map'[n] = map[n] \/ (map'[n] = q /\ n = name)
      /\ folder[name].exists => map'[name] = q
  BY <1>1, <1>2, <1>3
<1>6. Unopened(q) /\ Unborn(q)
  BY <1>0, <1>1 DEF Births, Opening, Bearing
<1>7. writeLock = q /\ \A p \in Requests : p # q => ~At(p, "prime")
  BY <1>0, <1>1 DEF Locks, At
<1>8. Typed'
  <2>1. RestTyped'
    BY <1>0, <1>2, <1>4, <1>5, TypedParts DEF RestTyped
  <2> QED BY <1>1, <2>1, TypedNext DEF After
<1>9. Locks'
  BY <1>0, <1>1, <1>2, <1>7, Sets DEF Locks, At
<1>10. Births'
  <2>1. Unborn(q)'
    BY <1>1, <1>2, <1>6, Sets DEF Unborn
  <2>2. \A p \in Requests : p # q /\ request[p].at \in Opening =>
          p \notin pass' /\ request'[q].source # p /\ request'[q].ns # p
    BY <1>0, <1>1, <1>2 DEF Births, Unopened, Same
  <2>3. request'[q].at \notin Opening /\ request'[q].at # "prime"
    BY <1>1 DEF Opening
  <2> QED BY <1>0, <1>1, <1>2, <1>5, <2>1, <2>2, <2>3, Sets, BirthsStep DEF At
<1>11. Homes'
  <2>1. ~AboutToInsert(q)'
    BY <1>1 DEF AboutToInsert, At
  <2>2. request'[q].name = name
    BY <1>1 DEF Same
  <2> QED BY <1>0, <1>1, <1>2, <1>5, <2>1, <2>2, HomesStep
<1>12. ~Moving(q)' /\ ~Moving(q)
  BY <1>1 DEF Moving, At
<1>13. Hands'
  <2>1. \A p \in Requests : Moving(p) => request[p].obj # NONE
    BY <1>0, MovingHolds, Sets
  <2> QED BY <1>0, <1>1, <1>2, <1>12, <2>1, HandsStep
<1>14. Going'
  BY <1>0, <1>1, <1>2, <1>5, GoingStep DEF Deletes, At
<1>15. Priming'
  BY <1>1, <1>7 DEF Priming, At
<1>16. Passing'
  <2>1. map[name] = NONE /\ \A i \in pass : i # NONE
    BY <1>0, <1>1, Sets DEF Priming, At, Typed, TypeOK
  <2>2. ASSUME NEW n \in Names, NEW i \in pass
        PROVE  map'[n] = map[n] \/ map[n] # i
    BY <1>5, <2>1
  <2>3. \A i \in pass : NameOf(i) \in Names
    BY <1>0 DEF Homes
  <2>4. \A i \in pass : map'[NameOf(i)] = map[NameOf(i)] \/ map[NameOf(i)] # i
    BY <2>2, <2>3
  <2> QED BY <1>0, <1>1, <1>2, <2>4, PassingStep DEF At
<1>17. Gone'
  BY <1>0, <1>2 DEF Gone
<1>18. \A p \in Requests, i \in Opened, t \in Tables :
         /\ OwesRowsBy(p, i, t) => OwesRowsBy(p, i, t)'
         /\ OwesEntryBy(p, i, t) => OwesEntryBy(p, i, t)'
  <2>1. \A i \in Opened, t \in Tables : ~OwesRowsBy(q, i, t) /\ ~OwesEntryBy(q, i, t)
    BY <1>1, <1>12 DEF OwesRowsBy, OwesEntryBy, At
  <2> QED BY <1>1, <1>2, <2>1, OthersOwe
<1>19. Mirrored'
  <2> SUFFICES ASSUME NEW n \in Names, map'[n] # NONE, map'[n] \notin doomed'
               PROVE  Known(n)' /\ \A t \in Tables : RowsMirrored(n, t)' /\ EntryMirrored(n, t)'
    BY DEF Mirrored
  <2>1. CASE map'[n] = map[n]
    <3>1. map[n] # q /\ map[n] \in Opened
      BY <1>0, <1>6, <2>1 DEF Unopened, Typed, TypeOK
    <3>2. \A t \in Tables : Content(map[n], t)' = Content(map[n], t)
      BY <1>2, <2>1 DEF Content
    <3>3. \A t \in Tables, p \in Requests :
           /\ OwesRowsBy(p, map[n], t) => OwesRowsBy(p, map[n], t)'
           /\ OwesEntryBy(p, map[n], t) => OwesEntryBy(p, map[n], t)'
      BY <1>18, <2>1, <3>1, OwesServed
    <3> QED BY <1>0, <1>2, <1>4, <2>1, <3>1, <3>2, <3>3, MirroredAt
  <2>2. CASE map'[n] # map[n]
    <3>1. n = name /\ map'[n] = q /\ folder[name].exists /\ q \notin doomed
      BY <1>2, <1>5, <2>2
    <3>2. LoadedTables(name) = {} /\ repo[q].meta = {}
      BY <1>0, <1>1, <3>1 DEF Priming, At
    <3>3. folder[name].meta = {} /\ Slots(name) = {} /\ \A t \in Tables : folder[name].slot[t] = {}
      BY <3>2 DEF LoadedTables, Slots
    <3>4. Known(n)'
      BY <1>2, <1>4, <3>1, <3>2, <3>3 DEF Known, Slots
    <3>5. \A t \in Tables : tables'[map'[n]][t] = NONE /\ Content(map[n], t)' = {}
      BY <1>2, <1>6, <3>1 DEF Unopened, NoTables, Content
    <3>6. ASSUME NEW t \in Tables
          PROVE  RowsMirrored(n, t)' /\ EntryMirrored(n, t)'
      <4>1. folder'[n].slot[t] = {} /\ t \notin folder'[n].meta
        BY <1>2, <3>1, <3>3
      <4> QED BY <3>5, <4>1 DEF RowsMirrored, EntryMirrored
    <3> QED BY <3>4, <3>6
  <2> QED BY <2>1, <2>2
<1>20. Kept'
  <2>1. ASSUME NEW x \in Rows, Found(x)
        PROVE  Found(x)'
    <3>1. \A n \in Names, t \in Tables : InTable(x, n, t) => InTable(x, n, t)'
      BY <1>0, <1>1, <1>2, <1>5 DEF InTable, Priming, At
    <3>2. \A p \in Requests : Carries(p, x) => Carries(p, x)'
      BY <1>1, <1>2 DEF Carries, At
    <3> QED BY <1>2, <2>1, <3>1, <3>2, FoundStep
  <2>2. \A p \in Requests : Inserted(p)' => Inserted(p)
    BY <1>1 DEF Inserted, At, Same
  <2> QED BY <1>0, <2>1, <2>2, KeptStep
<1> QED BY <1>8, <1>9, <1>10, <1>11, <1>13, <1>14, <1>15, <1>16, <1>17, <1>19, <1>20 DEF IInv

-----------------------------------------------------------------------------
(* Namespaces go, under the persist lock.                                    *)

LEMMA DeleteTakeLockStep ==
  ASSUME IInv, NEW q \in Requests, DeleteTakeLock(q)
  PROVE  IInv'
<1>0. /\ Typed /\ Locks /\ Births /\ Homes /\ Hands /\ Going /\ Priming /\ Passing /\ Gone
      /\ Mirrored /\ Kept
  BY DEF IInv
<1>1. /\ After(q) /\ Same(q)
      /\ request[q].at = "wait" /\ request'[q].at = "tables"
      /\ request'[q].ns = request[q].ns /\ request'[q].obj = request[q].obj
      /\ request'[q].answer = request[q].answer
      /\ \A p \in Requests : p # q => request'[p] = request[p]
  BY <1>0, DeleteTakeLockRequest DEF After
<1>2. /\ map' = map /\ tables' = tables /\ queue' = queue /\ rows' = rows
      /\ writeLock' = writeLock /\ repo' = repo /\ folder' = folder /\ pass' = pass
      /\ restarts' = restarts /\ forgiven' = forgiven /\ doomed' = doomed
      /\ persistLock = NONE /\ persistLock' = q
  BY DEF DeleteTakeLock, memory, history
<1>3. pass = {}
  BY <1>0, <1>2, Sets DEF Locks
<1>4. Typed'
  <2>1. RestTyped'
    BY <1>0, <1>2, TypedParts DEF RestTyped
  <2> QED BY <1>1, <2>1, TypedNext DEF After
<1>5. Locks'
  BY <1>0, <1>1, <1>2, <1>3, Sets DEF Locks, At
<1>6. Births'
  <2>1. \A p \in Requests : p # q /\ request[p].at \in Opening =>
          p \notin pass' /\ request'[q].source # p /\ request'[q].ns # p
    BY <1>0, <1>1, <1>2 DEF Births, Unopened, Same
  <2>2. \A p \in Requests : p # q /\ request[p].at \in Bearing => request'[q].obj # p
    BY <1>0, <1>1 DEF Births, Unborn
  <2>3. request'[q].at \notin Opening /\ request'[q].at \notin Bearing
    BY <1>1 DEF Opening, Bearing
  <2> QED BY <1>0, <1>1, <1>2, <2>1, <2>2, <2>3, BirthsStep DEF At
<1>7. ~Moving(q)' /\ ~Moving(q) /\ ~AboutToInsert(q)'
  BY <1>1 DEF Moving, AboutToInsert, At
<1>8. Homes'
  BY <1>0, <1>1, <1>2, <1>7, HomesStep
<1>9. Hands'
  <2>1. \A p \in Requests : Moving(p) => request[p].obj # NONE
    BY <1>0, MovingHolds, Sets
  <2> QED BY <1>0, <1>1, <1>2, <1>7, <2>1, HandsStep
<1>10. Going'
  BY <1>0, <1>1, <1>2, GoingStep DEF Deletes, At
<1>11. Priming'
  BY <1>0, <1>1, <1>2, PrimingStep DEF At
<1>12. Passing'
  BY <1>2, <1>3 DEF Passing
<1>13. Gone'
  BY <1>0, <1>2 DEF Gone
<1>14. Mirrored'
  <2>1. \A p \in Requests, i \in Opened, t \in Tables :
         /\ OwesRowsBy(p, i, t) => OwesRowsBy(p, i, t)'
         /\ OwesEntryBy(p, i, t) => OwesEntryBy(p, i, t)'
    <3>1. \A i \in Opened, t \in Tables : ~OwesRowsBy(q, i, t) /\ ~OwesEntryBy(q, i, t)
      BY <1>1, <1>7 DEF OwesRowsBy, OwesEntryBy, At
    <3> QED BY <1>1, <1>2, <3>1, OthersOwe
  <2>2. \A n \in Names : map[n] # NONE => map[n] \in Opened
    BY <1>0 DEF Typed, TypeOK
  <2>3. \A n \in Names, t \in Tables : Content(map[n], t)' = Content(map[n], t)
    BY <1>2 DEF Content
  <2>4. \A n \in Names : map[n] # NONE => \A t \in Tables, p \in Requests :
           /\ OwesRowsBy(p, map[n], t) => OwesRowsBy(p, map[n], t)'
           /\ OwesEntryBy(p, map[n], t) => OwesEntryBy(p, map[n], t)'
    BY <1>2, <2>1, <2>2, OwesServed
  <2> QED BY <1>0, <1>2, <2>3, <2>4, MirroredStep
<1>15. Kept'
  <2>1. ASSUME NEW x \in Rows, Found(x)
        PROVE  Found(x)'
    <3>1. \A n \in Names, t \in Tables : InTable(x, n, t) => InTable(x, n, t)'
      BY <1>2 DEF InTable
    <3>2. \A p \in Requests : Carries(p, x) => Carries(p, x)'
      BY <1>1, <1>2 DEF Carries, At
    <3> QED BY <1>2, <2>1, <3>1, <3>2, FoundStep
  <2>2. \A p \in Requests : Inserted(p)' => Inserted(p)
    BY <1>1 DEF Inserted, At, Same
  <2> QED BY <1>0, <2>1, <2>2, KeptStep
<1> QED BY <1>4, <1>5, <1>6, <1>8, <1>9, <1>10, <1>11, <1>12, <1>13, <1>14, <1>15 DEF IInv

LEMMA DeleteFolderStep ==
  ASSUME IInv, NEW q \in Requests, DeleteFolder(q)
  PROVE  IInv'
<1> DEFINE name == request[q].name
           gone == request[q].ns
<1>0. /\ Typed /\ Locks /\ Births /\ Homes /\ Hands /\ Going /\ Priming /\ Passing /\ Gone
      /\ Mirrored /\ Kept
  BY DEF IInv
<1>1. /\ After(q) /\ Same(q)
      /\ request[q].at = "tables" /\ request'[q].at = "ended"
      /\ request'[q].ns = request[q].ns /\ request'[q].obj = request[q].obj
      /\ request[q].kind = "delete" /\ name \in Names /\ gone \in Opened
      /\ folder' = folder \/ folder' = [folder EXCEPT ![name] = NoFolder]
      /\ \A p \in Requests : p # q => request'[p] = request[p]
  BY <1>0, DeleteFolderRequest DEF After
<1>2. /\ map' = map /\ tables' = tables /\ queue' = queue /\ rows' = rows
      /\ writeLock' = writeLock /\ pass' = pass /\ restarts' = restarts
      /\ forgiven' = forgiven /\ doomed' = doomed /\ persistLock' = NONE
      /\ repo' = [repo EXCEPT ![gone] = NewRepo]
  BY DEF DeleteFolder, memory, history
<1>3. persistLock = q /\ pass = {} /\ \A p \in Requests : p # q => ~At(p, "tables")
  BY <1>0, <1>1, Sets DEF Locks, At
<1>4. /\ folder \in [Names -> [exists : BOOLEAN, meta : SUBSET Tables,
                               slot : [Tables -> SUBSET Rows]]]
      /\ repo \in [Opened -> [index : SUBSET Tables, meta : SUBSET Tables]]
  BY <1>0 DEF Typed, TypeOK
<1>5. /\ folder' \in [Names -> [exists : BOOLEAN, meta : SUBSET Tables,
                                slot : [Tables -> SUBSET Rows]]]
      /\ \A n \in Names : n # name => folder'[n] = folder[n]
      /\ folder'[name] = folder[name] \/ folder'[name] = NoFolder
  <2>1. NoFolder \in [exists : BOOLEAN, meta : SUBSET Tables, slot : [Tables -> SUBSET Rows]]
    BY DEF NoFolder
  <2> QED BY <1>1, <1>4, <2>1
<1>6. /\ repo' \in [Opened -> [index : SUBSET Tables, meta : SUBSET Tables]]
      /\ \A i \in Opened : i # gone => repo'[i] = repo[i]
  <2>1. NewRepo \in [index : SUBSET Tables, meta : SUBSET Tables]
    BY DEF NewRepo
  <2> QED BY <1>1, <1>2, <1>4, <2>1
<1>7. Typed'
  <2>1. RestTyped'
    BY <1>0, <1>2, <1>5, <1>6, TypedParts DEF RestTyped
  <2> QED BY <1>1, <2>1, TypedNext DEF After
<1>8. Locks'
  BY <1>0, <1>1, <1>2, <1>3, Sets DEF Locks, At
<1>9. Births'
  <2>1. \A p \in Requests : p # q /\ request[p].at \in Opening =>
          p \notin pass' /\ request'[q].source # p /\ request'[q].ns # p
    BY <1>0, <1>1, <1>2 DEF Births, Unopened, Same
  <2>2. \A p \in Requests : p # q /\ request[p].at \in Bearing => request'[q].obj # p
    BY <1>0, <1>1 DEF Births, Unborn
  <2>3. request'[q].at \notin Opening /\ request'[q].at \notin Bearing
    BY <1>1 DEF Opening, Bearing
  <2> QED BY <1>0, <1>1, <1>2, <2>1, <2>2, <2>3, BirthsStep DEF At
<1>10. ~Moving(q)' /\ ~Moving(q) /\ ~AboutToInsert(q)'
  BY <1>1 DEF Moving, AboutToInsert, At
<1>11. Homes'
  BY <1>0, <1>1, <1>2, <1>10, HomesStep
<1>12. Hands'
  <2>1. \A p \in Requests : Moving(p) => request[p].obj # NONE
    BY <1>0, MovingHolds, Sets
  <2> QED BY <1>0, <1>1, <1>2, <1>10, <2>1, HandsStep
<1>13. Going'
  BY <1>0, <1>1, <1>2, GoingStep DEF Deletes, At
<1>14. /\ \A n \in Names : map[n] # gone
       /\ map[name] \in doomed \cup {NONE}
       /\ \A p \in Requests : At(p, "prime") /\ request[p].name = name => p \in doomed
  BY <1>0, <1>1 DEF Going, Deletes
<1>15. Priming'
  <2> SUFFICES ASSUME NEW p \in Requests, At(p, "prime")'
               PROVE  /\ map'[request'[p].name] = NONE
                      /\ p \notin doomed' =>
                           LoadedTables(request[p].name)' = {} /\ repo'[p].meta = {}
    BY DEF Priming
  <2>1. p # q /\ At(p, "prime") /\ request'[p] = request[p]
    BY <1>1 DEF At
  <2>2. p # gone /\ p \in Opened
    BY <1>0, <2>1, Sets DEF Births, Unopened, Opening, At
  <2>3. request[p].name \in Names
    BY <1>0, <2>1, RequestFacts DEF At, Placed
  <2>4. p \notin doomed => folder'[request[p].name] = folder[request[p].name]
    BY <1>5, <1>14, <2>1, <2>3
  <2>5. p \notin doomed => LoadedTables(request[p].name)' = LoadedTables(request[p].name)
    BY <2>1, <2>4 DEF LoadedTables, Slots
  <2> QED BY <1>0, <1>2, <1>6, <2>1, <2>2, <2>5 DEF Priming
<1>16. Passing'
  BY <1>2, <1>3 DEF Passing
<1>17. Gone'
  BY <1>0, <1>5 DEF Gone
<1>18. Mirrored'
  <2>1. \A p \in Requests, i \in Opened, t \in Tables :
         /\ OwesRowsBy(p, i, t) => OwesRowsBy(p, i, t)'
         /\ OwesEntryBy(p, i, t) => OwesEntryBy(p, i, t)'
    <3>1. \A i \in Opened, t \in Tables : ~OwesRowsBy(q, i, t) /\ ~OwesEntryBy(q, i, t)
      BY <1>1, <1>10 DEF OwesRowsBy, OwesEntryBy, At
    <3> QED BY <1>1, <1>2, <3>1, OthersOwe
  <2>2. \A n \in Names : map[n] # NONE => map[n] \in Opened
    BY <1>0 DEF Typed, TypeOK
  <2>3. \A n \in Names, t \in Tables : Content(map[n], t)' = Content(map[n], t)
    BY <1>2 DEF Content
  <2>4. \A n \in Names : map[n] # NONE => \A t \in Tables, p \in Requests :
           /\ OwesRowsBy(p, map[n], t) => OwesRowsBy(p, map[n], t)'
           /\ OwesEntryBy(p, map[n], t) => OwesEntryBy(p, map[n], t)'
    BY <1>2, <2>1, <2>2, OwesServed
  <2>5. \A n \in Names : map[n] # NONE /\ map[n] \notin doomed =>
           n # name /\ folder'[n] = folder[n] /\ repo'[map[n]] = repo[map[n]]
    BY <1>5, <1>6, <1>14, <2>2
  <2> QED BY <1>0, <1>2, <2>3, <2>4, <2>5, MirroredStep
<1>19. Kept'
  <2>1. ASSUME NEW x \in Rows, Found(x)
        PROVE  Found(x)'
    <3>1. \A n \in Names, t \in Tables : InTable(x, n, t) => InTable(x, n, t)'
      BY <1>2 DEF InTable
    <3>2. \A p \in Requests : Carries(p, x) => Carries(p, x)'
      BY <1>1, <1>2 DEF Carries, At
    <3> QED BY <1>2, <2>1, <3>1, <3>2, FoundStep
  <2>2. \A p \in Requests : Inserted(p)' => Inserted(p)
    BY <1>1 DEF Inserted, At, Same
  <2> QED BY <1>0, <2>1, <2>2, KeptStep
<1> QED BY <1>7, <1>8, <1>9, <1>11, <1>12, <1>13, <1>15, <1>16, <1>17, <1>18, <1>19 DEF IInv

(* A table is in one place.                                                  *)
LEMMA OnePlace ==
  ASSUME Homes, NEW i \in Opened, NEW t \in Tables, NEW j \in Opened, NEW u \in Tables,
         tables[i][t] # NONE, tables[j][u] = tables[i][t]
  PROVE  i = j /\ t = u
<1>1. InHome(tables[i][t], i, t) /\ InHome(tables[j][u], j, u)
  BY DEF Homes
<1>2. PICK o : o = tables[i][t]
  OBVIOUS
<1>3. InHome(o, i, t) /\ InHome(o, j, u)
  BY <1>1, <1>2 DEF InHome
<1> QED BY <1>3 DEF InHome

LEMMA DeleteOneTableStep ==
  ASSUME IInv, NEW q \in Requests, DeleteOneTable(q)
  PROVE  IInv'
<1> DEFINE gone == request[q].ns
<1>0. /\ Typed /\ Locks /\ Births /\ Homes /\ Hands /\ Going /\ Priming /\ Passing /\ Gone
      /\ Mirrored /\ Kept
  BY DEF IInv
<1>1. /\ After(q) /\ Same(q)
      /\ request[q].at = "tables" /\ gone \in Opened
      /\ request'[q].ns = request[q].ns /\ request'[q].obj = request[q].obj
      /\ request[q].kind = "delete"
      /\ \/ /\ request'[q].at = "ended" /\ persistLock' = NONE
            /\ tables' = tables /\ rows' = rows /\ queue' = queue
         \/ /\ request'[q].at = "tables" /\ persistLock' = persistLock
            /\ \E t \in Tables :
                 /\ tables[gone][t] # NONE
                 /\ tables' = [tables EXCEPT ![gone][t] = NONE]
                 /\ rows' = [rows EXCEPT ![tables[gone][t]] = {}]
                 /\ queue' = [queue EXCEPT ![gone] = @ \cup {Metadata(t), Partition(t)}]
      /\ \A p \in Requests : p # q => request'[p] = request[p]
  BY <1>0, DeleteOneTableRequest DEF After
<1>2. /\ map' = map /\ writeLock' = writeLock /\ pass' = pass /\ restarts' = restarts
      /\ forgiven' = forgiven /\ doomed' = doomed /\ repo' = repo /\ folder' = folder
  BY DEF DeleteOneTable, history
<1>3. persistLock = q /\ pass = {} /\ \A p \in Requests : p # q => ~At(p, "tables")
  BY <1>0, <1>1, Sets DEF Locks, At
<1>4. /\ tables \in [Opened -> [Tables -> Objects \cup {NONE}]]
      /\ queue \in [Opened -> SUBSET Task] /\ rows \in [Objects -> SUBSET Rows]
  BY <1>0 DEF Typed, TypeOK
<1>5. /\ tables' \in [Opened -> [Tables -> Objects \cup {NONE}]]
      /\ queue' \in [Opened -> SUBSET Task] /\ rows' \in [Objects -> SUBSET Rows]
      /\ \A i \in Opened : i # gone => tables'[i] = tables[i] /\ queue'[i] = queue[i]
      /\ \A i \in Opened, t \in Tables : tables'[i][t] \in {tables[i][t], NONE}
      /\ \A o \in Objects : rows'[o] = rows[o] \/ \E t \in Tables : tables[gone][t] = o
  <2>1. CASE tables' = tables /\ rows' = rows /\ queue' = queue
    BY <1>4, <2>1
  <2>2. CASE ~(tables' = tables /\ rows' = rows /\ queue' = queue)
    <3>1. PICK t \in Tables :
                 /\ tables[gone][t] # NONE
                 /\ tables' = [tables EXCEPT ![gone][t] = NONE]
                 /\ rows' = [rows EXCEPT ![tables[gone][t]] = {}]
                 /\ queue' = [queue EXCEPT ![gone] = @ \cup {Metadata(t), Partition(t)}]
      BY <1>1, <2>2
    <3>2. PICK o \in Objects : o = tables[gone][t]
      BY <1>1, <1>4, <3>1
    <3>3. Metadata(t) \in Task /\ Partition(t) \in Task
      BY DEF Task
    <3>4. queue' \in [Opened -> SUBSET Task] /\ \A i \in Opened : i # gone => queue'[i] = queue[i]
      BY <1>1, <1>4, <3>1, <3>3
    <3>5. /\ rows' \in [Objects -> SUBSET Rows]
          /\ \A p \in Objects : p # o => rows'[p] = rows[p]
      BY <1>4, <3>1, <3>2
    <3>6. /\ tables' \in [Opened -> [Tables -> Objects \cup {NONE}]]
          /\ \A i \in Opened : i # gone => tables'[i] = tables[i]
          /\ \A i \in Opened, u \in Tables : tables'[i][u] \in {tables[i][u], NONE}
      BY <1>1, <1>4, <3>1
    <3> QED BY <3>2, <3>4, <3>5, <3>6
  <2> QED BY <2>1, <2>2
<1>6. Typed'
  <2>1. RestTyped'
    BY <1>0, <1>1, <1>2, <1>5, TypedParts DEF RestTyped
  <2> QED BY <1>1, <2>1, TypedNext DEF After
<1>7. Locks'
  BY <1>0, <1>1, <1>2, <1>3, Sets DEF Locks, At
<1>8. Births'
  <2>1. \A p \in Requests : p # q /\ request[p].at \in Opening =>
          /\ p \notin pass' /\ request'[q].source # p /\ request'[q].ns # p
          /\ tables'[p] = tables[p] /\ queue'[p] = queue[p]
    BY <1>0, <1>1, <1>2, <1>5, Sets DEF Births, Unopened, Same
  <2>2. \A p \in Requests : p # q /\ request[p].at \in Bearing =>
          request'[q].obj # p /\ rows'[p] = rows[p]
    BY <1>0, <1>1, <1>5, Sets DEF Births, Unborn
  <2>3. request'[q].at \notin Opening /\ request'[q].at \notin Bearing
    BY <1>1 DEF Opening, Bearing
  <2> QED BY <1>0, <1>1, <1>2, <1>5, <2>1, <2>2, <2>3, BirthsStep DEF At
<1>9. ~Moving(q)' /\ ~Moving(q) /\ ~AboutToInsert(q)'
  BY <1>1 DEF Moving, AboutToInsert, At
<1>10. Homes'
  BY <1>0, <1>1, <1>2, <1>5, <1>9, HomesStep
<1>11. \A p \in Requests : Moving(p) =>
         /\ request[p].obj # NONE /\ rows'[request[p].obj] = rows[request[p].obj]
  <2> SUFFICES ASSUME NEW p \in Requests, Moving(p)
               PROVE  /\ request[p].obj # NONE /\ rows'[request[p].obj] = rows[request[p].obj]
    OBVIOUS
  <2>1. request[p].obj \in Objects
    BY <1>0, MovingHolds
  <2>2. \A t \in Tables : tables[gone][t] # request[p].obj
    BY <1>0, <1>1 DEF Hands
  <2> QED BY <1>5, <2>1, <2>2, Sets
<1>12. Hands'
  BY <1>0, <1>1, <1>5, <1>9, <1>11, Sets, HandsStep
<1>13. Going'
  BY <1>0, <1>1, <1>2, GoingStep DEF Deletes, At
<1>14. Priming'
  BY <1>0, <1>1, <1>2, PrimingStep DEF At
<1>15. Passing'
  BY <1>2, <1>3 DEF Passing
<1>16. Gone'
  BY <1>0, <1>2 DEF Gone
<1>17. \A n \in Names : map[n] # NONE =>
         /\ map[n] # gone /\ map[n] \in Opened
         /\ tables'[map[n]] = tables[map[n]] /\ queue'[map[n]] = queue[map[n]]
         /\ \A t \in Tables : tables[map[n]][t] # NONE =>
              rows'[tables[map[n]][t]] = rows[tables[map[n]][t]]
  <2> SUFFICES ASSUME NEW n \in Names, map[n] # NONE
               PROVE  /\ map[n] # gone /\ map[n] \in Opened
                      /\ tables'[map[n]] = tables[map[n]] /\ queue'[map[n]] = queue[map[n]]
                      /\ \A t \in Tables : tables[map[n]][t] # NONE =>
                           rows'[tables[map[n]][t]] = rows[tables[map[n]][t]]
    OBVIOUS
  <2>1. map[n] # gone /\ map[n] \in Opened
    BY <1>0, <1>1 DEF Going, Deletes, Typed, TypeOK
  <2>2. ASSUME NEW t \in Tables, tables[map[n]][t] # NONE
        PROVE  rows'[tables[map[n]][t]] = rows[tables[map[n]][t]]
    <3>1. tables[map[n]][t] \in Objects
      BY <1>4, <2>1, <2>2
    <3>2. \A u \in Tables : tables[gone][u] # tables[map[n]][t]
      BY <1>0, <1>1, <2>1, <2>2, OnePlace
    <3> QED BY <1>5, <3>1, <3>2
  <2> QED BY <1>5, <2>1, <2>2
<1>18. Mirrored'
  <2>1. \A p \in Requests, i \in Opened, t \in Tables :
         /\ OwesRowsBy(p, i, t) => OwesRowsBy(p, i, t)'
         /\ OwesEntryBy(p, i, t) => OwesEntryBy(p, i, t)'
    <3>1. \A i \in Opened, t \in Tables : ~OwesRowsBy(q, i, t) /\ ~OwesEntryBy(q, i, t)
      BY <1>1, <1>9 DEF OwesRowsBy, OwesEntryBy, At
    <3> QED BY <1>1, <1>11, <3>1, OthersOwe
  <2>2. \A n \in Names : map[n] # NONE =>
          \A t \in Tables : Content(map[n], t)' = Content(map[n], t)
    BY <1>2, <1>17 DEF Content
  <2>3. \A n \in Names : map[n] # NONE => \A t \in Tables, p \in Requests :
           /\ OwesRowsBy(p, map[n], t) => OwesRowsBy(p, map[n], t)'
           /\ OwesEntryBy(p, map[n], t) => OwesEntryBy(p, map[n], t)'
    BY <1>2, <1>17, <2>1, OwesServed
  <2> QED BY <1>0, <1>2, <1>17, <2>2, <2>3, MirroredStep
<1>19. Kept'
  <2>1. ASSUME NEW x \in Rows, Found(x)
        PROVE  Found(x)'
    <3>1. \A n \in Names, t \in Tables : InTable(x, n, t) => InTable(x, n, t)'
      BY <1>2, <1>17 DEF InTable
    <3>2. \A p \in Requests : Carries(p, x) => Carries(p, x)'
      BY <1>1, <1>11 DEF Carries, At, Moving
    <3> QED BY <1>2, <2>1, <3>1, <3>2, FoundStep
  <2>2. \A p \in Requests : Inserted(p)' => Inserted(p)
    BY <1>1 DEF Inserted, At, Same
  <2> QED BY <1>0, <2>1, <2>2, KeptStep
<1> QED BY <1>6, <1>7, <1>8, <1>10, <1>12, <1>13, <1>14, <1>15, <1>16, <1>18, <1>19 DEF IInv

LEMMA RemoveFromMapStep ==
  ASSUME IInv, NEW q \in Requests, RemoveFromMap(q)
  PROVE  IInv'
<1>0. /\ Typed /\ Locks /\ Births /\ Homes /\ Hands /\ Going /\ Priming /\ Passing /\ Gone
      /\ Mirrored /\ Kept
  BY DEF IInv
<1>1. /\ After(q) /\ request[q] = NewRequest
      /\ request[q].at = "idle" /\ request[q].source = NONE /\ request[q].obj = NONE
      /\ request[q].ns = NONE
      /\ request'[q].source = NONE /\ request'[q].obj = NONE
      /\ \A p \in Requests : p # q => request'[p] = request[p]
  BY <1>0, RemoveFromMapRequest, NewFacts DEF After
<1>2. /\ tables' = tables /\ queue' = queue /\ rows' = rows /\ writeLock' = writeLock
      /\ repo' = repo /\ folder' = folder /\ pass' = pass /\ persistLock' = persistLock
      /\ restarts' = restarts /\ doomed' = doomed /\ writeLock = NONE
  BY DEF RemoveFromMap
<1>3. /\ ~Moving(q) /\ \A i \in Opened, t \in Tables : ~OwesRowsBy(q, i, t) /\ ~OwesEntryBy(q, i, t)
      /\ \A x \in Rows : ~Carries(q, x)
      /\ request[q].at \in Opening /\ request[q].at \in Bearing
  BY <1>1 DEF Moving, OwesRowsBy, OwesEntryBy, Carries, At, Opening, Bearing
<1>4. CASE /\ request'[q].at = "ended" /\ request'[q].kind = NONE
           /\ request'[q].ns = NONE /\ request'[q].answer # "done"
           /\ map' = map /\ forgiven' = forgiven
  <2>1. UNCHANGED <<memory, writeLock, repo, folder, pass, persistLock, restarts, history>>
    BY <1>2, <1>4 DEF memory, history
  <2>2. ~Moving(q)' /\ ~AboutToInsert(q)' /\ ~Inserted(q)'
    BY <1>4 DEF Moving, AboutToInsert, Inserted, At
  <2>3. /\ request'[q].at \notin Opening /\ request'[q].at \notin Bearing
        /\ request[q].at \notin {"prime", "wait", "tables"}
        /\ request'[q].at \notin {"prime", "wait", "tables"}
    BY <1>1, <1>4 DEF Opening, Bearing
  <2> QED BY <1>1, <1>3, <1>4, <2>1, <2>2, <2>3, QuietStep
<1>5. CASE /\ request'[q].at = "wait" /\ request'[q].kind = "delete"
           /\ request'[q].answer = NONE
           /\ \E n \in Names : /\ n # DEFAULT /\ map[n] # NONE
                               /\ request'[q].name = n /\ request'[q].ns = map[n]
                               /\ map' = [map EXCEPT ![n] = NONE]
                               /\ forgiven' = forgiven \cup ServedRows(map[n])
  <2>1. PICK name \in Names :
          /\ name # DEFAULT /\ map[name] # NONE
          /\ request'[q].name = name /\ request'[q].ns = map[name]
          /\ map' = [map EXCEPT ![name] = NONE]
          /\ forgiven' = forgiven \cup ServedRows(map[name])
    BY <1>5
  <2>2. /\ map \in [Names -> Opened \cup {NONE}] /\ forgiven \subseteq Rows
        /\ tables \in [Opened -> [Tables -> Objects \cup {NONE}]]
        /\ rows \in [Objects -> SUBSET Rows]
    BY <1>0 DEF Typed, TypeOK
  <2>3. /\ map' \in [Names -> Opened \cup {NONE}] /\ map'[name] = NONE
        /\ \A n \in Names : n # name => map'[n] = map[n]
        /\ \A n \in Names : map'[n] \in {map[n], NONE}
    BY <2>1, <2>2
  <2>4. forgiven' \subseteq Rows /\ forgiven \subseteq forgiven'
    BY <2>1, <2>2 DEF ServedRows
  <2>5. \A p \in Requests : ~At(p, "prime")
    BY <1>0, <1>2, Sets DEF Locks
  <2>6. Typed'
    <3>1. RestTyped'
      BY <1>0, <1>2, <2>3, <2>4, TypedParts DEF RestTyped
    <3> QED BY <1>1, <3>1, TypedNext DEF After
  <2>7. Locks'
    BY <1>0, <1>1, <1>2, <1>5, <2>5 DEF Locks, At
  <2>8. Births'
    <3>1. \A p \in Requests : p # q /\ request[p].at \in Opening =>
            p \notin pass' /\ request'[q].source # p /\ request'[q].ns # p
      BY <1>0, <1>1, <1>2, <2>1, Sets DEF Births, Unopened
    <3>2. \A p \in Requests : request'[q].obj # p
      BY <1>1, Sets
    <3>3. request'[q].at \notin Opening /\ request'[q].at \notin Bearing /\ request'[q].at # "prime"
      BY <1>5 DEF Opening, Bearing
    <3> QED BY <1>0, <1>1, <1>2, <2>3, <3>1, <3>2, <3>3, BirthsStep DEF At
  <2>9. ~Moving(q)' /\ ~AboutToInsert(q)' /\ ~Inserted(q)'
    BY <1>5 DEF Moving, AboutToInsert, Inserted, At
  <2>10. Homes'
    BY <1>0, <1>1, <1>2, <1>3, <2>3, <2>9, HomesStep
  <2>11. Hands'
    <3>1. \A p \in Requests : Moving(p) => request[p].obj # NONE
      BY <1>0, MovingHolds, Sets
    <3> QED BY <1>0, <1>1, <1>2, <2>9, <3>1, HandsStep
  <2>12. Going'
    <3> SUFFICES ASSUME NEW d \in Requests, Deletes(d)'
                 PROVE  /\ \A n \in Names : map'[n] # request'[d].ns
                        /\ map'[request'[d].name] \in doomed \cup {NONE}
      BY <1>1, <1>2, <1>5, <2>5 DEF Going, At
    <3>1. CASE d = q
      <4>1. ASSUME NEW n \in Names, n # name PROVE map[n] # map[name]
        <5>1. map[n] # NONE => NameOf(map[n]) = n
          BY <1>0 DEF Homes
        <5>2. NameOf(map[name]) = name
          BY <1>0, <2>1 DEF Homes
        <5> QED BY <2>1, <4>1, <5>1, <5>2
      <4> QED BY <2>1, <2>3, <3>1, <4>1
    <3>2. CASE d # q
      <4>1. Deletes(d) /\ request'[d] = request[d]
        BY <1>1, <3>2 DEF Deletes
      <4>2. request[d].name \in Names /\ request[d].ns \in Opened
        BY <1>0, <4>1, RequestFacts DEF Deletes, Placed
      <4>3. /\ \A n \in Names : map[n] # request[d].ns
            /\ map[request[d].name] \in doomed \cup {NONE}
        BY <1>0, <4>1 DEF Going
      <4> QED BY <2>3, <4>1, <4>2, <4>3, Sets
    <3> QED BY <3>1, <3>2
  <2>13. Priming'
    BY <1>1, <1>5, <2>5 DEF Priming, At
  <2>14. Passing'
    <3>1. \A i \in pass : NameOf(i) \in Names
      BY <1>0 DEF Homes
    <3>2. \A i \in pass : map'[NameOf(i)] = map[NameOf(i)]
                       \/ (At(q, "wait")' /\ request'[q].name = NameOf(i))
      BY <1>5, <2>1, <2>3, <3>1 DEF At
    <3> QED BY <1>0, <1>1, <1>2, <3>2, PassingStep DEF At
  <2>15. Gone'
    BY <1>0, <1>2 DEF Gone
  <2>16. Mirrored'
    <3>1. \A p \in Requests, i \in Opened, t \in Tables :
           /\ OwesRowsBy(p, i, t) => OwesRowsBy(p, i, t)'
           /\ OwesEntryBy(p, i, t) => OwesEntryBy(p, i, t)'
      BY <1>1, <1>2, <1>3, OthersOwe
    <3>2. \A n \in Names : map'[n] # NONE =>
            map'[n] = map[n] /\ map[n] # NONE /\ map[n] \in Opened
      BY <2>2, <2>3
    <3>3. \A n \in Names : map'[n] # NONE =>
            \A t \in Tables : Content(map[n], t)' = Content(map[n], t)
      BY <1>2, <3>2 DEF Content
    <3>4. \A n \in Names : map'[n] # NONE => \A t \in Tables, p \in Requests :
             /\ OwesRowsBy(p, map[n], t) => OwesRowsBy(p, map[n], t)'
             /\ OwesEntryBy(p, map[n], t) => OwesEntryBy(p, map[n], t)'
      BY <3>1, <3>2, OwesServed
    <3> QED BY <1>0, <1>2, <2>4, <3>2, <3>3, <3>4, MirroredStep
  <2>17. Kept'
    <3>1. ASSUME NEW x \in Rows, Found(x)
          PROVE  Found(x)'
      <4>1. ASSUME NEW n \in Names, NEW t \in Tables, InTable(x, n, t)
            PROVE  InTable(x, n, t)' \/ Found(x)'
        <5>1. CASE n = name
          <6>1. x \in ServedRows(map[name])
            BY <4>1, <5>1 DEF InTable, ServedRows
          <6> QED BY <2>1, <6>1 DEF Found
        <5>2. CASE n # name
          BY <1>2, <2>3, <4>1, <5>2 DEF InTable
        <5> QED BY <5>1, <5>2
      <4>2. \A p \in Requests : Carries(p, x) => Carries(p, x)'
        BY <1>1, <1>2, <1>3 DEF Carries, At
      <4> QED BY <2>4, <3>1, <4>1, <4>2, FoundStep
    <3>2. \A p \in Requests : Inserted(p)' => Inserted(p)
      BY <1>1, <2>9 DEF Inserted, At
    <3> QED BY <1>0, <3>1, <3>2, KeptStep
  <2> QED BY <2>6, <2>7, <2>8, <2>10, <2>11, <2>12, <2>13, <2>14, <2>15, <2>16, <2>17 DEF IInv
<1> QED BY <1>0, <1>4, <1>5, RemoveFromMapRequest

-----------------------------------------------------------------------------
(* Tables, rows and marks.                                                   *)

LEMMA MarkStep ==
  ASSUME IInv, NEW q \in Requests, Mark(q)
  PROVE  IInv'
<1>0. /\ Typed /\ Locks /\ Births /\ Homes /\ Hands /\ Going /\ Priming /\ Passing /\ Gone
      /\ Mirrored /\ Kept
  BY DEF IInv
<1>1. /\ After(q) /\ Same(q)
      /\ request[q].at = "mark" /\ request'[q].at = "mark"
      /\ request'[q].ns = request[q].ns /\ request'[q].obj = request[q].obj
      /\ request[q].owes \in Seq(Task) /\ request[q].owes # <<>>
      /\ request'[q].owes = Tail(request[q].owes)
      /\ request'[q].then = request[q].then /\ request'[q].answer = request[q].answer
      /\ Marks(q) \in Opened
      /\ \A p \in Requests : p # q => request'[p] = request[p]
  BY <1>0, MarkRequest DEF After
<1>2. /\ map' = map /\ tables' = tables /\ rows' = rows
      /\ writeLock' = writeLock /\ repo' = repo /\ folder' = folder /\ pass' = pass
      /\ persistLock' = persistLock /\ restarts' = restarts
      /\ forgiven' = forgiven /\ doomed' = doomed
      /\ queue' = [queue EXCEPT ![Marks(q)] = @ \cup {Head(request[q].owes)}]
  BY DEF Mark, history
<1>3. queue \in [Opened -> SUBSET Task] /\ Head(request[q].owes) \in Task
  BY <1>0, <1>1 DEF Typed, TypeOK
<1>4. /\ queue' \in [Opened -> SUBSET Task]
      /\ \A i \in Opened : i # Marks(q) => queue'[i] = queue[i]
      /\ \A i \in Opened : queue[i] \subseteq queue'[i]
      /\ Head(request[q].owes) \in queue'[Marks(q)]
  BY <1>1, <1>2, <1>3
<1>5. Typed'
  <2>1. RestTyped'
    BY <1>0, <1>2, <1>4, TypedParts DEF RestTyped
  <2> QED BY <1>1, <2>1, TypedNext DEF After
<1>6. Locks'
  BY <1>0, <1>1, <1>2 DEF Locks, At
<1>7. Births'
  <2>1. \A p \in Requests : p # q /\ request[p].at \in Opening =>
          /\ p \notin pass' /\ request'[q].source # p /\ request'[q].ns # p
          /\ queue'[p] = queue[p]
    BY <1>0, <1>1, <1>2, <1>4, Sets DEF Births, Unopened, Same, Marks
  <2>2. \A p \in Requests : p # q /\ request[p].at \in Bearing => request'[q].obj # p
    BY <1>0, <1>1 DEF Births, Unborn
  <2>3. request'[q].at \notin Opening /\ request'[q].at \notin Bearing
    BY <1>1 DEF Opening, Bearing
  <2> QED BY <1>0, <1>1, <1>2, <2>1, <2>2, <2>3, BirthsStep DEF At
<1>8. (Moving(q)' => Moving(q)) /\ (AboutToInsert(q)' => AboutToInsert(q))
  BY <1>1 DEF Moving, AboutToInsert, At, Same
<1>9. Homes'
  BY <1>0, <1>1, <1>2, <1>8, HomesStep
<1>10. Hands'
  <2>1. \A p \in Requests : Moving(p) => request[p].obj # NONE
    BY <1>0, MovingHolds, Sets
  <2> QED BY <1>0, <1>1, <1>2, <1>8, <2>1, HandsStep
<1>11. Going'
  BY <1>0, <1>1, <1>2, GoingStep DEF Deletes, At
<1>12. Priming'
  BY <1>0, <1>1, <1>2, PrimingStep DEF At
<1>13. Passing'
  BY <1>0, <1>1, <1>2, PassingStep DEF At
<1>14. Gone'
  BY <1>0, <1>2 DEF Gone
<1>15. ASSUME NEW task, NEW k \in 1..Len(request[q].owes), request[q].owes[k] = task
       PROVE  task \in queue'[Marks(q)]
          \/ \E j \in 1..Len(request'[q].owes) : request'[q].owes[j] = task
  <2>1. CASE k = 1
    <3>1. Head(request[q].owes) = task
      BY <1>1, <1>15, <2>1
    <3> QED BY <1>4, <3>1
  <2>2. CASE k # 1
    <3>1. k - 1 \in 1..Len(request'[q].owes) /\ request'[q].owes[k - 1] = task
      BY <1>1, <1>15, <2>2
    <3> QED BY <3>1
  <2> QED BY <2>1, <2>2
<1>16. ASSUME NEW p \in Requests, NEW i \in Opened, NEW t \in Tables
       PROVE  /\ OwesRowsBy(p, i, t) => OwesRowsBy(p, i, t)' \/ Partition(t) \in queue'[i]
              /\ OwesEntryBy(p, i, t) => OwesEntryBy(p, i, t)' \/ Metadata(t) \in queue'[i]
  <2>1. CASE p # q
    BY <1>1, <1>2, <2>1, OthersOwe
  <2>2. CASE p = q
    <3>1. At(q, "mark") /\ At(q, "mark")' /\ Marks(q)' = Marks(q) /\ (Moving(q)' <=> Moving(q))
      BY <1>1 DEF Marks, Moving, At, Same
    <3>2. rows'[request'[q].obj] = rows[request[q].obj]
      BY <1>1, <1>2
    <3>3. OwesRowsBy(q, i, t) => OwesRowsBy(q, i, t)' \/ Partition(t) \in queue'[i]
      BY <1>1, <1>15, <3>1, <3>2 DEF OwesRowsBy, Same, Partition
    <3>4. OwesEntryBy(q, i, t) => OwesEntryBy(q, i, t)' \/ Metadata(t) \in queue'[i]
      BY <1>1, <1>15, <3>1 DEF OwesEntryBy, Same, Metadata
    <3> QED BY <2>2, <3>3, <3>4
  <2> QED BY <2>1, <2>2
<1>17. Mirrored'
  <2> SUFFICES ASSUME NEW n \in Names, map[n] # NONE, map[n] \notin doomed
               PROVE  Known(n)' /\ \A t \in Tables : RowsMirrored(n, t)' /\ EntryMirrored(n, t)'
    BY <1>2 DEF Mirrored
  <2>1. Known(n) /\ \A t \in Tables : RowsMirrored(n, t) /\ EntryMirrored(n, t)
    BY <1>0 DEF Mirrored
  <2>2. Known(n)'
    BY <1>2, <2>1 DEF Known, Slots
  <2>3. PICK i \in Opened : i = map[n]
    BY <1>0 DEF Typed, TypeOK
  <2>4. ASSUME NEW t \in Tables
        PROVE  RowsMirrored(n, t)' /\ EntryMirrored(n, t)'
    <3>1. Content(i, t)' = Content(i, t)
      BY <1>2 DEF Content
    <3> QED BY <1>2, <1>4, <1>16, <2>1, <2>3, <3>1, RowsKept, EntryKept
  <2> QED BY <2>2, <2>4
<1>18. Kept'
  <2>1. ASSUME NEW x \in Rows, Found(x)
        PROVE  Found(x)'
    <3>1. \A n \in Names, t \in Tables : InTable(x, n, t) => InTable(x, n, t)'
      BY <1>2 DEF InTable
    <3>2. \A p \in Requests : Carries(p, x) => Carries(p, x)'
      BY <1>1, <1>2 DEF Carries, At
    <3> QED BY <1>2, <2>1, <3>1, <3>2, FoundStep
  <2>2. \A p \in Requests : Inserted(p)' => Inserted(p)
    BY <1>1 DEF Inserted, At, Same
  <2> QED BY <1>0, <2>1, <2>2, KeptStep
<1> QED BY <1>5, <1>6, <1>7, <1>9, <1>10, <1>11, <1>12, <1>13, <1>14, <1>17, <1>18 DEF IInv

LEMMA GetOrCreateTableStep ==
  ASSUME IInv, NEW q \in Requests, GetOrCreateTable(q)
  PROVE  IInv'
<1> DEFINE home == request[q].ns
           table == request[q].table
<1>0. /\ Typed /\ Locks /\ Births /\ Homes /\ Hands /\ Going /\ Priming /\ Passing /\ Gone
      /\ Mirrored /\ Kept
  BY DEF IInv
<1>1. /\ After(q) /\ Same(q)
      /\ request[q].at = "table" /\ request'[q].ns = request[q].ns
      /\ request[q].kind \in {"create", "restore"}
      /\ \/ request'[q].at = "ended" /\ request'[q].answer = "table exists"
            /\ Held(q) # NONE /\ request'[q].obj = request[q].obj
         \/ /\ request'[q].at = "mark" /\ request'[q].answer = request[q].answer
            /\ request'[q].owes = <<Metadata(request[q].table)>>
            /\ request'[q].obj = IF Held(q) = NONE THEN q ELSE Held(q)
            /\ request'[q].then = IF request[q].kind = "create" THEN "ended" ELSE "insert"
      /\ home \in Opened /\ table \in Tables
      /\ \A p \in Requests : p # q => request'[p] = request[p]
  <2>1. request[q].at = "table" /\ home \in Opened /\ table \in Tables
    BY <1>0, RequestFacts DEF GetOrCreateTable, At, Placed, Working
  <2> QED BY <1>0, <2>1, GetOrCreateTableRequest DEF After
<1>2. /\ map' = map /\ queue' = queue /\ rows' = rows /\ writeLock' = writeLock
      /\ repo' = repo /\ folder' = folder /\ pass' = pass /\ persistLock' = persistLock
      /\ restarts' = restarts /\ forgiven' = forgiven /\ doomed' = doomed
      /\ tables' = IF Held(q) = NONE THEN [tables EXCEPT ![home][table] = q] ELSE tables
  BY DEF GetOrCreateTable, history
<1>3. /\ ~Moving(q) /\ ~Moving(q)' /\ (Inserted(q)' => Inserted(q))
      /\ \A i \in Opened, t \in Tables : ~OwesRowsBy(q, i, t) /\ ~OwesEntryBy(q, i, t)
      /\ \A x \in Rows : ~Carries(q, x)
      /\ request[q].at \notin Opening /\ request[q].at \in Bearing
      /\ request'[q].at \notin Opening /\ request'[q].at \notin Bearing
      /\ request[q].at \notin {"prime", "wait", "tables"}
      /\ request'[q].at \notin {"prime", "wait", "tables"}
  BY <1>1 DEF Moving, Inserted, OwesRowsBy, OwesEntryBy, Carries, At, Opening, Bearing, Same
<1>4. CASE Held(q) # NONE
  <2>1. UNCHANGED <<memory, writeLock, repo, folder, pass, persistLock, restarts, history>>
    BY <1>2, <1>4 DEF memory, history
  <2>2. \/ request'[q].obj = request[q].obj
        \/ \E i \in Opened, t \in Tables : tables[i][t] # NONE /\ request'[q].obj = tables[i][t]
    BY <1>1, <1>4 DEF Held
  <2>3. AboutToInsert(q)' =>
           /\ request'[q].ns \in Opened /\ request'[q].table \in Tables
           /\ request'[q].obj # NONE
           /\ request'[q].obj = tables[request'[q].ns][request'[q].table]
    BY <1>1, <1>4 DEF Held, AboutToInsert, At, Same
  <2> QED BY <1>1, <1>3, <2>1, <2>2, <2>3, QuietStep DEF Same
<1>5. CASE Held(q) = NONE
  <2>1. /\ tables \in [Opened -> [Tables -> Objects \cup {NONE}]] /\ q \in Objects
        /\ tables[home][table] = NONE
    BY <1>0, <1>5, Sets DEF Typed, TypeOK, Held
  <2>2. /\ tables' \in [Opened -> [Tables -> Objects \cup {NONE}]]
        /\ tables'[home][table] = q
        /\ \A i \in Opened : i # home => tables'[i] = tables[i]
        /\ \A i \in Opened, t \in Tables : (i = home /\ t = table) \/ tables'[i][t] = tables[i][t]
    BY <1>1, <1>2, <1>5, <2>1
  <2>3. Unborn(q) /\ rows[q] = {}
    BY <1>0, <1>1 DEF Births, Bearing, Unborn
  <2>4. Typed'
    <3>1. RestTyped'
      BY <1>0, <1>2, <2>2, TypedParts DEF RestTyped
    <3> QED BY <1>1, <3>1, TypedNext DEF After
  <2>5. Locks'
    BY <1>0, <1>1, <1>2, <1>3 DEF Locks, At
  <2>6. Births'
    <3>1. \A p \in Requests : p # q /\ request[p].at \in Opening =>
            p \notin pass' /\ request'[q].source # p /\ request'[q].ns # p /\ home # p
      <4>1. \A p \in Requests : p # q /\ request[p].at \in Opening =>
              p \notin pass /\ request[q].source # p /\ request[q].ns # p
        BY <1>0 DEF Births, Unopened
      <4> QED BY <1>1, <1>2, <4>1 DEF Same
    <3>2. \A p \in Requests : p # q /\ request[p].at \in Bearing => request'[q].obj # p
      BY <1>0, <1>1, <1>5 DEF Births, Unborn
    <3> QED BY <1>0, <1>1, <1>2, <1>3, <2>2, <3>1, <3>2, Sets, BirthsStep DEF At
  <2>7. Homes'
    <3>1. /\ request'[q].ns = home /\ request'[q].table = table
          /\ AboutToInsert(q)' => request'[q].obj = q
      BY <1>1, <1>5 DEF AboutToInsert, At, Same
    <3>2. \A i \in Opened, t \in Tables :
            \/ tables'[i][t] \in {tables[i][t], NONE}
            \/ tables'[i][t] = q /\ i = request'[q].ns /\ t = request'[q].table
      BY <2>2, <3>1
    <3>3. AboutToInsert(q)' =>
            /\ request'[q].ns \in Opened /\ request'[q].table \in Tables
            /\ request'[q].obj # NONE
            /\ request'[q].obj = tables'[request'[q].ns][request'[q].table]
      BY <1>1, <2>1, <2>2, <3>1, Sets
    <3> QED BY <1>0, <1>1, <1>2, <3>2, <3>3, HomesStep
  <2>8. Hands'
    <3>1. \A p \in Requests : Moving(p) => request[p].obj # NONE
      BY <1>0, MovingHolds, Sets
    <3> QED BY <1>0, <1>1, <1>3, <2>2, <3>1, HandsStep
  <2>9. Going'
    BY <1>0, <1>1, <1>2, <1>3, GoingStep DEF Deletes, At
  <2>10. Priming'
    BY <1>0, <1>1, <1>2, <1>3, PrimingStep DEF At
  <2>11. Passing'
    BY <1>0, <1>1, <1>2, PassingStep DEF At
  <2>12. Gone'
    BY <1>0, <1>2 DEF Gone
  <2>13. Mirrored'
    <3> SUFFICES ASSUME NEW n \in Names, map[n] # NONE, map[n] \notin doomed
                 PROVE  Known(n)' /\ \A t \in Tables : RowsMirrored(n, t)' /\ EntryMirrored(n, t)'
      BY <1>2 DEF Mirrored
    <3>1. Known(n) /\ \A t \in Tables : RowsMirrored(n, t) /\ EntryMirrored(n, t)
      BY <1>0 DEF Mirrored
    <3>2. Known(n)'
      BY <1>2, <3>1 DEF Known, Slots
    <3>3. PICK i \in Opened : i = map[n]
      BY <1>0 DEF Typed, TypeOK
    <3>4. \A p \in Requests, t \in Tables :
           /\ OwesRowsBy(p, i, t) => OwesRowsBy(p, i, t)'
           /\ OwesEntryBy(p, i, t) => OwesEntryBy(p, i, t)'
      BY <1>1, <1>2, <1>3, OthersOwe
    <3>5. ASSUME NEW t \in Tables
          PROVE  RowsMirrored(n, t)' /\ EntryMirrored(n, t)'
      <4>1. CASE i = home /\ t = table
        <5>1. Content(i, t) = {} /\ Content(i, t)' = {}
          BY <1>2, <2>1, <2>2, <2>3, <4>1, Sets DEF Content
        <5>2. RowsMirrored(n, t)'
          BY <1>2, <3>1, <3>3, <3>4, <5>1, RowsKept
        <5>3. Marks(q)' = home
          BY <1>1 DEF Marks, Same
        <5>4. request'[q].owes[1] = Metadata(t) /\ 1 \in 1..Len(request'[q].owes) /\ At(q, "mark")'
          BY <1>1, <1>5, <4>1 DEF At
        <5>5. OwesEntryBy(q, map[n], t)'
          BY <1>2, <3>3, <4>1, <5>3, <5>4 DEF OwesEntryBy, Metadata
        <5> QED BY <5>2, <5>5 DEF EntryMirrored
      <4>2. CASE ~(i = home /\ t = table)
        <5>1. tables'[i][t] = tables[i][t] /\ Content(i, t)' = Content(i, t)
          BY <1>2, <2>2, <4>2 DEF Content
        <5> QED BY <1>2, <3>1, <3>3, <3>4, <5>1, RowsKept, EntryKept
      <4> QED BY <4>1, <4>2
    <3> QED BY <3>2, <3>5
  <2>14. Kept'
    <3>1. ASSUME NEW x \in Rows, Found(x)
          PROVE  Found(x)'
      <4>1. ASSUME NEW n \in Names, NEW t \in Tables, InTable(x, n, t)
            PROVE  InTable(x, n, t)'
        <5>1. map[n] \in Opened
          BY <1>0, <4>1 DEF InTable, Typed, TypeOK
        <5> QED BY <1>2, <2>1, <2>2, <4>1, <5>1 DEF InTable
      <4>2. \A p \in Requests : Carries(p, x) => Carries(p, x)'
        BY <1>1, <1>2, <1>3 DEF Carries, At
      <4> QED BY <1>2, <3>1, <4>1, <4>2, FoundStep
    <3>2. \A p \in Requests : Inserted(p)' => Inserted(p)
      BY <1>1, <1>3 DEF Inserted, At
    <3> QED BY <1>0, <3>1, <3>2, KeptStep
  <2> QED BY <2>4, <2>5, <2>6, <2>7, <2>8, <2>9, <2>10, <2>11, <2>12, <2>13, <2>14 DEF IInv
<1> QED BY <1>4, <1>5

LEMMA InsertStep ==
  ASSUME IInv, NEW q \in Requests, Insert(q)
  PROVE  IInv'
<1> DEFINE home == request[q].ns
           table == request[q].table
<1>0. /\ Typed /\ Locks /\ Births /\ Homes /\ Hands /\ Going /\ Priming /\ Passing /\ Gone
      /\ Mirrored /\ Kept
  BY DEF IInv
<1>1. /\ After(q) /\ Same(q)
      /\ request[q].at = "insert" /\ request'[q].at = "mark"
      /\ request'[q].ns = request[q].ns /\ request'[q].obj = request[q].obj
      /\ request'[q].owes = <<Partition(request[q].table)>>
      /\ request'[q].then = "ended" /\ request'[q].answer = request[q].answer
      /\ request[q].kind \in {"write", "restore"}
      /\ home \in Opened /\ table \in Tables
      /\ \A p \in Requests : p # q => request'[p] = request[p]
  <2>1. request[q].at = "insert" /\ home \in Opened /\ table \in Tables
        /\ request[q].kind \in {"write", "restore"}
    BY <1>0, RequestFacts DEF Insert, At, Placed, Working
  <2> QED BY <1>0, <2>1, InsertRequest DEF After
<1>2. PICK o \in Objects : o = request[q].obj
  BY <1>0, <1>1, RequestFacts DEF Placed
<1>3. /\ map' = map /\ queue' = queue /\ tables' = tables /\ writeLock' = writeLock
      /\ repo' = repo /\ folder' = folder /\ pass' = pass /\ persistLock' = persistLock
      /\ restarts' = restarts /\ doomed' = doomed
      /\ rows' = [rows EXCEPT ![o] = @ \cup {q}]
      /\ forgiven' = IF Served(o) \/ AboutToBeCopied(o) THEN forgiven ELSE forgiven \cup {q}
  BY <1>2 DEF Insert
<1>4. rows \in [Objects -> SUBSET Rows] /\ forgiven \subseteq Rows /\ q \in Rows
  BY <1>0, Sets DEF Typed, TypeOK
<1>5. /\ rows' \in [Objects -> SUBSET Rows] /\ q \in rows'[o]
      /\ \A p \in Objects : rows[p] \subseteq rows'[p] /\ (p # o => rows'[p] = rows[p])
      /\ forgiven' \subseteq Rows /\ forgiven \subseteq forgiven'
  BY <1>2, <1>3, <1>4
<1>6. /\ ~Moving(q) /\ ~Moving(q)' /\ ~AboutToInsert(q)'
      /\ \A i \in Opened, t \in Tables : ~OwesRowsBy(q, i, t) /\ ~OwesEntryBy(q, i, t)
      /\ \A x \in Rows : ~Carries(q, x)
      /\ request[q].at \notin Opening /\ request[q].at \notin Bearing
      /\ request'[q].at \notin Opening /\ request'[q].at \notin Bearing
      /\ request'[q].at # "prime"
  BY <1>1 DEF Moving, AboutToInsert, OwesRowsBy, OwesEntryBy, Carries, At, Opening, Bearing, Same
<1>7. Typed'
  <2>1. RestTyped'
    BY <1>0, <1>3, <1>5, TypedParts DEF RestTyped
  <2> QED BY <1>1, <2>1, TypedNext DEF After
<1>8. Locks'
  BY <1>0, <1>1, <1>3 DEF Locks, At
<1>9. Births'
  <2>1. \A p \in Requests : p # q /\ request[p].at \in Opening =>
          p \notin pass /\ request[q].source # p /\ request[q].ns # p
    BY <1>0 DEF Births, Unopened
  <2>2. \A p \in Requests : p # q /\ request[p].at \in Opening =>
          p \notin pass' /\ request'[q].source # p /\ request'[q].ns # p
    BY <1>1, <1>3, <2>1 DEF Same
  <2>3. \A p \in Requests : p # q /\ request[p].at \in Bearing => request[q].obj # p
    BY <1>0 DEF Births, Unborn
  <2>4. \A p \in Requests : p # q /\ request[p].at \in Bearing =>
          rows'[p] = rows[p] /\ request'[q].obj # p
    BY <1>1, <1>2, <1>5, <2>3, Sets
  <2> QED BY <1>0, <1>1, <1>3, <1>6, <2>2, <2>4, BirthsStep DEF At
<1>10. Homes'
  BY <1>0, <1>1, <1>3, <1>6, HomesStep
<1>11. \A p \in Requests : Moving(p) => request[p].obj # NONE /\ request[p].obj \in Objects
  BY <1>0, MovingHolds, Sets
<1>12. Hands'
  BY <1>0, <1>1, <1>3, <1>6, <1>11, HandsStep
<1>13. Going'
  BY <1>0, <1>1, <1>3, GoingStep DEF Deletes, At
<1>14. Priming'
  BY <1>0, <1>1, <1>3, <1>6, PrimingStep DEF At
<1>15. Passing'
  BY <1>0, <1>1, <1>3, PassingStep DEF At
<1>16. Gone'
  BY <1>0, <1>3 DEF Gone
<1>17. InHome(o, home, table)
  BY <1>0, <1>1, <1>2 DEF Homes, AboutToInsert, At, InHome
<1>18. ASSUME NEW i \in Opened, NEW t \in Tables, tables[i][t] = o
       PROVE  i = home /\ t = table
  <2>1. InHome(tables[i][t], i, t)
    BY <1>0, <1>2, <1>18, Sets DEF Homes
  <2>2. InHome(o, i, t)
    BY <1>18, <2>1 DEF InHome
  <2> QED BY <1>17, <2>2 DEF InHome
<1>19. \A p \in Requests, i \in Opened, t \in Tables :
        /\ OwesRowsBy(p, i, t) => OwesRowsBy(p, i, t)'
        /\ OwesEntryBy(p, i, t) => OwesEntryBy(p, i, t)'
  <2>1. \A p \in Requests : Moving(p) /\ rows[request[p].obj] # {} => rows'[request[p].obj] # {}
    BY <1>5, <1>11
  <2> QED BY <1>1, <1>6, <2>1, OthersOwe
<1>20. Mirrored'
  <2> SUFFICES ASSUME NEW n \in Names, map[n] # NONE, map[n] \notin doomed
               PROVE  Known(n)' /\ \A t \in Tables : RowsMirrored(n, t)' /\ EntryMirrored(n, t)'
    BY <1>3 DEF Mirrored
  <2>1. Known(n) /\ \A t \in Tables : RowsMirrored(n, t) /\ EntryMirrored(n, t)
    BY <1>0 DEF Mirrored
  <2>2. Known(n)'
    BY <1>3, <2>1 DEF Known, Slots
  <2>3. PICK i \in Opened : i = map[n]
    BY <1>0 DEF Typed, TypeOK
  <2>4. ASSUME NEW t \in Tables
        PROVE  RowsMirrored(n, t)' /\ EntryMirrored(n, t)'
    <3>1. EntryMirrored(n, t)'
      BY <1>3, <1>19, <2>1, <2>3, EntryKept
    <3>2. CASE tables[i][t] = o
      <4>1. i = home /\ t = table
        BY <1>18, <3>2
      <4>2. Marks(q)' = home
        BY <1>1 DEF Marks, Same
      <4>3. request'[q].owes[1] = Partition(t) /\ 1 \in 1..Len(request'[q].owes) /\ At(q, "mark")'
        BY <1>1, <4>1 DEF At
      <4>4. OwesRowsBy(q, map[n], t)'
        BY <1>3, <2>3, <4>1, <4>2, <4>3 DEF OwesRowsBy, Partition
      <4> QED BY <3>1, <4>4 DEF RowsMirrored
    <3>3. CASE tables[i][t] # o
      <4>1. tables[i][t] \in Objects \cup {NONE}
        BY <1>0 DEF Typed, TypeOK
      <4>2. Content(i, t)' = Content(i, t)
        BY <1>3, <1>5, <3>3, <4>1 DEF Content
      <4>3. RowsMirrored(n, t)'
        BY <1>3, <1>5, <1>19, <2>1, <2>3, <4>2, RowsKept
      <4> QED BY <3>1, <4>3
    <3> QED BY <3>2, <3>3
  <2> QED BY <2>2, <2>4
<1>21. Kept'
  <2>1. ASSUME NEW x \in Rows, Found(x)
        PROVE  Found(x)'
    <3>1. ASSUME NEW n \in Names, NEW t \in Tables, InTable(x, n, t)
          PROVE  InTable(x, n, t)'
      <4>1. tables[map[n]][t] \in Objects
        BY <1>0, <3>1 DEF InTable, Typed, TypeOK
      <4> QED BY <1>3, <1>5, <3>1, <4>1 DEF InTable
    <3>2. ASSUME NEW p \in Requests, Carries(p, x)
          PROVE  Carries(p, x)'
      <4>1. p # q /\ request'[p] = request[p]
        BY <1>1, <1>6, <3>2
      <4>2. At(p, "copy") => request[p].obj \in Objects
        BY <1>11 DEF Moving, At
      <4> QED BY <1>5, <3>2, <4>1, <4>2 DEF Carries, At
    <3> QED BY <1>5, <2>1, <3>1, <3>2, FoundStep
  <2>2. Found(q)'
    <3>1. CASE Served(o)
      <4>1. PICK n \in Names, t \in Tables : map[n] # NONE /\ tables[map[n]][t] = o
        BY <3>1 DEF Served
      <4>2. InTable(q, n, t)'
        BY <1>2, <1>3, <1>5, <4>1, Sets DEF InTable
      <4> QED BY <4>2 DEF Found
    <3>2. CASE AboutToBeCopied(o)
      <4>1. PICK m \in Requests : At(m, "copy") /\ request[m].obj = o
        BY <3>2 DEF AboutToBeCopied
      <4>2. Carries(m, q)'
        BY <1>1, <1>5, <4>1 DEF Carries, At
      <4> QED BY <4>2 DEF Found
    <3>3. CASE ~Served(o) /\ ~AboutToBeCopied(o)
      BY <1>3, <3>3 DEF Found
    <3> QED BY <3>1, <3>2, <3>3
  <2>3. \A p \in Requests : Inserted(p)' => Inserted(p) \/ Found(p)'
    BY <1>1, <2>2 DEF Inserted, At
  <2> QED BY <1>0, <2>1, <2>3, KeptStep
<1> QED BY <1>7, <1>8, <1>9, <1>10, <1>12, <1>13, <1>14, <1>15, <1>16, <1>20, <1>21 DEF IInv

-----------------------------------------------------------------------------
(* A move, from the table's leaving its namespace.                           *)

LEMMA MoveTakeStep ==
  ASSUME IInv, NEW q \in Requests, MoveTake(q)
  PROVE  IInv'
<1> DEFINE from == request[q].source
           table == request[q].table
<1>0. /\ Typed /\ Locks /\ Births /\ Homes /\ Hands /\ Going /\ Priming /\ Passing /\ Gone
      /\ Mirrored /\ Kept
  BY DEF IInv
<1>1. /\ After(q) /\ Same(q)
      /\ request[q].at = "take" /\ request'[q].ns = request[q].ns
      /\ from \in Opened /\ table \in Tables
      /\ request[q].kind = "move"
      /\ \/ request'[q].at = "ended" /\ request'[q].answer = "table not found"
            /\ request'[q].obj = request[q].obj /\ tables[from][table] = NONE
         \/ /\ request'[q].at = "copy" /\ request'[q].answer = request[q].answer
            /\ request'[q].obj = tables[from][table] /\ tables[from][table] # NONE
      /\ \A p \in Requests : p # q => request'[p] = request[p]
  BY <1>0, MoveTakeRequest DEF After
<1>2. /\ map' = map /\ queue' = queue /\ rows' = rows /\ writeLock' = writeLock
      /\ repo' = repo /\ folder' = folder /\ pass' = pass /\ persistLock' = persistLock
      /\ restarts' = restarts /\ forgiven' = forgiven /\ doomed' = doomed
  BY DEF MoveTake, history
<1>3. /\ ~Moving(q) /\ ~AboutToInsert(q)' /\ ~Inserted(q)'
      /\ \A i \in Opened, t \in Tables : ~OwesRowsBy(q, i, t) /\ ~OwesEntryBy(q, i, t)
      /\ \A x \in Rows : ~Carries(q, x)
      /\ request[q].at \notin Opening /\ request[q].at \in Bearing
      /\ request'[q].at \notin Opening /\ request'[q].at # "prime"
      /\ request[q].at \notin {"prime", "wait", "tables"}
      /\ request'[q].at \notin {"prime", "wait", "tables"}
  BY <1>1 DEF Moving, AboutToInsert, Inserted, OwesRowsBy, OwesEntryBy, Carries, At, Opening,
              Bearing, Same
<1>4. CASE request'[q].at = "ended"
  <2>1. tables' = tables /\ request'[q].obj = request[q].obj
    BY <1>1, <1>4 DEF MoveTake
  <2>2. UNCHANGED <<memory, writeLock, repo, folder, pass, persistLock, restarts, history>>
    BY <1>2, <2>1 DEF memory, history
  <2>3. ~Moving(q)' /\ request'[q].at \notin Bearing
    BY <1>4 DEF Moving, At, Bearing, Opening
  <2> QED BY <1>1, <1>3, <2>1, <2>2, <2>3, QuietStep DEF Same
<1>5. CASE request'[q].at = "copy"
  <2>1. PICK o \in Objects : o = tables[from][table]
    BY <1>0, <1>1, <1>5 DEF Typed, TypeOK
  <2>2. /\ request'[q].obj = o /\ o # NONE
        /\ tables' = [tables EXCEPT ![from][table] = NONE]
    BY <1>1, <1>5, <2>1, Sets DEF MoveTake
  <2>3. tables \in [Opened -> [Tables -> Objects \cup {NONE}]] /\ rows \in [Objects -> SUBSET Rows]
    BY <1>0 DEF Typed, TypeOK
  <2>4. /\ tables' \in [Opened -> [Tables -> Objects \cup {NONE}]]
        /\ tables'[from][table] = NONE
        /\ \A i \in Opened : i # from => tables'[i] = tables[i]
        /\ \A i \in Opened, t \in Tables : (i = from /\ t = table) \/ tables'[i][t] = tables[i][t]
    BY <1>1, <2>2, <2>3
  <2>5. \A i \in Opened, t \in Tables : tables'[i][t] # o
    <3> SUFFICES ASSUME NEW i \in Opened, NEW t \in Tables, tables'[i][t] = o
                 PROVE  FALSE
      OBVIOUS
    <3>1. ~(i = from /\ t = table) /\ tables[i][t] = o
      <4>1. o # NONE
        BY <2>2
      <4> QED BY <2>4, <4>1
    <3>2. i = from /\ t = table
      <4>1. tables[i][t] # NONE /\ tables[from][table] = tables[i][t]
        BY <2>1, <2>2, <3>1
      <4> QED BY <1>0, <1>1, <4>1, OnePlace
    <3> QED BY <3>1, <3>2
  <2>6. Moving(q)'
    BY <1>5 DEF Moving
  <2>7. Typed'
    <3>1. RestTyped'
      BY <1>0, <1>2, <2>4, TypedParts DEF RestTyped
    <3> QED BY <1>1, <3>1, TypedNext DEF After
  <2>8. Locks'
    BY <1>0, <1>1, <1>2, <1>3 DEF Locks, At
  <2>9. Births'
    <3>1. \A p \in Requests : p # q /\ request[p].at \in Opening =>
            p \notin pass /\ request[q].source # p /\ request[q].ns # p
      BY <1>0 DEF Births, Unopened
    <3>2. \A p \in Requests : p # q /\ request[p].at \in Opening =>
            /\ p \notin pass' /\ request'[q].source # p /\ request'[q].ns # p
            /\ tables'[p] = tables[p]
      BY <1>1, <1>2, <2>4, <3>1, Sets DEF Same
    <3>3. \A p \in Requests : request[p].at \in Bearing => o # p
      <4>1. \A p \in Requests : request[p].at \in Bearing =>
              \A i \in Opened, t \in Tables : tables[i][t] # p
        BY <1>0 DEF Births, Unborn
      <4> QED BY <1>1, <2>1, <4>1
    <3>4. Unborn(q)
      BY <1>0, <1>3 DEF Births
    <3>5. Unborn(q)'
      <4>1. \A i \in Opened, t \in Tables : tables'[i][t] # q
        BY <2>4, <3>4, Sets DEF Unborn
      <4>2. o # q
        BY <1>3, <3>3
      <4>3. \A p \in Requests : request'[p].obj # q
        BY <1>1, <2>2, <3>4, <4>2 DEF Unborn
      <4> QED BY <1>2, <3>4, <4>1, <4>3 DEF Unborn
    <3> QED BY <1>0, <1>1, <1>2, <1>3, <2>2, <2>4, <3>2, <3>3, <3>5, BirthsStep DEF At
  <2>10. Homes'
    BY <1>0, <1>1, <1>2, <1>3, <2>4, HomesStep
  <2>11. Hands'
    <3>1. \A p \in Requests : Moving(p) => request[p].obj # NONE
      BY <1>0, MovingHolds, Sets
    <3>2. \A i \in Opened, t \in Tables : tables'[i][t] \in {tables[i][t], NONE}
      BY <2>4
    <3>3. \E i \in Opened, t \in Tables : tables[i][t] = o
      BY <1>1, <2>1
    <3> QED BY <1>0, <1>1, <1>3, <2>2, <2>5, <3>1, <3>2, <3>3, HandsStep
  <2>12. Going'
    BY <1>0, <1>1, <1>2, <1>3, GoingStep DEF Deletes, At
  <2>13. Priming'
    BY <1>0, <1>1, <1>2, <1>3, PrimingStep DEF At
  <2>14. Passing'
    BY <1>0, <1>1, <1>2, PassingStep DEF At
  <2>15. Gone'
    BY <1>0, <1>2 DEF Gone
  <2>16. Mirrored'
    <3> SUFFICES ASSUME NEW n \in Names, map[n] # NONE, map[n] \notin doomed
                 PROVE  Known(n)' /\ \A t \in Tables : RowsMirrored(n, t)' /\ EntryMirrored(n, t)'
      BY <1>2 DEF Mirrored
    <3>1. Known(n) /\ \A t \in Tables : RowsMirrored(n, t) /\ EntryMirrored(n, t)
      BY <1>0 DEF Mirrored
    <3>2. Known(n)'
      BY <1>2, <3>1 DEF Known, Slots
    <3>3. PICK i \in Opened : i = map[n]
      BY <1>0 DEF Typed, TypeOK
    <3>4. \A p \in Requests, t \in Tables :
           /\ OwesRowsBy(p, i, t) => OwesRowsBy(p, i, t)'
           /\ OwesEntryBy(p, i, t) => OwesEntryBy(p, i, t)'
      BY <1>1, <1>2, <1>3, OthersOwe
    <3>5. ASSUME NEW t \in Tables
          PROVE  RowsMirrored(n, t)' /\ EntryMirrored(n, t)'
      <4>1. CASE i = from /\ t = table
        <5>1. request'[q].source = i /\ request'[q].table = t
          BY <1>1, <4>1 DEF Same
        <5>2. OwesEntryBy(q, map[n], t)'
          BY <1>2, <2>6, <3>3, <5>1 DEF OwesEntryBy
        <5>3. EntryMirrored(n, t)'
          BY <5>2 DEF EntryMirrored
        <5>4. CASE rows[o] = {}
          <6>1. Content(i, t)' = Content(i, t)
            BY <1>2, <2>1, <2>2, <2>4, <4>1, <5>4 DEF Content
          <6>2. RowsMirrored(n, t)'
            BY <1>2, <3>1, <3>3, <3>4, <6>1, RowsKept
          <6> QED BY <5>3, <6>2
        <5>5. CASE rows[o] # {}
          <6>1. OwesRowsBy(q, map[n], t)'
            BY <1>2, <2>2, <2>6, <3>3, <5>1, <5>5 DEF OwesRowsBy
          <6> QED BY <5>3, <6>1 DEF RowsMirrored
        <5> QED BY <5>4, <5>5
      <4>2. CASE ~(i = from /\ t = table)
        <5>1. tables'[i][t] = tables[i][t] /\ Content(i, t)' = Content(i, t)
          BY <1>2, <2>4, <4>2 DEF Content
        <5> QED BY <1>2, <3>1, <3>3, <3>4, <5>1, RowsKept, EntryKept
      <4> QED BY <4>1, <4>2
    <3> QED BY <3>2, <3>5
  <2>17. Kept'
    <3>1. ASSUME NEW x \in Rows, Found(x)
          PROVE  Found(x)'
      <4>1. ASSUME NEW n \in Names, NEW t \in Tables, InTable(x, n, t)
            PROVE  InTable(x, n, t)' \/ Found(x)'
        <5>1. map[n] \in Opened
          BY <1>0, <4>1 DEF InTable, Typed, TypeOK
        <5>2. CASE map[n] = from /\ t = table
          <6>1. x \in rows[o]
            BY <2>1, <4>1, <5>2 DEF InTable
          <6>2. Carries(q, x)'
            BY <1>2, <1>5, <2>2, <6>1 DEF Carries, At
          <6> QED BY <6>2 DEF Found
        <5>3. CASE ~(map[n] = from /\ t = table)
          BY <1>2, <2>4, <4>1, <5>1, <5>3 DEF InTable
        <5> QED BY <5>2, <5>3
      <4>2. \A p \in Requests : Carries(p, x) => Carries(p, x)'
        BY <1>1, <1>2, <1>3 DEF Carries, At
      <4> QED BY <1>2, <3>1, <4>1, <4>2, FoundStep
    <3>2. \A p \in Requests : Inserted(p)' => Inserted(p)
      BY <1>1, <1>3 DEF Inserted, At
    <3> QED BY <1>0, <3>1, <3>2, KeptStep
  <2> QED BY <2>7, <2>8, <2>9, <2>10, <2>11, <2>12, <2>13, <2>14, <2>15, <2>16, <2>17 DEF IInv
<1> QED BY <1>1, <1>4, <1>5

LEMMA MovePublishStep ==
  ASSUME IInv, NEW q \in Requests, MovePublish(q)
  PROVE  IInv'
<1> DEFINE home == request[q].ns
           table == request[q].table
           copied == request[q].copied
<1>0. /\ Typed /\ Locks /\ Births /\ Homes /\ Hands /\ Going /\ Priming /\ Passing /\ Gone
      /\ Mirrored /\ Kept
  BY DEF IInv
<1>1. /\ After(q) /\ Same(q)
      /\ request[q].at = "publish" /\ request'[q].at = "mark"
      /\ copied \subseteq Rows /\ request[q].kind = "move"
      /\ home \in Opened /\ table \in Tables
      /\ request'[q].ns = request[q].ns /\ request'[q].obj = request[q].obj
      /\ request'[q].answer = request[q].answer /\ request'[q].then = "clean"
      /\ \E k \in 1..Len(request'[q].owes) : request'[q].owes[k] = Metadata(table)
      /\ copied # {} =>
           \E k \in 1..Len(request'[q].owes) : request'[q].owes[k] = Partition(table)
      /\ \A p \in Requests : p # q => request'[p] = request[p]
  BY <1>0, MovePublishRequest DEF After
<1>2. /\ map' = map /\ queue' = queue /\ writeLock' = writeLock
      /\ repo' = repo /\ folder' = folder /\ pass' = pass /\ persistLock' = persistLock
      /\ restarts' = restarts /\ doomed' = doomed
      /\ tables' = [tables EXCEPT ![home][table] = q]
      /\ rows' = [rows EXCEPT ![q] = copied]
      /\ forgiven' = forgiven \cup Overwritten(q)
                       \cup (IF map[request[q].name] = home THEN {} ELSE copied)
  BY DEF MovePublish
<1>3. /\ tables \in [Opened -> [Tables -> Objects \cup {NONE}]]
      /\ rows \in [Objects -> SUBSET Rows] /\ forgiven \subseteq Rows
      /\ q \in Objects /\ q # NONE
  BY <1>0, Sets DEF Typed, TypeOK
<1>4. /\ tables' \in [Opened -> [Tables -> Objects \cup {NONE}]]
      /\ tables'[home][table] = q
      /\ \A i \in Opened : i # home => tables'[i] = tables[i]
      /\ \A i \in Opened, t \in Tables : (i = home /\ t = table) \/ tables'[i][t] = tables[i][t]
  BY <1>1, <1>2, <1>3
<1>5. /\ rows' \in [Objects -> SUBSET Rows] /\ rows'[q] = copied
      /\ \A o \in Objects : o # q => rows'[o] = rows[o]
  BY <1>1, <1>2, <1>3
<1>6. forgiven' \subseteq Rows /\ forgiven \subseteq forgiven' /\ Overwritten(q) \subseteq forgiven'
  <2>1. Overwritten(q) \subseteq Rows
    BY <1>1, <1>3 DEF Overwritten, Held
  <2> QED BY <1>1, <1>2, <1>3, <2>1
<1>7. /\ Moving(q) /\ Moving(q)' /\ ~AboutToInsert(q)' /\ ~Inserted(q)'
      /\ request[q].at \notin Opening /\ request[q].at \in Bearing
      /\ request'[q].at \notin Opening /\ request'[q].at \notin Bearing
      /\ request'[q].at # "prime"
  BY <1>1 DEF Moving, AboutToInsert, Inserted, At, Opening, Bearing, Same
<1>8. /\ rows[q] = {} /\ \A i \in Opened, t \in Tables : tables[i][t] # q
      /\ \A p \in Requests : request[p].obj # q
  BY <1>0, <1>7 DEF Births, Unborn
<1>9. Typed'
  <2>1. RestTyped'
    BY <1>0, <1>2, <1>4, <1>5, <1>6, TypedParts DEF RestTyped
  <2> QED BY <1>1, <2>1, TypedNext DEF After
<1>10. Locks'
  BY <1>0, <1>1, <1>2, <1>7 DEF Locks, At
<1>11. Births'
  <2>1. \A p \in Requests : p # q /\ request[p].at \in Opening =>
          p \notin pass /\ request[q].source # p /\ request[q].ns # p
    BY <1>0 DEF Births, Unopened
  <2>2. \A p \in Requests : p # q /\ request[p].at \in Opening =>
          /\ p \notin pass' /\ request'[q].source # p /\ request'[q].ns # p
          /\ tables'[p] = tables[p]
    BY <1>1, <1>2, <1>4, <2>1, Sets DEF Same
  <2>3. \A p \in Requests : request[p].at \in Bearing => request[q].obj # p
    BY <1>0 DEF Births, Unborn
  <2>4. \A p \in Requests : p # q => rows'[p] = rows[p]
    BY <1>5, Sets
  <2> QED BY <1>0, <1>1, <1>2, <1>4, <1>7, <2>2, <2>3, <2>4, BirthsStep DEF At
<1>12. Homes'
  <2>1. \A i \in Opened, t \in Tables :
          \/ tables'[i][t] \in {tables[i][t], NONE}
          \/ tables'[i][t] = q /\ i = request'[q].ns /\ t = request'[q].table
    BY <1>1, <1>4 DEF Same
  <2> QED BY <1>0, <1>1, <1>2, <1>7, <2>1, HomesStep
<1>13. \A p \in Requests : Moving(p) => request[p].obj # NONE /\ request[p].obj \in Objects
  BY <1>0, MovingHolds, Sets
<1>14. Hands'
  BY <1>0, <1>1, <1>4, <1>7, <1>13, HandsStep
<1>15. Going'
  BY <1>0, <1>1, <1>2, GoingStep DEF Deletes, At
<1>16. Priming'
  BY <1>0, <1>1, <1>2, <1>7, PrimingStep DEF At
<1>17. Passing'
  BY <1>0, <1>1, <1>2, PassingStep DEF At
<1>18. Gone'
  BY <1>0, <1>2 DEF Gone
<1>19. \A p \in Requests : Moving(p) => rows'[request[p].obj] = rows[request[p].obj]
  BY <1>5, <1>8, <1>13
<1>20. \A p \in Requests, i \in Opened, t \in Tables :
        /\ OwesRowsBy(p, i, t) => OwesRowsBy(p, i, t)'
        /\ OwesEntryBy(p, i, t) => OwesEntryBy(p, i, t)'
  <2>1. \A p \in Requests, i \in Opened, t \in Tables : p # q =>
          /\ OwesRowsBy(p, i, t) => OwesRowsBy(p, i, t)'
          /\ OwesEntryBy(p, i, t) => OwesEntryBy(p, i, t)'
    BY <1>1, <1>19, OthersOwe
  <2>2. \A i \in Opened, t \in Tables :
          /\ OwesRowsBy(q, i, t) => OwesRowsBy(q, i, t)'
          /\ OwesEntryBy(q, i, t) => OwesEntryBy(q, i, t)'
    BY <1>1, <1>7, <1>19 DEF OwesRowsBy, OwesEntryBy, At, Same
  <2> QED BY <2>1, <2>2
<1>21. Mirrored'
  <2> SUFFICES ASSUME NEW n \in Names, map[n] # NONE, map[n] \notin doomed
               PROVE  Known(n)' /\ \A t \in Tables : RowsMirrored(n, t)' /\ EntryMirrored(n, t)'
    BY <1>2 DEF Mirrored
  <2>1. Known(n) /\ \A t \in Tables : RowsMirrored(n, t) /\ EntryMirrored(n, t)
    BY <1>0 DEF Mirrored
  <2>2. Known(n)'
    BY <1>2, <2>1 DEF Known, Slots
  <2>3. PICK i \in Opened : i = map[n]
    BY <1>0 DEF Typed, TypeOK
  <2>4. ASSUME NEW t \in Tables
        PROVE  RowsMirrored(n, t)' /\ EntryMirrored(n, t)'
    <3>1. CASE i = home /\ t = table
      <4>1. At(q, "mark")' /\ Marks(q)' = i
        BY <1>1, <3>1 DEF At, Marks, Same
      <4>2. OwesEntryBy(q, map[n], t)'
        BY <1>1, <1>2, <2>3, <3>1, <4>1 DEF OwesEntryBy, Metadata
      <4>3. EntryMirrored(n, t)'
        BY <4>2 DEF EntryMirrored
      <4>4. CASE copied # {}
        <5>1. OwesRowsBy(q, map[n], t)'
          BY <1>1, <1>2, <2>3, <3>1, <4>1, <4>4 DEF OwesRowsBy, Partition
        <5> QED BY <4>3, <5>1 DEF RowsMirrored
      <4>5. CASE copied = {}
        <5>1. Content(i, t)' = {}
          BY <1>3, <1>4, <1>5, <3>1, <4>5 DEF Content
        <5>2. CASE Content(i, t) # folder[n].slot[t]
          <6>1. \/ Partition(t) \in queue[i] \/ PublishedOver(n, t)
                \/ \E p \in Requests : OwesRowsBy(p, i, t)
            BY <2>1, <2>3, <5>2 DEF RowsMirrored, OwesRowsBy, Content
          <6>2. PublishedOver(n, t) => PublishedOver(n, t)'
            BY <1>2, <1>6 DEF PublishedOver
          <6>3. \A p \in Requests : OwesRowsBy(p, i, t) => OwesRowsBy(p, map[n], t)'
            BY <1>2, <1>20, <2>3 DEF OwesRowsBy
          <6>4. RowsMirrored(n, t)'
            BY <1>2, <2>3, <6>1, <6>2, <6>3 DEF RowsMirrored, Partition
          <6> QED BY <4>3, <6>4
        <5>3. CASE Content(i, t) = folder[n].slot[t]
          <6>1. Content(i, t) \subseteq Overwritten(q)
            BY <3>1 DEF Content, Overwritten, Held
          <6>2. folder'[n].slot[t] \subseteq forgiven'
            BY <1>2, <1>6, <5>3, <6>1
          <6>3. Content(map[n], t)' = Content(i, t)'
            BY <1>2, <2>3 DEF Content
          <6>4. RowsMirrored(n, t)'
            BY <5>1, <6>2, <6>3 DEF RowsMirrored, PublishedOver
          <6> QED BY <4>3, <6>4
        <5> QED BY <5>2, <5>3
      <4> QED BY <4>4, <4>5
    <3>2. CASE ~(i = home /\ t = table)
      <4>1. tables'[i][t] = tables[i][t] /\ tables[i][t] # q
            /\ tables[i][t] \in Objects \cup {NONE}
        BY <1>3, <1>4, <1>8, <3>2
      <4>2. Content(i, t)' = Content(i, t)
        BY <1>5, <4>1 DEF Content
      <4> QED BY <1>2, <1>6, <1>20, <2>1, <2>3, <4>1, <4>2, RowsKept, EntryKept
    <3> QED BY <3>1, <3>2
  <2> QED BY <2>2, <2>4
<1>22. Kept'
  <2>1. ASSUME NEW x \in Rows, Found(x)
        PROVE  Found(x)'
    <3>1. ASSUME NEW n \in Names, NEW t \in Tables, InTable(x, n, t)
          PROVE  InTable(x, n, t)' \/ Found(x)'
      <4>1. map[n] \in Opened /\ tables[map[n]][t] \in Objects
        BY <1>0, <3>1 DEF InTable, Typed, TypeOK
      <4>2. CASE map[n] = home /\ t = table
        <5>1. x \in forgiven'
          BY <1>6, <3>1, <4>2 DEF InTable, Overwritten, Held
        <5> QED BY <5>1 DEF Found
      <4>3. CASE ~(map[n] = home /\ t = table)
        <5>1. tables'[map[n]][t] = tables[map[n]][t]
          BY <1>4, <4>1, <4>3
        <5>2. rows'[tables[map[n]][t]] = rows[tables[map[n]][t]]
          BY <1>5, <1>8, <4>1
        <5> QED BY <1>2, <3>1, <5>1, <5>2 DEF InTable
      <4> QED BY <4>2, <4>3
    <3>2. ASSUME NEW p \in Requests, Carries(p, x)
          PROVE  Carries(p, x)' \/ Found(x)'
      <4>1. CASE p # q
        BY <1>1, <1>19, <3>2, <4>1 DEF Carries, At, Moving
      <4>2. CASE p = q
        <5>1. x \in copied /\ request[q].name \in Names
          BY <1>0, <1>1, <3>2, <4>2, RequestFacts DEF Carries, At, Placed, Working
        <5>2. CASE map[request[q].name] = home
          <6>1. home # NONE
            BY <1>1, Sets
          <6>2. InTable(x, request[q].name, table)'
            <7>1. PICK n \in Names : n = request[q].name
              BY <5>1
            <7>2. PICK t \in Tables : t = table
              BY <1>1
            <7>3. map'[n] = home /\ tables'[map'[n]][t] = q /\ x \in rows'[q]
              BY <1>2, <1>4, <1>5, <5>1, <5>2, <7>1, <7>2
            <7>4. InTable(x, n, t)'
              BY <1>3, <6>1, <7>3 DEF InTable
            <7> QED BY <1>1, <7>1, <7>2, <7>4 DEF InTable, Same
          <6>3. request'[q].name \in Names /\ request'[q].table \in Tables
            BY <1>1, <5>1 DEF Same
          <6> QED BY <6>2, <6>3 DEF Found
        <5>3. CASE map[request[q].name] # home
          BY <1>2, <5>1, <5>3 DEF Found
        <5> QED BY <5>2, <5>3
      <4> QED BY <4>1, <4>2
    <3> QED BY <1>6, <2>1, <3>1, <3>2, FoundStep
  <2>2. \A p \in Requests : Inserted(p)' => Inserted(p)
    BY <1>1, <1>7 DEF Inserted, At
  <2> QED BY <1>0, <2>1, <2>2, KeptStep
<1> QED BY <1>9, <1>10, <1>11, <1>12, <1>14, <1>15, <1>16, <1>17, <1>18, <1>21, <1>22 DEF IInv

LEMMA MoveCleanStep ==
  ASSUME IInv, NEW q \in Requests, MoveClean(q)
  PROVE  IInv'
<1> DEFINE from == request[q].source
           table == request[q].table
<1>0. /\ Typed /\ Locks /\ Births /\ Homes /\ Hands /\ Going /\ Priming /\ Passing /\ Gone
      /\ Mirrored /\ Kept
  BY DEF IInv
<1>1. /\ After(q) /\ Same(q)
      /\ request[q].at = "clean" /\ request'[q].at = "mark"
      /\ request[q].obj \in Objects /\ request[q].kind = "move"
      /\ request'[q].ns = request[q].ns /\ request'[q].obj = request[q].obj
      /\ request'[q].answer = request[q].answer /\ request'[q].then = "ended"
      /\ \E k \in 1..Len(request'[q].owes) : request'[q].owes[k] = Metadata(table)
      /\ rows[request[q].obj] # {} =>
           \E k \in 1..Len(request'[q].owes) : request'[q].owes[k] = Partition(table)
      /\ \A p \in Requests : p # q => request'[p] = request[p]
  BY <1>0, MoveCleanRequest DEF After
<1>2. PICK o \in Objects : o = request[q].obj
  BY <1>1
<1>3. /\ map' = map /\ tables' = tables /\ queue' = queue /\ writeLock' = writeLock
      /\ repo' = repo /\ folder' = folder /\ pass' = pass /\ persistLock' = persistLock
      /\ restarts' = restarts /\ forgiven' = forgiven /\ doomed' = doomed
      /\ rows' = [rows EXCEPT ![o] = {}]
  BY <1>2 DEF MoveClean, history
<1>4. rows \in [Objects -> SUBSET Rows]
  BY <1>0 DEF Typed, TypeOK
<1>5. /\ rows' \in [Objects -> SUBSET Rows]
      /\ \A p \in Objects : p # o => rows'[p] = rows[p]
  BY <1>3, <1>4
<1>6. /\ Moving(q) /\ ~Moving(q)' /\ ~AboutToInsert(q)' /\ ~Inserted(q)'
      /\ \A x \in Rows : ~Carries(q, x)
      /\ request[q].at \notin Opening /\ request[q].at \notin Bearing
      /\ request'[q].at \notin Opening /\ request'[q].at \notin Bearing
      /\ request'[q].at # "prime"
  BY <1>1 DEF Moving, AboutToInsert, Inserted, Carries, At, Opening, Bearing, Same
<1>7. /\ \A i \in Opened, t \in Tables : tables[i][t] # o
      /\ \A p \in Requests : p # q /\ Moving(p) => request[p].obj # o
  BY <1>0, <1>2, <1>6 DEF Hands
<1>8. Typed'
  <2>1. RestTyped'
    BY <1>0, <1>3, <1>5, TypedParts DEF RestTyped
  <2> QED BY <1>1, <2>1, TypedNext DEF After
<1>9. Locks'
  BY <1>0, <1>1, <1>3 DEF Locks, At
<1>10. Births'
  <2>1. \A p \in Requests : p # q /\ request[p].at \in Opening =>
          p \notin pass /\ request[q].source # p /\ request[q].ns # p
    BY <1>0 DEF Births, Unopened
  <2>2. \A p \in Requests : p # q /\ request[p].at \in Opening =>
          p \notin pass' /\ request'[q].source # p /\ request'[q].ns # p
    BY <1>1, <1>3, <2>1 DEF Same
  <2>3. \A p \in Requests : request[p].at \in Bearing => request[q].obj # p
    BY <1>0 DEF Births, Unborn
  <2>4. \A p \in Requests : request[p].at \in Bearing => rows'[p] = rows[p]
    BY <1>2, <1>5, <2>3, Sets
  <2> QED BY <1>0, <1>1, <1>3, <1>6, <2>2, <2>3, <2>4, BirthsStep DEF At
<1>11. Homes'
  BY <1>0, <1>1, <1>3, <1>6, HomesStep
<1>12. \A p \in Requests : Moving(p) => request[p].obj # NONE /\ request[p].obj \in Objects
  BY <1>0, MovingHolds, Sets
<1>13. Hands'
  BY <1>0, <1>1, <1>3, <1>6, <1>12, HandsStep
<1>14. Going'
  BY <1>0, <1>1, <1>3, GoingStep DEF Deletes, At
<1>15. Priming'
  BY <1>0, <1>1, <1>3, <1>6, PrimingStep DEF At
<1>16. Passing'
  BY <1>0, <1>1, <1>3, PassingStep DEF At
<1>17. Gone'
  BY <1>0, <1>3 DEF Gone
<1>18. \A p \in Requests : p # q /\ Moving(p) => rows'[request[p].obj] = rows[request[p].obj]
  BY <1>5, <1>7, <1>12
<1>19. \A p \in Requests, i \in Opened, t \in Tables :
        /\ OwesRowsBy(p, i, t) => OwesRowsBy(p, i, t)'
        /\ OwesEntryBy(p, i, t) => OwesEntryBy(p, i, t)'
  <2>1. \A p \in Requests, i \in Opened, t \in Tables : p # q =>
          /\ OwesRowsBy(p, i, t) => OwesRowsBy(p, i, t)'
          /\ OwesEntryBy(p, i, t) => OwesEntryBy(p, i, t)'
    BY <1>1, <1>18, OthersOwe
  <2>2. Marks(q)' = from /\ At(q, "mark")' /\ ~At(q, "mark")
    BY <1>1 DEF Marks, At, Same
  <2>3. \A i \in Opened, t \in Tables :
          /\ OwesRowsBy(q, i, t) => OwesRowsBy(q, i, t)'
          /\ OwesEntryBy(q, i, t) => OwesEntryBy(q, i, t)'
    BY <1>1, <2>2 DEF OwesRowsBy, OwesEntryBy, Partition, Metadata
  <2> QED BY <2>1, <2>3
<1>20. Mirrored'
  <2>1. \A n \in Names : map[n] # NONE => map[n] \in Opened
    BY <1>0 DEF Typed, TypeOK
  <2>2. ASSUME NEW n \in Names, NEW t \in Tables, map[n] # NONE
        PROVE  Content(map[n], t)' = Content(map[n], t)
    <3>1. tables[map[n]][t] \in Objects \cup {NONE} /\ tables[map[n]][t] # o
      BY <1>0, <1>7, <2>1, <2>2 DEF Typed, TypeOK
    <3> QED BY <1>3, <1>5, <3>1 DEF Content
  <2>3. \A n \in Names : map[n] # NONE => \A t \in Tables, p \in Requests :
           /\ OwesRowsBy(p, map[n], t) => OwesRowsBy(p, map[n], t)'
           /\ OwesEntryBy(p, map[n], t) => OwesEntryBy(p, map[n], t)'
    BY <1>3, <1>19, <2>1, OwesServed
  <2> QED BY <1>0, <1>3, <2>2, <2>3, MirroredStep
<1>21. Kept'
  <2>1. ASSUME NEW x \in Rows, Found(x)
        PROVE  Found(x)'
    <3>1. ASSUME NEW n \in Names, NEW t \in Tables, InTable(x, n, t)
          PROVE  InTable(x, n, t)'
      <4>1. tables[map[n]][t] \in Objects /\ tables[map[n]][t] # o
        BY <1>0, <1>7, <3>1 DEF InTable, Typed, TypeOK
      <4> QED BY <1>3, <1>5, <3>1, <4>1 DEF InTable
    <3>2. \A p \in Requests : Carries(p, x) => Carries(p, x)'
      BY <1>1, <1>6, <1>18 DEF Carries, At, Moving
    <3> QED BY <1>3, <2>1, <3>1, <3>2, FoundStep
  <2>2. \A p \in Requests : Inserted(p)' => Inserted(p)
    BY <1>1, <1>6 DEF Inserted, At
  <2> QED BY <1>0, <2>1, <2>2, KeptStep
<1> QED BY <1>8, <1>9, <1>10, <1>11, <1>13, <1>14, <1>15, <1>16, <1>17, <1>20, <1>21 DEF IInv

-----------------------------------------------------------------------------
(* The pass.                                                                 *)

LEMMA PersistFrame ==
  ASSUME IInv,
         UNCHANGED <<map, tables, rows, writeLock, request, restarts, history>>,
         RestTyped', Locks',
         \A p \in Requests : request[p].at \in Opening => queue'[p] = queue[p] /\ p \notin pass',
         \A i \in pass' : NameOf(i) \in Names,
         Priming', Passing', Gone', Mirrored'
  PROVE  IInv'
<1>0. /\ Typed /\ Locks /\ Births /\ Homes /\ Hands /\ Going /\ Priming /\ Passing /\ Gone
      /\ Mirrored /\ Kept
  BY DEF IInv
<1>1. /\ map' = map /\ tables' = tables /\ rows' = rows /\ request' = request
      /\ forgiven' = forgiven /\ doomed' = doomed
  BY DEF history
<1>2. Typed'
  BY <1>0, <1>1, TypedNext DEF Typed
<1>3. Births'
  <2> SUFFICES ASSUME NEW p \in Requests
               PROVE  /\ request[p].at \in Opening => Unopened(p)'
                      /\ request[p].at \in Bearing => Unborn(p)'
                      /\ request[p].at = "prime" => request[p].ns = p
    BY <1>1 DEF Births, At
  <2>1. request[p].at \in Opening => Unopened(p)'
    <3>1. request[p].at \in Opening => Unopened(p)
      BY <1>0 DEF Births
    <3> QED BY <1>1, <3>1 DEF Unopened, NoTables
  <2>2. request[p].at \in Bearing => Unborn(p)'
    <3>1. request[p].at \in Bearing => Unborn(p)
      BY <1>0 DEF Births
    <3> QED BY <1>1, <3>1 DEF Unborn
  <2> QED BY <1>0, <2>1, <2>2 DEF Births, At
<1>4. Homes'
  BY <1>0, <1>1 DEF Homes, NameOf, InHome, AboutToInsert, At
<1>5. Hands'
  BY <1>0, <1>1 DEF Hands, Moving, At
<1>6. Going'
  BY <1>0, <1>1 DEF Going, Deletes, At
<1>7. Kept'
  <2>1. \A x \in Rows : Found(x) => Found(x)'
    BY <1>1 DEF Found, InTable, Carries, At
  <2>2. \A q \in Requests : Inserted(q)' => Inserted(q)
    BY <1>1 DEF Inserted, At
  <2> QED BY <1>0, <2>1, <2>2, KeptStep
<1> QED BY <1>2, <1>3, <1>4, <1>5, <1>6, <1>7 DEF IInv

(* What they owe stays owed.                                                 *)
LEMMA PersistOwes ==
  ASSUME rows' = rows, request' = request, NEW p \in Requests, NEW i, NEW t
  PROVE  /\ OwesRowsBy(p, i, t) => OwesRowsBy(p, i, t)'
         /\ OwesEntryBy(p, i, t) => OwesEntryBy(p, i, t)'
BY DEF OwesRowsBy, OwesEntryBy, At, Moving, Marks, Partition, Metadata

(* The pass itself, while it only takes or drops its snapshot.               *)
LEMMA PassOnlyStep ==
  ASSUME IInv, UNCHANGED <<memory, writeLock, repo, folder, request, restarts, history>>,
         pass' \subseteq Opened, persistLock' \in {"pass", NONE},
         pass' # {} => persistLock' = "pass",
         \A q \in Requests : persistLock # q,
         \A i \in pass' : i \in pass \/ \E n \in Names : map[n] = i
  PROVE  IInv'
<1>0. Typed /\ Locks /\ Births /\ Homes /\ Priming /\ Passing /\ Gone /\ Mirrored
  BY DEF IInv
<1>1. /\ map' = map /\ tables' = tables /\ rows' = rows /\ queue' = queue /\ request' = request
      /\ writeLock' = writeLock /\ repo' = repo /\ folder' = folder /\ restarts' = restarts
      /\ forgiven' = forgiven /\ doomed' = doomed
  BY DEF memory, history
<1>2. RestTyped'
  BY <1>0, <1>1, TypedParts DEF RestTyped
<1>3. Locks'
  BY <1>0, <1>1, Sets DEF Locks, At
<1>4. \A p \in Requests : request[p].at \in Opening => p \notin pass'
  BY <1>0 DEF Births, Unopened
<1>5. \A i \in pass' : i # NONE
  BY Sets
<1>6. \A i \in pass' : NameOf(i) \in Names
  BY <1>0, <1>5 DEF Homes
<1>7. Priming'
  BY <1>0, <1>1 DEF Priming, At, LoadedTables, Slots
<1>8. Passing'
  <2>1. ASSUME NEW i \in pass', NEW n \in Names, map[n] = i
        PROVE  /\ folder[NameOf(i)].exists \/ i \in doomed
               /\ map[NameOf(i)] = i
    <3>1. map[n] # NONE /\ NameOf(map[n]) = n
      BY <1>0, <1>5, <2>1 DEF Homes
    <3>2. NameOf(i) = n
      BY <2>1, <3>1 DEF NameOf
    <3>3. folder[n].exists \/ i \in doomed
      BY <1>0, <2>1, <3>1 DEF Mirrored, Known
    <3> QED BY <2>1, <3>2, <3>3
  <2> QED BY <1>0, <1>1, <2>1 DEF Passing, NameOf, At
<1>9. Gone'
  BY <1>0, <1>1 DEF Gone
<1>10. Mirrored'
  BY <1>0, <1>1 DEF Mirrored, Known, Slots, RowsMirrored, EntryMirrored, Content, OwesRowsBy,
                   OwesEntryBy, PublishedOver, RestoredWithoutEntry, At, Moving, Marks
<1> QED BY <1>1, <1>2, <1>3, <1>4, <1>6, <1>7, <1>8, <1>9, <1>10, PersistFrame DEF history

LEMMA TakeLockStep ==
  ASSUME IInv, TakeLock
  PROVE  IInv'
<1>1. UNCHANGED <<memory, writeLock, repo, folder, request, restarts, history>>
  BY DEF TakeLock
<1>2. persistLock' = "pass" /\ persistLock = NONE
  BY DEF TakeLock
<1>3. /\ \A i \in pass' : \E n \in Names : map[n] = i
      /\ pass' \subseteq Opened
  BY DEF TakeLock, IInv, Typed, TypeOK
<1> QED BY <1>1, <1>2, <1>3, Sets, PassOnlyStep

LEMMA EndPassStep ==
  ASSUME IInv, EndPass
  PROVE  IInv'
<1>1. UNCHANGED <<memory, writeLock, repo, folder, request, restarts, history>>
  BY DEF EndPass
<1>2. persistLock' = NONE /\ persistLock = "pass" /\ pass' = {}
  BY DEF EndPass
<1> QED BY <1>1, <1>2, Sets, PassOnlyStep

(* What one task does to a folder and to what its repository knows of it.    *)
Repos == [Opened -> [index : SUBSET Tables, meta : SUBSET Tables]]
Folders == [Names -> [exists : BOOLEAN, meta : SUBSET Tables, slot : [Tables -> SUBSET Rows]]]

OnlyOf(i, n) ==
  /\ repo' \in Repos /\ folder' \in Folders
  /\ \A j \in Opened : j # i => repo'[j] = repo[j]
  /\ \A m \in Names : m # n => folder'[m] = folder[m]
  /\ folder'[n].exists = folder[n].exists

LEMMA MetadataDone ==
  ASSUME Typed, NEW i \in Opened, NEW n \in Names, NameOf(i) = n, NEW t \in Tables,
         ExecuteMetadata(i, t)
  PROVE  /\ OnlyOf(i, n)
         /\ repo'[i].index = repo[i].index /\ folder'[n].slot = folder[n].slot
         /\ tables[i][t] = NONE /\ t \notin repo[i].meta => folder' = folder
         /\ repo[i].meta = folder[n].meta =>
              /\ repo'[i].meta = folder'[n].meta
              /\ t \in folder'[n].meta <=> tables[i][t] # NONE
              /\ \A u \in Tables : u # t => (u \in folder'[n].meta <=> u \in folder[n].meta)
<1>1. repo \in Repos /\ folder \in Folders
  BY DEF Typed, TypeOK, Repos, Folders
<1>2. ASSUME NEW entries, entries \subseteq Tables, WritesMeta(i, entries)
      PROVE  /\ OnlyOf(i, n)
             /\ repo'[i].index = repo[i].index /\ folder'[n].slot = folder[n].slot
             /\ repo'[i].meta = entries /\ folder'[n].meta = entries
  <2>1. /\ repo' = [repo EXCEPT ![i].meta = entries]
        /\ folder' = [folder EXCEPT ![n].meta = entries]
    BY <1>2 DEF WritesMeta
  <2>2. /\ repo' \in Repos /\ repo'[i].index = repo[i].index /\ repo'[i].meta = entries
        /\ \A j \in Opened : j # i => repo'[j] = repo[j]
    BY <1>1, <1>2, <2>1 DEF Repos
  <2>3. /\ folder' \in Folders /\ folder'[n].slot = folder[n].slot /\ folder'[n].meta = entries
        /\ folder'[n].exists = folder[n].exists
        /\ \A m \in Names : m # n => folder'[m] = folder[m]
    BY <1>1, <1>2, <2>1 DEF Folders
  <2> QED BY <2>2, <2>3 DEF OnlyOf
<1>3. repo[i].meta \subseteq Tables
  BY <1>1 DEF Repos
<1>4. CASE tables[i][t] # NONE
  <2>1. WritesMeta(i, repo[i].meta \cup {t}) /\ repo[i].meta \cup {t} \subseteq Tables
    BY <1>3, <1>4 DEF ExecuteMetadata
  <2> QED BY <1>2, <1>4, <2>1
<1>5. CASE tables[i][t] = NONE /\ t \in repo[i].meta
  <2>1. WritesMeta(i, repo[i].meta \ {t}) /\ repo[i].meta \ {t} \subseteq Tables
    BY <1>3, <1>5 DEF ExecuteMetadata
  <2> QED BY <1>2, <1>5, <2>1
<1>6. CASE tables[i][t] = NONE /\ t \notin repo[i].meta
  <2>1. repo' = repo /\ folder' = folder
    BY <1>6 DEF ExecuteMetadata
  <2> QED BY <1>1, <1>6, <2>1 DEF OnlyOf
<1> QED BY <1>4, <1>5, <1>6

LEMMA PartitionDone ==
  ASSUME Typed, NEW i \in Opened, NEW n \in Names, NameOf(i) = n, NEW t \in Tables,
         ExecutePartition(i, t)
  PROVE  /\ OnlyOf(i, n)
         /\ repo'[i].meta = repo[i].meta /\ folder'[n].meta = folder[n].meta
         /\ tables[i][t] = NONE /\ t \notin repo[i].index => folder' = folder
         /\ Slots(n) \subseteq repo[i].index =>
              /\ Slots(n)' \subseteq repo'[i].index
              /\ folder'[n].slot[t] = Content(i, t)
              /\ \A u \in Tables : u # t => folder'[n].slot[u] = folder[n].slot[u]
<1>1. repo \in Repos /\ folder \in Folders /\ Content(i, t) \subseteq Rows
  BY DEF Typed, TypeOK, Repos, Folders, Content
<1>2. ASSUME NEW known, known \subseteq Tables, repo' = [repo EXCEPT ![i].index = known]
      PROVE  /\ repo' \in Repos /\ repo'[i].meta = repo[i].meta /\ repo'[i].index = known
             /\ \A j \in Opened : j # i => repo'[j] = repo[j]
  BY <1>1, <1>2 DEF Repos
<1>3. ASSUME NEW content, content \subseteq Rows, folder' = [folder EXCEPT ![n].slot[t] = content]
      PROVE  /\ folder' \in Folders /\ folder'[n].meta = folder[n].meta
             /\ folder'[n].slot[t] = content
             /\ \A u \in Tables : u # t => folder'[n].slot[u] = folder[n].slot[u]
             /\ folder'[n].exists = folder[n].exists
             /\ \A m \in Names : m # n => folder'[m] = folder[m]
  BY <1>1, <1>3 DEF Folders
<1>4. repo[i].index \subseteq Tables
  BY <1>1 DEF Repos
<1>5. CASE Content(i, t) = {}
  <2>1. repo' = [repo EXCEPT ![i].index = repo[i].index \ {t}]
    BY <1>5 DEF ExecutePartition
  <2>2. /\ repo' \in Repos /\ repo'[i].meta = repo[i].meta
        /\ repo'[i].index = repo[i].index \ {t}
        /\ \A j \in Opened : j # i => repo'[j] = repo[j]
    BY <1>2, <1>4, <2>1
  <2>3. CASE t \in repo[i].index
    <3>1. folder' = [folder EXCEPT ![n].slot[t] = Content(i, t)]
      BY <1>5, <2>3 DEF ExecutePartition
    <3>2. /\ folder' \in Folders /\ folder'[n].meta = folder[n].meta
          /\ folder'[n].slot[t] = Content(i, t)
          /\ \A u \in Tables : u # t => folder'[n].slot[u] = folder[n].slot[u]
          /\ folder'[n].exists = folder[n].exists
          /\ \A m \in Names : m # n => folder'[m] = folder[m]
      BY <1>1, <1>3, <3>1
    <3> QED BY <1>5, <2>2, <2>3, <3>2 DEF OnlyOf, Slots
  <2>4. CASE t \notin repo[i].index
    <3>1. folder' = folder
      BY <1>5, <2>4 DEF ExecutePartition
    <3> QED BY <1>1, <1>5, <2>2, <2>4, <3>1 DEF OnlyOf, Slots
  <2> QED BY <2>3, <2>4
<1>6. CASE Content(i, t) # {}
  <2>1. /\ repo' = [repo EXCEPT ![i].index = repo[i].index \cup {t}]
        /\ repo[i].index \cup {t} \subseteq Tables /\ tables[i][t] # NONE
    BY <1>4, <1>6 DEF ExecutePartition, Content
  <2>2. /\ repo' \in Repos /\ repo'[i].meta = repo[i].meta
        /\ repo'[i].index = repo[i].index \cup {t}
        /\ \A j \in Opened : j # i => repo'[j] = repo[j]
    BY <1>2, <2>1
  <2>3. CASE folder' = [folder EXCEPT ![n].slot[t] = Content(i, t)]
    <3>1. /\ folder' \in Folders /\ folder'[n].meta = folder[n].meta
          /\ folder'[n].slot[t] = Content(i, t)
          /\ \A u \in Tables : u # t => folder'[n].slot[u] = folder[n].slot[u]
          /\ folder'[n].exists = folder[n].exists
          /\ \A m \in Names : m # n => folder'[m] = folder[m]
      BY <1>1, <1>3, <2>3
    <3> QED BY <2>1, <2>2, <3>1 DEF OnlyOf, Slots
  <2>4. CASE t \notin repo[i].index /\ folder[n].slot[t] # {} /\ folder' = folder
    <3>1. ~(Slots(n) \subseteq repo[i].index)
      BY <2>4 DEF Slots
    <3> QED BY <1>1, <2>1, <2>2, <2>4, <3>1 DEF OnlyOf
  <2> QED BY <1>6, <2>3, <2>4 DEF ExecutePartition
<1> QED BY <1>5, <1>6

LEMMA VisitStep ==
  ASSUME IInv, NEW i \in Opened, Visit(i)
  PROVE  IInv'
<1>0. /\ Typed /\ Locks /\ Births /\ Homes /\ Going /\ Priming /\ Passing /\ Gone /\ Mirrored
  BY DEF IInv
<1>1. /\ UNCHANGED <<map, tables, rows, writeLock, request, restarts, history>>
      /\ map' = map /\ tables' = tables /\ rows' = rows /\ request' = request
      /\ writeLock' = writeLock /\ restarts' = restarts /\ doomed' = doomed
      /\ forgiven' = forgiven
      /\ persistLock = "pass" /\ i \in pass
  BY DEF Visit, history
<1>2. PICK n \in Names : n = NameOf(i)
  BY <1>0, <1>1 DEF Homes
<1>3. queue \in [Opened -> SUBSET Task] /\ repo \in Repos /\ folder \in Folders /\ pass \subseteq Opened
  BY <1>0 DEF Typed, TypeOK, Repos, Folders
<1>4. pass' \subseteq pass /\ persistLock' \in {"pass", NONE} /\ (pass' # {} => persistLock' = "pass")
  BY <1>1 DEF Visit
<1>5. \A q \in Requests : ~At(q, "tables")
  BY <1>0, <1>1, Sets DEF Locks
<1>6. Locks'
  BY <1>0, <1>1, <1>4, <1>5, Sets DEF Locks, At
<1>7. \A p \in Requests : request[p].at \in Opening => p \notin pass
  BY <1>0 DEF Births, Unopened
<1>8. \A j \in pass' : NameOf(j) \in Names
  BY <1>0, <1>4 DEF Homes
(* Whoever is served under the name, if it is not i, is doomed.              *)
<1>9. map[n] # i => /\ map[n] \in doomed \cup {NONE}
                    /\ \A p \in Requests : At(p, "prime") /\ request[p].name = n => p \in doomed
  <2> SUFFICES ASSUME map[n] # i
               PROVE  /\ map[n] \in doomed \cup {NONE}
                      /\ \A p \in Requests :
                           At(p, "prime") /\ request[p].name = n => p \in doomed
    OBVIOUS
  <2>1. PICK d \in Requests : At(d, "wait") /\ request[d].name = n
    BY <1>0, <1>1, <1>2 DEF Passing
  <2> QED BY <1>0, <2>1 DEF Going, Deletes, At
<1>10. \A m \in Names : map[m] = i => m = n
  BY <1>0, <1>2, Sets DEF Homes
(* A pass that leaves the folders as they are, or touches that of n only.    *)
<1>11. ASSUME OnlyOf(i, n), ~folder[n].exists => folder' = folder,
              queue' \in [Opened -> SUBSET Task], \A j \in Opened : j # i => queue'[j] = queue[j],
              map[n] = i /\ i \notin doomed =>
                Known(n)' /\ \A t \in Tables : RowsMirrored(n, t)' /\ EntryMirrored(n, t)'
       PROVE  IInv'
  <2>1. /\ repo' \in Repos /\ folder' \in Folders
        /\ \A j \in Opened : j # i => repo'[j] = repo[j]
        /\ \A m \in Names : m # n => folder'[m] = folder[m]
        /\ folder'[n].exists = folder[n].exists
    BY <1>11 DEF OnlyOf
  <2>2. RestTyped'
    <3>1. RestTyped
      BY <1>0, TypedParts
    <3> QED BY <1>1, <1>3, <1>4, <1>11, <2>1, <3>1 DEF RestTyped, Repos, Folders
  <2>3. \A p \in Requests : request[p].at \in Opening => queue'[p] = queue[p] /\ p \notin pass'
    BY <1>1, <1>4, <1>7, <1>11, Sets
  <2>4. Priming'
    <3> SUFFICES ASSUME NEW p \in Requests, At(p, "prime")
                 PROVE  /\ map[request[p].name] = NONE
                        /\ p \notin doomed =>
                             LoadedTables(request[p].name)' = {} /\ repo'[p].meta = {}
      BY <1>1 DEF Priming, At
    <3>1. request[p].name \in Names /\ p \in Opened /\ p # i
      BY <1>0, <1>1, <1>7, RequestFacts, Sets DEF At, Placed, Opening
    <3>2. map[request[p].name] = NONE
      BY <1>0 DEF Priming
    <3>3. p \notin doomed => request[p].name # n
      BY <1>9, <3>2, Sets
    <3>4. p \notin doomed => folder'[request[p].name] = folder[request[p].name]
      BY <2>1, <3>1, <3>3
    <3>5. p \notin doomed => LoadedTables(request[p].name)' = LoadedTables(request[p].name)
      BY <1>1, <3>4 DEF LoadedTables, Slots
    <3> QED BY <1>0, <2>1, <3>1, <3>2, <3>5 DEF Priming
  <2>5. Passing'
    <3> SUFFICES ASSUME NEW j \in pass'
                 PROVE  /\ folder'[NameOf(j)].exists \/ j \in doomed
                        /\ map[NameOf(j)] # j =>
                             \E d \in Requests : At(d, "wait") /\ request[d].name = NameOf(j)
      BY <1>1 DEF Passing, NameOf, At
    <3>1. folder'[NameOf(j)].exists = folder[NameOf(j)].exists
      BY <1>8, <2>1
    <3> QED BY <1>0, <1>4, <3>1 DEF Passing
  <2>6. Gone'
    BY <1>0, <1>11, <2>1 DEF Gone
  <2>7. Mirrored'
    <3> SUFFICES ASSUME NEW m \in Names, map[m] # NONE, map[m] \notin doomed
                 PROVE  Known(m)' /\ \A t \in Tables : RowsMirrored(m, t)' /\ EntryMirrored(m, t)'
      BY <1>1 DEF Mirrored
    <3>1. CASE map[m] = i
      <4>1. m = n
        BY <1>10, <3>1
      <4> QED BY <1>11, <3>1, <4>1
    <3>2. CASE map[m] # i
      <4>1. m # n
        BY <1>9, <3>2
      <4>2. map[m] \in Opened
        BY <1>0 DEF Typed, TypeOK
      <4>3. folder'[m] = folder[m] /\ repo'[map[m]] = repo[map[m]] /\ queue'[map[m]] = queue[map[m]]
        BY <1>11, <2>1, <3>2, <4>1, <4>2
      <4>4. \A t \in Tables : Content(map[m], t)' = Content(map[m], t)
        BY <1>1 DEF Content
      <4>5. \A p \in Requests, j \in Opened, t \in Tables :
               /\ OwesRowsBy(p, j, t) => OwesRowsBy(p, j, t)'
               /\ OwesEntryBy(p, j, t) => OwesEntryBy(p, j, t)'
        BY <1>1, PersistOwes
      <4>6. \A t \in Tables, p \in Requests :
               /\ OwesRowsBy(p, map[m], t) => OwesRowsBy(p, map[m], t)'
               /\ OwesEntryBy(p, map[m], t) => OwesEntryBy(p, map[m], t)'
        BY <1>1, <4>2, <4>5, OwesServed
      <4> QED BY <1>0, <1>1, <4>3, <4>4, <4>6, MirroredAt
    <3> QED BY <3>1, <3>2
  <2> QED BY <1>1, <1>6, <1>8, <2>2, <2>3, <2>4, <2>5, <2>6, <2>7, PersistFrame
<1>12. \A p \in Requests, t \in Tables :
         /\ OwesRowsBy(p, i, t) => OwesRowsBy(p, i, t)'
         /\ OwesEntryBy(p, i, t) => OwesEntryBy(p, i, t)'
  BY <1>1, PersistOwes
<1>13. \A t \in Tables : Content(i, t)' = Content(i, t)
  BY <1>1 DEF Content
<1>14. map[n] = i /\ i \notin doomed =>
         Known(n) /\ \A t \in Tables : RowsMirrored(n, t) /\ EntryMirrored(n, t)
  BY <1>0, Sets DEF Mirrored
<1>15. CASE queue[i] = {}
  <2>1. queue' = queue /\ repo' = repo /\ folder' = folder
    BY <1>15 DEF Visit
  <2>2. OnlyOf(i, n)
    BY <1>3, <2>1 DEF OnlyOf
  <2>3. ASSUME map[n] = i, i \notin doomed
        PROVE  Known(n)' /\ \A t \in Tables : RowsMirrored(n, t)' /\ EntryMirrored(n, t)'
    <3>1. Known(n)'
      BY <1>1, <1>14, <2>1, <2>3 DEF Known, Slots
    <3> QED BY <1>1, <1>12, <1>13, <1>14, <2>1, <2>3, <3>1, RowsKept, EntryKept
  <2> QED BY <1>3, <1>11, <2>1, <2>2, <2>3
<1>16. CASE queue[i] # {}
  <2>1. PICK task \in HandedOut(i) :
          /\ queue' = [queue EXCEPT ![i] = @ \ {task}]
          /\ IF NeedsFolder(i, task) /\ ~folder[NameOf(i)].exists
             THEN /\ pass' = {} /\ persistLock' = NONE
                  /\ UNCHANGED <<repo, folder>>
             ELSE /\ pass' = pass \ {i} /\ UNCHANGED persistLock
                  /\ IF task.of = "metadata" THEN ExecuteMetadata(i, task.table)
                                             ELSE ExecutePartition(i, task.table)
    BY <1>16 DEF Visit
  <2>2. task \in Task
    BY <1>3, <2>1 DEF HandedOut
  <2>3. PICK t \in Tables : task = Metadata(t) \/ task = Partition(t)
    BY <2>2 DEF Task
  <2>4. /\ Metadata(t).of = "metadata" /\ Metadata(t).table = t
        /\ Partition(t).of = "partition" /\ Partition(t).table = t
        /\ \A u \in Tables : /\ u # t => Metadata(u) # Metadata(t) /\ Partition(u) # Partition(t)
                             /\ Metadata(u) # Partition(t) /\ Partition(u) # Metadata(t)
    BY DEF Metadata, Partition
  <2>5. /\ queue' \in [Opened -> SUBSET Task] /\ queue'[i] = queue[i] \ {task}
        /\ \A j \in Opened : j # i => queue'[j] = queue[j]
    BY <1>3, <2>1
  <2>6. CASE NeedsFolder(i, task) /\ ~folder[n].exists
    <3>1. repo' = repo /\ folder' = folder
      BY <1>2, <2>1, <2>6
    <3>2. OnlyOf(i, n)
      BY <1>3, <3>1 DEF OnlyOf
    <3>3. ~(map[n] = i /\ i \notin doomed)
      BY <1>14, <2>6 DEF Known
    <3> QED BY <1>11, <2>5, <3>1, <3>2, <3>3
  <2>7. CASE ~(NeedsFolder(i, task) /\ ~folder[n].exists) /\ task = Metadata(t)
    <3>1. ExecuteMetadata(i, t)
      BY <1>2, <2>1, <2>4, <2>7
    <3>2. /\ OnlyOf(i, n)
          /\ repo'[i].index = repo[i].index /\ folder'[n].slot = folder[n].slot
          /\ tables[i][t] = NONE /\ t \notin repo[i].meta => folder' = folder
          /\ repo[i].meta = folder[n].meta =>
               /\ repo'[i].meta = folder'[n].meta
               /\ t \in folder'[n].meta <=> tables[i][t] # NONE
               /\ \A u \in Tables : u # t => (u \in folder'[n].meta <=> u \in folder[n].meta)
      BY <1>0, <1>2, <3>1, MetadataDone
    <3>3. ~folder[n].exists => folder' = folder
      BY <2>4, <2>7, <3>2 DEF NeedsFolder
    <3>4. ASSUME map[n] = i, i \notin doomed
          PROVE  Known(n)' /\ \A u \in Tables : RowsMirrored(n, u)' /\ EntryMirrored(n, u)'
      <4>1. repo[i].meta = folder[n].meta /\ folder[n].exists /\ Slots(n) \subseteq repo[i].index
        BY <1>14, <3>4 DEF Known
      <4>2. Known(n)'
        BY <1>1, <3>2, <3>4, <4>1 DEF Known, Slots, OnlyOf
      <4>3. ASSUME NEW u \in Tables
            PROVE  RowsMirrored(n, u)' /\ EntryMirrored(n, u)'
        <5>1. RowsMirrored(n, u)'
          <6>1. Partition(u) \in queue[i] => Partition(u) \in queue'[i]
            BY <2>4, <2>5, <2>7
          <6>2. folder'[n].slot[u] = folder[n].slot[u]
            BY <3>2
          <6> QED BY <1>1, <1>12, <1>13, <1>14, <3>4, <6>1, <6>2, RowsKept
        <5>2. CASE u = t
          BY <1>1, <3>2, <3>4, <4>1, <5>1, <5>2 DEF EntryMirrored
        <5>3. CASE u # t
          <6>1. Metadata(u) \in queue[i] => Metadata(u) \in queue'[i]
            BY <2>4, <2>5, <2>7, <5>3
          <6>2. u \in folder'[n].meta <=> u \in folder[n].meta
            BY <3>2, <4>1, <5>3
          <6> QED BY <1>1, <1>12, <1>14, <3>4, <5>1, <6>1, <6>2, EntryKept
        <5> QED BY <5>1, <5>2, <5>3
      <4> QED BY <4>2, <4>3
    <3> QED BY <1>11, <2>5, <3>2, <3>3, <3>4
  <2>8. CASE ~(NeedsFolder(i, task) /\ ~folder[n].exists) /\ task = Partition(t)
    <3>1. ExecutePartition(i, t)
      BY <1>2, <2>1, <2>4, <2>8
    <3>2. /\ OnlyOf(i, n)
          /\ repo'[i].meta = repo[i].meta /\ folder'[n].meta = folder[n].meta
          /\ tables[i][t] = NONE /\ t \notin repo[i].index => folder' = folder
          /\ Slots(n) \subseteq repo[i].index =>
               /\ Slots(n)' \subseteq repo'[i].index
               /\ folder'[n].slot[t] = Content(i, t)
               /\ \A u \in Tables : u # t => folder'[n].slot[u] = folder[n].slot[u]
      BY <1>0, <1>2, <3>1, PartitionDone
    <3>3. ~folder[n].exists => folder' = folder
      BY <2>4, <2>8, <3>2 DEF NeedsFolder
    <3>4. ASSUME map[n] = i, i \notin doomed
          PROVE  Known(n)' /\ \A u \in Tables : RowsMirrored(n, u)' /\ EntryMirrored(n, u)'
      <4>1. repo[i].meta = folder[n].meta /\ folder[n].exists /\ Slots(n) \subseteq repo[i].index
        BY <1>14, <3>4 DEF Known
      <4>2. Known(n)'
        BY <1>1, <3>2, <3>4, <4>1 DEF Known, OnlyOf
      <4>3. ASSUME NEW u \in Tables
            PROVE  RowsMirrored(n, u)' /\ EntryMirrored(n, u)'
        <5>1. EntryMirrored(n, u)'
          <6>1. Metadata(u) \in queue[i] => Metadata(u) \in queue'[i]
            BY <2>4, <2>5, <2>8
          <6>2. u \in folder'[n].meta <=> u \in folder[n].meta
            BY <3>2
          <6> QED BY <1>1, <1>12, <1>14, <3>4, <6>1, <6>2, EntryKept
        <5>2. CASE u = t
          <6>1. Content(map[n], u)' = folder'[n].slot[u]
            BY <1>1, <3>2, <3>4, <4>1, <5>2 DEF Content
          <6> QED BY <5>1, <6>1 DEF RowsMirrored
        <5>3. CASE u # t
          <6>1. Partition(u) \in queue[i] => Partition(u) \in queue'[i]
            BY <2>4, <2>5, <2>8, <5>3
          <6>2. folder'[n].slot[u] = folder[n].slot[u]
            BY <3>2, <4>1, <5>3
          <6> QED BY <1>1, <1>12, <1>13, <1>14, <3>4, <5>1, <6>1, <6>2, RowsKept
        <5> QED BY <5>1, <5>2, <5>3
      <4> QED BY <4>2, <4>3
    <3> QED BY <1>11, <2>5, <3>2, <3>3, <3>4
  <2> QED BY <2>3, <2>6, <2>7, <2>8
<1> QED BY <1>15, <1>16

-----------------------------------------------------------------------------
(* The two starts: every folder is opened and loaded.                        *)

Reached == OnDisk \cup forgiven

Started ==
  /\ DEFAULT \in Names
  /\ map = [n \in Names |-> IF folder[n].exists THEN n ELSE NONE]
  /\ tables = [i \in Opened |-> IF i \in Names
       THEN [t \in Tables |-> IF t \in LoadedTables(i) THEN Loaded(i, t) ELSE NONE]
       ELSE NoTables]
  /\ rows = [o \in Objects |-> IF o \in Requests THEN {} ELSE folder[o[1]].slot[o[2]]]
  /\ repo = [i \in Opened |-> IF i \in Names
       THEN [index |-> Slots(i), meta |-> folder[i].meta] ELSE NewRepo]
  /\ queue = [i \in Opened |-> {}]
  /\ folder \in Folders /\ Gone
  /\ \A n \in Names : \A t \in Slots(n) : t \in folder[n].meta \/ restarts > 0
  /\ request \in [Requests -> GoodRequest]
  /\ \A q \in Requests : request[q].at \in {"idle", "ended"}
  /\ \A q, p \in Requests : At(q, "idle") =>
       request[p].source # q /\ request[p].ns # q /\ request[p].obj # q
  /\ writeLock = NONE /\ persistLock = NONE /\ pass = {} /\ doomed = {}
  /\ restarts \in 0 .. MaxRestarts /\ forgiven \subseteq Rows
  /\ SEEDED \in Reached /\ \A q \in Requests : Inserted(q) => q \in Reached

LEMMA ObjectParts ==
  ASSUME NEW o \in Objects, o \notin Requests
  PROVE  o[1] \in Names /\ o[2] \in Tables
BY DEF Objects

LEMMA StartedIInv ==
  ASSUME Started
  PROVE  IInv
<1>1. /\ map = [n \in Names |-> IF folder[n].exists THEN n ELSE NONE]
      /\ folder \in Folders /\ request \in [Requests -> GoodRequest]
      /\ queue = [i \in Opened |-> {}]
      /\ writeLock = NONE /\ persistLock = NONE /\ pass = {} /\ doomed = {}
  BY DEF Started
<1>2. \A q \in Requests : request[q].at \in {"idle", "ended"}
  BY DEF Started
<1>3. /\ rows \in [Objects -> SUBSET Rows]
      /\ \A q \in Requests : rows[q] = {}
      /\ \A n \in Names, t \in Tables : rows[<<n, t>>] = folder[n].slot[t]
  <2>1. rows = [o \in Objects |-> IF o \in Requests THEN {} ELSE folder[o[1]].slot[o[2]]]
    BY DEF Started
  <2>2. \A o \in Objects : o \notin Requests => folder[o[1]].slot[o[2]] \subseteq Rows
    BY <1>1, ObjectParts DEF Folders
  <2>3. rows \in [Objects -> SUBSET Rows]
    BY <2>1, <2>2
  <2> QED BY <2>1, <2>3, Sets
<1>4. /\ tables \in [Opened -> [Tables -> Objects \cup {NONE}]]
      /\ \A n \in Names, t \in Tables :
           tables[n][t] = IF t \in LoadedTables(n) THEN <<n, t>> ELSE NONE
      /\ \A q \in Requests : tables[q] = NoTables
  <2>1. tables = [i \in Opened |-> IF i \in Names
          THEN [t \in Tables |-> IF t \in LoadedTables(i) THEN Loaded(i, t) ELSE NONE]
          ELSE NoTables]
    BY DEF Started
  <2>2. NoTables \in [Tables -> Objects \cup {NONE}]
    BY DEF NoTables
  <2>3. \A n \in Names : [t \in Tables |-> IF t \in LoadedTables(n) THEN Loaded(n, t) ELSE NONE]
                           \in [Tables -> Objects \cup {NONE}]
    BY Sets DEF Loaded
  <2> QED BY <2>1, <2>2, <2>3, Sets DEF Loaded
<1>5. /\ repo \in Repos
      /\ \A n \in Names : repo[n].index = Slots(n) /\ repo[n].meta = folder[n].meta
  <2>1. repo = [i \in Opened |-> IF i \in Names
          THEN [index |-> Slots(i), meta |-> folder[i].meta] ELSE NewRepo]
    BY DEF Started
  <2>2. NewRepo \in [index : SUBSET Tables, meta : SUBSET Tables]
    BY DEF NewRepo
  <2>3. \A n \in Names : [index |-> Slots(n), meta |-> folder[n].meta]
                           \in [index : SUBSET Tables, meta : SUBSET Tables]
    BY <1>1 DEF Slots, Folders
  <2> QED BY <2>1, <2>2, <2>3, Sets DEF Repos
<1>6. /\ map \in [Names -> Opened \cup {NONE}]
      /\ \A n \in Names : map[n] # NONE => map[n] = n /\ folder[n].exists
      /\ \A n \in Names : folder[n].exists => map[n] = n
  BY <1>1, Sets
<1>7. \A i \in Opened, t \in Tables : tables[i][t] # NONE =>
        i \in Names /\ t \in LoadedTables(i) /\ tables[i][t] = <<i, t>>
  BY <1>4 DEF NoTables, Opened
<1>8. Typed
  <2>1. RestTyped
    BY <1>1, <1>3, <1>4, <1>5, <1>6 DEF Started, RestTyped, Repos, Folders
  <2> QED BY <1>1, <2>1, TypedParts
<1>9. Locks
  BY <1>1, <1>2, Sets DEF Locks, At
<1>10. Births
  <2> SUFFICES ASSUME NEW q \in Requests
               PROVE  /\ request[q].at \in Bearing => Unopened(q) /\ Unborn(q)
    BY <1>2 DEF Births, At, Bearing
  <2> SUFFICES ASSUME At(q, "idle") PROVE Unopened(q) /\ Unborn(q)
    BY <1>2 DEF At, Bearing, Opening
  <2>1. \A p \in Requests : request[p].source # q /\ request[p].ns # q /\ request[p].obj # q
    BY DEF Started
  <2>2. /\ \A n \in Names : map[n] # q
        /\ tables[q] = NoTables /\ queue[q] = {} /\ q \notin pass
    BY <1>1, <1>4, <1>6, Sets
  <2>3. ASSUME NEW i \in Opened, NEW t \in Tables, tables[i][t] = q
        PROVE  FALSE
    <3>1. i \in Names /\ q = <<i, t>>
      BY <1>7, <2>3, Sets
    <3> QED BY <3>1, Sets
  <2> QED BY <1>3, <2>1, <2>2, <2>3 DEF Unopened, Unborn
<1>11. Homes
  <2>1. \A n \in Names : map[n] # NONE => NameOf(map[n]) = n
    BY <1>6 DEF NameOf
  <2>2. \A i \in Opened, t \in Tables : tables[i][t] # NONE => InHome(tables[i][t], i, t)
    <3> SUFFICES ASSUME NEW i \in Opened, NEW t \in Tables, tables[i][t] # NONE
                 PROVE  InHome(tables[i][t], i, t)
      OBVIOUS
    <3>1. i \in Names /\ tables[i][t] = <<i, t>> /\ <<i, t>> \notin Requests
      BY <1>7, Sets
    <3> QED BY <3>1 DEF InHome
  <2>3. \A q \in Requests : ~AboutToInsert(q)
    BY <1>2 DEF AboutToInsert, At
  <2> QED BY <1>1, <2>1, <2>2, <2>3 DEF Homes
<1>12. \A q \in Requests : ~Moving(q) /\ ~Deletes(q) /\ ~At(q, "prime")
  BY <1>2 DEF Moving, Deletes, At
<1>13. Hands /\ Going /\ Priming /\ Passing
  BY <1>1, <1>12 DEF Hands, Going, Priming, Passing
<1>14. Gone
  BY DEF Started
<1>15. Mirrored
  <2> SUFFICES ASSUME NEW n \in Names, map[n] # NONE
               PROVE  Known(n) /\ \A t \in Tables : RowsMirrored(n, t) /\ EntryMirrored(n, t)
    BY DEF Mirrored
  <2>1. map[n] = n /\ folder[n].exists
    BY <1>6
  <2>2. Known(n)
    BY <1>5, <2>1 DEF Known
  <2>3. ASSUME NEW t \in Tables
        PROVE  RowsMirrored(n, t) /\ EntryMirrored(n, t)
    <3>1. tables[n][t] = IF t \in LoadedTables(n) THEN <<n, t>> ELSE NONE
      BY <1>4
    <3>2. <<n, t>> # NONE
      BY Sets
    <3>3. Content(map[n], t) = folder[n].slot[t]
      <4>1. CASE t \in LoadedTables(n)
        BY <1>3, <2>1, <3>1, <3>2, <4>1 DEF Content
      <4>2. CASE t \notin LoadedTables(n)
        <5>1. folder[n].slot[t] = {}
          BY <4>2 DEF LoadedTables, Slots
        <5> QED BY <2>1, <3>1, <4>2, <5>1 DEF Content
      <4> QED BY <4>1, <4>2
    <3>4. t \in LoadedTables(n) /\ t \notin folder[n].meta => RestoredWithoutEntry(n, t)
      BY <2>1, <3>1 DEF Started, LoadedTables, RestoredWithoutEntry, Loaded
    <3>5. t \in folder[n].meta => t \in LoadedTables(n)
      BY DEF LoadedTables
    <3> QED BY <2>1, <3>1, <3>2, <3>3, <3>4, <3>5 DEF RowsMirrored, EntryMirrored
  <2> QED BY <2>2, <2>3
<1>16. Kept
  <2>1. ASSUME NEW x, x \in Reached
        PROVE  Found(x)
    <3>1. CASE x \in forgiven
      BY <3>1 DEF Found
    <3>2. CASE x \in OnDisk
      <4>1. PICK n \in Names, t \in Tables : x \in folder[n].slot[t]
        BY <3>2 DEF OnDisk
      <4>2. folder[n].exists
        BY <1>14, <4>1 DEF Gone, NoFolder
      <4>3. map[n] = n /\ tables[n][t] = <<n, t>>
        BY <1>4, <1>6, <4>1, <4>2 DEF LoadedTables, Slots
      <4>4. InTable(x, n, t)
        BY <1>3, <4>1, <4>3, Sets DEF InTable
      <4> QED BY <4>4 DEF Found
    <3> QED BY <2>1, <3>1, <3>2 DEF Reached
  <2> QED BY <2>1 DEF Started, Kept
<1> QED BY <1>8, <1>9, <1>10, <1>11, <1>13, <1>14, <1>15, <1>16 DEF IInv

LEMMA InitIInv == Init => IInv
<1> SUFFICES ASSUME Init PROVE Started
  BY StartedIInv
<1>0. PICK home \in Names, open \in SUBSET Names, content \in SUBSET {SEEDED} :
        /\ {DEFAULT, home} \subseteq open
        /\ folder = [n \in Names |-> IF n = home THEN WithTables(content)
                                     ELSE [NoFolder EXCEPT !.exists = n \in open]]
        /\ forgiven = {SEEDED} \ content
        /\ map = [n \in Names |-> IF n \in open THEN n ELSE NONE]
  BY Zenon DEF Init
<1>1. /\ DEFAULT \in open /\ home \in open
      /\ folder = [n \in Names |-> IF n = home THEN WithTables(content)
                                   ELSE [NoFolder EXCEPT !.exists = n \in open]]
      /\ forgiven = {SEEDED} \ content
      /\ map = [n \in Names |-> IF n \in open THEN n ELSE NONE]
  <2>1. DEFAULT \in open /\ home \in open
    BY <1>0, Zenon
  <2> QED BY <1>0, <2>1, Zenon
<1> DEFINE Folder == [exists : BOOLEAN, meta : SUBSET Tables, slot : [Tables -> SUBSET Rows]]
<1>2. /\ WithTables(content) \in Folder
      /\ WithTables(content).exists = TRUE /\ WithTables(content).meta = Tables
      /\ \A t \in Tables : WithTables(content).slot[t] = content
  <2> DEFINE slot == [t \in Tables |-> content]
  <2>1. slot \in [Tables -> SUBSET Rows] /\ \A t \in Tables : slot[t] = content
    BY Sets
  <2>2. WithTables(content) = [exists |-> TRUE, meta |-> Tables, slot |-> slot]
    BY DEF WithTables
  <2> HIDE DEF slot
  <2> QED BY <2>1, <2>2
<1>3. /\ NoFolder \in Folder /\ NoFolder.exists = FALSE /\ NoFolder.meta = {}
      /\ \A t \in Tables : NoFolder.slot[t] = {}
  BY DEF NoFolder
<1>4. ASSUME NEW x, NEW e \in BOOLEAN, x = [NoFolder EXCEPT !.exists = e]
      PROVE  /\ x \in Folder /\ x.exists = e /\ x.meta = {} /\ \A t \in Tables : x.slot[t] = {}
             /\ e = FALSE => x = NoFolder
  <2>1. /\ x \in Folder /\ x.exists = e /\ x.meta = NoFolder.meta /\ x.slot = NoFolder.slot
    BY <1>3, <1>4
  <2>2. e = FALSE => x = NoFolder
    BY <1>4 DEF NoFolder
  <2> QED BY <1>3, <2>1, <2>2
<1> HIDE DEF Folder
<1>5. ASSUME NEW n \in Names
      PROVE  /\ folder[n] \in Folder /\ (folder[n].exists <=> n \in open)
             /\ n = home => /\ folder[n].meta = Tables
                            /\ \A t \in Tables : folder[n].slot[t] = content
             /\ n # home => /\ folder[n].meta = {}
                            /\ \A t \in Tables : folder[n].slot[t] = {}
                            /\ ~folder[n].exists => folder[n] = NoFolder
  <2>1. CASE n = home
    <3>1. folder[n] = WithTables(content)
      BY <1>1, <2>1
    <3> QED BY <1>1, <1>2, <2>1, <3>1
  <2>2. CASE n # home
    <3>1. folder[n] = [NoFolder EXCEPT !.exists = n \in open]
      BY <1>1, <2>2
    <3>2. CASE n \in open
      <4>0. (n \in open) = TRUE
        BY <3>2
      <4>1. folder[n] = [NoFolder EXCEPT !.exists = TRUE]
        BY <3>1, <4>0
      <4> QED BY <1>4, <2>2, <3>2, <4>1
    <3>3. CASE n \notin open
      <4>0. (n \in open) = FALSE
        BY <3>3
      <4>1. folder[n] = [NoFolder EXCEPT !.exists = FALSE]
        BY <3>1, <4>0
      <4> QED BY <1>4, <2>2, <3>3, <4>1
    <3> QED BY <3>2, <3>3
  <2> QED BY <2>1, <2>2
<1>6. folder \in Folders
  BY <1>1, <1>5 DEF Folders, Folder
<1>7. /\ map = [n \in Names |-> IF folder[n].exists THEN n ELSE NONE]
      /\ Gone
      /\ \A n \in Names : \A t \in Slots(n) : t \in folder[n].meta
  <2>1. \A n \in Names : (n \in open) = folder[n].exists
    BY <1>5 DEF Folder
  <2>2. map = [n \in Names |-> IF folder[n].exists THEN n ELSE NONE]
    BY <1>1, <2>1
  <2>3. Gone
    BY <1>1, <1>5 DEF Gone
  <2>4. \A n \in Names : \A t \in Slots(n) : t \in folder[n].meta
    BY <1>5 DEF Slots
  <2> QED BY <2>2, <2>3, <2>4
<1>8. request = [q \in Requests |-> NewRequest] /\ NewRequest \in GoodRequest
  <2>1. NewRequest \in RequestState
    BY DEF NewRequest, RequestState, Places, Answers
  <2>2. Placed(NewRequest)
    BY DEF NewRequest, Placed, Working
  <2> QED BY <2>1, <2>2 DEF Init, GoodRequest
<1>9. \A q \in Requests : request[q] = NewRequest
  BY <1>8
<1>10. \A q \in Requests : ~Inserted(q) /\ request[q].at = "idle"
  BY <1>9, NewFacts, Sets DEF Inserted, At
<1>11. SEEDED \in Reached
  <2>1. PICK t \in Tables : TRUE
    BY NameAssumption
  <2>2. folder[home].slot[t] = content
    BY <1>5
  <2> QED BY <1>1, <2>2 DEF Reached, OnDisk
<1>12. \A q, p \in Requests : request[p].source # q /\ request[p].ns # q /\ request[p].obj # q
  BY <1>9, NewFacts, Sets
<1>13. tables = [i \in Opened |-> IF i \in Names
        THEN [t \in Tables |-> IF t \in LoadedTables(i) THEN Loaded(i, t) ELSE NONE]
        ELSE NoTables]
  BY DEF Init, NoTables
<1>14. /\ rows = [o \in Objects |-> IF o \in Requests THEN {} ELSE folder[o[1]].slot[o[2]]]
       /\ repo = [i \in Opened |-> IF i \in Names
            THEN [index |-> Slots(i), meta |-> folder[i].meta] ELSE NewRepo]
       /\ queue = [i \in Opened |-> {}]
       /\ writeLock = NONE /\ persistLock = NONE /\ pass = {} /\ doomed = {}
       /\ forgiven \subseteq Rows /\ restarts \in 0 .. MaxRestarts
  <2>1. restarts = 0 /\ restarts \in 0 .. MaxRestarts
    <3>1. restarts = 0
      BY DEF Init
    <3> QED BY <3>1, BoundAssumption
  <2>2. rows = [o \in Objects |-> IF o \in Requests THEN {} ELSE folder[o[1]].slot[o[2]]]
    BY DEF Init
  <2>3. repo = [i \in Opened |-> IF i \in Names
          THEN [index |-> Slots(i), meta |-> folder[i].meta] ELSE NewRepo]
    BY DEF Init
  <2>4. /\ queue = [i \in Opened |-> {}]
        /\ writeLock = NONE /\ persistLock = NONE /\ pass = {} /\ doomed = {}
    BY DEF Init
  <2>5. forgiven \subseteq Rows
    BY <1>1, Sets
  <2> QED BY <2>1, <2>2, <2>3, <2>4, <2>5
<1>15. request \in [Requests -> GoodRequest]
  BY <1>8
<1> QED BY <1>6, <1>7, <1>10, <1>11, <1>12, <1>13, <1>14, <1>15, NameAssumption DEF Started

LEMMA RestartStep ==
  ASSUME IInv, Restart
  PROVE  IInv'
<1>1. /\ Typed /\ Births /\ Gone /\ Kept
      /\ folder \in Folders /\ request \in [Requests -> GoodRequest]
      /\ forgiven \subseteq Rows /\ restarts \in 0 .. MaxRestarts
  BY DEF IInv, Typed, TypeOK, Folders
<1>2. /\ restarts < MaxRestarts /\ restarts' = restarts + 1
      /\ folder' = [folder EXCEPT ![DEFAULT].exists = TRUE]
      /\ queue' = [i \in Opened |-> {}]
      /\ writeLock' = NONE /\ persistLock' = NONE /\ pass' = {} /\ doomed' = {}
      /\ forgiven' = forgiven \cup (Rows \ OnDisk)
  BY DEF Restart
<1>3. /\ folder' \in Folders
      /\ \A n \in Names : /\ folder'[n].meta = folder[n].meta
                          /\ folder'[n].slot = folder[n].slot
                          /\ folder'[n].exists = (IF n = DEFAULT THEN TRUE ELSE folder[n].exists)
                          /\ n # DEFAULT => folder'[n] = folder[n]
  <2>1. folder'[DEFAULT] = [folder[DEFAULT] EXCEPT !.exists = TRUE]
    BY <1>1, <1>2, NameAssumption DEF Folders
  <2>2. \A n \in Names : n # DEFAULT => folder'[n] = folder[n]
    BY <1>1, <1>2, NameAssumption DEF Folders
  <2>3. /\ folder'[DEFAULT] \in [exists : BOOLEAN, meta : SUBSET Tables,
                                 slot : [Tables -> SUBSET Rows]]
        /\ folder'[DEFAULT].exists = TRUE
        /\ folder'[DEFAULT].meta = folder[DEFAULT].meta
        /\ folder'[DEFAULT].slot = folder[DEFAULT].slot
    BY <1>1, <2>1, NameAssumption DEF Folders
  <2>4. folder' \in Folders
    BY <1>1, <1>2, <2>2, <2>3, NameAssumption DEF Folders
  <2> QED BY <2>2, <2>3, <2>4
<1>4. \A n \in Names : Slots(n)' = Slots(n) /\ LoadedTables(n)' = LoadedTables(n)
  BY <1>3 DEF Slots, LoadedTables
<1>5. \A n \in Names : OnStart(n) <=> folder'[n].exists
  BY <1>3 DEF OnStart
<1>6. OnDisk' = OnDisk
  <2>1. \A n \in Names, t \in Tables : folder'[n].slot[t] = folder[n].slot[t]
    BY <1>3
  <2>2. ASSUME NEW x PROVE x \in OnDisk' <=> x \in OnDisk
    <3>1. x \in OnDisk' <=> \E n \in Names, t \in Tables : x \in folder'[n].slot[t]
      BY DEF OnDisk
    <3>2. x \in OnDisk <=> \E n \in Names, t \in Tables : x \in folder[n].slot[t]
      BY DEF OnDisk
    <3> QED BY <2>1, <3>1, <3>2
  <2> QED BY <2>2
<1>7. map' = [n \in Names |-> IF folder'[n].exists THEN n ELSE NONE]
  <2>1. map' = [n \in Names |-> IF OnStart(n) THEN n ELSE NONE]
    BY DEF Restart
  <2>2. \A n \in Names : (IF OnStart(n) THEN n ELSE NONE)
                          = (IF folder'[n].exists THEN n ELSE NONE)
    BY <1>5
  <2> QED BY <2>1, <2>2, Zenon
<1>8. tables' = [i \in Opened |-> IF i \in Names
        THEN [t \in Tables |-> IF t \in LoadedTables(i)' THEN Loaded(i, t) ELSE NONE]
        ELSE NoTables]
  <2>1. tables' = [i \in Opened |-> IF i \in Names
        THEN [t \in Tables |-> IF t \in LoadedTables(i) THEN Loaded(i, t) ELSE NONE]
        ELSE NoTables]
    BY DEF Restart
  <2> QED BY <1>4, <2>1
<1>9. rows' = [o \in Objects |-> IF o \in Requests THEN {} ELSE folder'[o[1]].slot[o[2]]]
  <2>1. rows' = [o \in Objects |-> IF o \in Requests THEN {} ELSE folder[o[1]].slot[o[2]]]
    BY DEF Restart
  <2>2. \A o \in Objects : o \notin Requests => folder'[o[1]].slot[o[2]] = folder[o[1]].slot[o[2]]
    BY <1>3, ObjectParts
  <2> QED BY <2>1, <2>2
<1>10. repo' = [i \in Opened |-> IF i \in Names
         THEN [index |-> Slots(i)', meta |-> folder'[i].meta] ELSE NewRepo]
  <2>1. repo' = [i \in Opened |-> IF i \in Names
         THEN [index |-> Slots(i), meta |-> folder[i].meta] ELSE NewRepo]
    BY DEF Restart
  <2> QED BY <1>3, <1>4, <2>1
<1>11. Gone'
  <2>1. \A n \in Names : ~folder'[n].exists => folder'[n] = NoFolder
    BY <1>1, <1>3 DEF Gone
  <2> QED BY <2>1 DEF Gone
<1>12. restarts' > 0 /\ restarts' \in 0 .. MaxRestarts /\ forgiven' \subseteq Rows
  BY <1>1, <1>2, BoundAssumption
<1>13. ASSUME NEW q \in Requests
       PROVE  \/ /\ request[q].at \in {"idle", "ended"} /\ request'[q] = request[q]
              \/ /\ request'[q] \in GoodRequest
                 /\ request'[q].at = "ended" /\ request'[q].answer # "done"
                 /\ request'[q].ns = NONE /\ request'[q].source = NONE /\ request'[q].obj = NONE
  <2> DEFINE r == [NewRequest EXCEPT !.at = "ended", !.kind = request[q].kind,
                                     !.answer = "connection lost"]
  <2>1. request'[q] = IF At(q, "idle") \/ At(q, "ended") THEN request[q] ELSE r
    BY DEF Restart
  <2>2. request[q].kind \in Kinds \cup {NONE}
    BY <1>1, RequestFacts DEF RequestState
  <2>3. /\ r \in RequestState /\ r.at = "ended" /\ r.answer = "connection lost"
        /\ r.ns = NONE /\ r.source = NONE /\ r.obj = NONE
    <3>1. NewRequest \in RequestState
      BY DEF NewRequest, RequestState, Places, Answers
    <3>2. "ended" \in Places /\ "connection lost" \in Answers
      BY DEF Places, Answers
    <3>3. /\ r \in RequestState /\ r.at = "ended" /\ r.answer = "connection lost"
          /\ r.ns = NewRequest.ns /\ r.source = NewRequest.source /\ r.obj = NewRequest.obj
      BY <2>2, <3>1, <3>2 DEF RequestState
    <3> QED BY <3>3, NewFacts
  <2> HIDE DEF r
  <2>4. Placed(r)
    BY <2>3 DEF Placed, Working
  <2> QED BY <2>1, <2>3, <2>4 DEF At, GoodRequest
<1>14. request' \in [Requests -> GoodRequest]
  <2>1. \A q \in Requests : request'[q] \in GoodRequest
    BY <1>1, <1>13
  <2>2. request' = [q \in Requests |-> request'[q]]
    BY DEF Restart
  <2> QED BY <2>1, <2>2
<1>15. \A q \in Requests : request'[q].at \in {"idle", "ended"}
  BY <1>13
<1>16. \A q, p \in Requests : request'[q].at = "idle" =>
         request'[p].source # q /\ request'[p].ns # q /\ request'[p].obj # q
  <2> SUFFICES ASSUME NEW q \in Requests, NEW p \in Requests, request'[q].at = "idle"
               PROVE  request'[p].source # q /\ request'[p].ns # q /\ request'[p].obj # q
    OBVIOUS
  <2>1. request[q].at = "idle"
    BY <1>13
  <2>2. Unopened(q) /\ Unborn(q) /\ request[q] = NewRequest
    BY <1>1, <2>1, RequestFacts DEF Births, Opening, Bearing, Placed
  <2>3. request[p].source # q /\ request[p].ns # q /\ request[p].obj # q
    BY <2>2, NewFacts, Sets DEF Unopened, Unborn
  <2> QED BY <1>13, <2>3, Sets
<1>17. Rows \subseteq Reached'
  BY <1>2, <1>6 DEF Reached
<1>18. SEEDED \in Reached' /\ \A q \in Requests : Inserted(q)' => q \in Reached'
  BY <1>17, Sets
<1>19. Started'
  <2>1. \A n \in Names : \A t \in Slots(n)' : t \in folder'[n].meta \/ restarts' > 0
    BY <1>12
  <2>2. \A q, p \in Requests : At(q, "idle")' =>
          request'[p].source # q /\ request'[p].ns # q /\ request'[p].obj # q
    BY <1>16 DEF At
  <2> QED BY <1>2, <1>3, <1>7, <1>8, <1>9, <1>10, <1>11, <1>12, <1>14, <1>15, <1>18,
             <2>1, <2>2, NameAssumption DEF Started
<1>20. (Started => IInv)'
  BY StartedIInv, PTL
<1> QED BY <1>19, <1>20

-----------------------------------------------------------------------------
(* The theorems.                                                             *)

LEMMA StepIInv ==
  ASSUME IInv, [Next]_vars
  PROVE  IInv'
<1>1. ASSUME NEW q \in Requests, Call(q) \/ CallMove(q) \/ RemoveFromMap(q)
      PROVE  IInv'
  BY <1>1, CallStep, CallMoveStep, RemoveFromMapStep
<1>2. ASSUME NEW q \in Requests, Step(q)
      PROVE  IInv'
  <2>1. CASE Resolve(q) \/ OpenFolder(q) \/ Prime(q)
    BY <2>1, ResolveStep, OpenFolderStep, PrimeStep
  <2>2. CASE LookUp(q) \/ GetOrCreateTable(q) \/ Insert(q) \/ Mark(q) \/ Marked(q)
    BY <2>2, LookUpStep, GetOrCreateTableStep, InsertStep, MarkStep, MarkedStep
  <2>3. CASE MoveCheck(q) \/ MoveTake(q) \/ MoveCopy(q) \/ MovePublish(q) \/ MoveClean(q)
    BY <2>3, MoveCheckStep, MoveTakeStep, MoveCopyStep, MovePublishStep, MoveCleanStep
  <2>4. CASE DeleteTakeLock(q) \/ DeleteOneTable(q) \/ DeleteFolder(q)
    BY <2>4, DeleteTakeLockStep, DeleteOneTableStep, DeleteFolderStep
  <2> QED BY <1>2, <2>1, <2>2, <2>3, <2>4 DEF Step
<1>3. CASE Persist
  BY <1>3, TakeLockStep, VisitStep, EndPassStep DEF Persist
<1>4. CASE Restart
  BY <1>4, RestartStep
<1>5. CASE UNCHANGED vars
  <2>1. /\ map' = map /\ writeLock' = writeLock /\ tables' = tables /\ queue' = queue
        /\ repo' = repo /\ rows' = rows /\ folder' = folder /\ request' = request
        /\ pass' = pass /\ persistLock' = persistLock /\ restarts' = restarts
        /\ forgiven' = forgiven /\ doomed' = doomed
    BY <1>5 DEF vars
  <2>2. \A q \in Requests : /\ Moving(q)' = Moving(q) /\ Deletes(q)' = Deletes(q)
                            /\ AboutToInsert(q)' = AboutToInsert(q) /\ Inserted(q)' = Inserted(q)
                            /\ Marks(q)' = Marks(q)
    BY <2>1 DEF Moving, Deletes, AboutToInsert, Inserted, Marks, At
  <2>3. \A n \in Names : LoadedTables(n)' = LoadedTables(n) /\ Slots(n)' = Slots(n)
    BY <2>1 DEF LoadedTables, Slots
  <2>4. Typed'
    BY <2>1 DEF IInv, Typed, TypeOK, At
  <2>5. Locks' /\ Gone'
    BY <2>1 DEF IInv, Locks, At, Gone
  <2>6. Births'
    BY <2>1 DEF IInv, Births, Unopened, Unborn, At
  <2>7. Homes'
    BY <2>1, <2>2 DEF IInv, Homes, InHome, NameOf
  <2>8. Hands'
    BY <2>1, <2>2 DEF IInv, Hands
  <2>9. Going'
    BY <2>1, <2>2 DEF IInv, Going, At
  <2>10. Priming'
    BY <2>1 DEF IInv, Priming, At, LoadedTables, Slots
  <2>11. Passing'
    BY <2>1 DEF IInv, Passing, NameOf, At
  <2>12. Mirrored'
    <3>1. \A n \in Names, t \in Tables :
            RowsMirrored(n, t)' = RowsMirrored(n, t) /\ EntryMirrored(n, t)' = EntryMirrored(n, t)
      <4>1. \A q \in Requests : \A i, t :
              OwesRowsBy(q, i, t)' = OwesRowsBy(q, i, t)
              /\ OwesEntryBy(q, i, t)' = OwesEntryBy(q, i, t)
        BY <2>1, <2>2 DEF OwesRowsBy, OwesEntryBy, At
      <4> QED BY <2>1, <4>1 DEF RowsMirrored, EntryMirrored, Content, PublishedOver,
                                RestoredWithoutEntry
    <3>2. \A n \in Names : Known(n)' = Known(n)
      BY <2>1, <2>3 DEF Known
    <3> QED BY <2>1, <3>1, <3>2 DEF IInv, Mirrored
  <2>13. Kept'
    <3>1. \A x : Found(x)' = Found(x)
      BY <2>1 DEF Found, InTable, Carries, At
    <3> QED BY <2>2, <3>1 DEF IInv, Kept
  <2> QED BY <2>4, <2>5, <2>6, <2>7, <2>8, <2>9, <2>10, <2>11, <2>12, <2>13 DEF IInv
<1> QED BY <1>1, <1>2, <1>3, <1>4, <1>5 DEF Next

(* Every reachable state satisfies the inductive invariant: whatever calls   *)
(* are made by name, whichever of them crosses a deletion, a move, the       *)
(* persist pass or a crash (namespace.rs:25-140, db_namespaces.rs:39-145,    *)
(* persist.rs:17-60).                                                        *)
THEOREM InvariantHolds == Spec => []IInv
<1>1. Init => IInv
  BY InitIInv
<1>2. IInv /\ [Next]_vars => IInv'
  BY StepIInv
<1> QED BY <1>1, <1>2, PTL DEF Spec

(* The state stays well typed, the persist pass never finds the folder of    *)
(* a namespace it visits gone from under a mark, and a namespace opened on a *)
(* free name keeps its folder for as long as it is served                    *)
(* (namespace.rs:25-60, persist.rs:17-60).                                   *)
THEOREM FoldersAreThere == Spec => []Inv
<1>1. IInv => Inv
  <2> SUFFICES ASSUME IInv PROVE Inv
    OBVIOUS
  <2>1. TypeOK
    BY DEF IInv, Typed
  <2>2. PassFindsFolder
    BY DEF IInv, Passing, PassFindsFolder
  <2>3. ServedHasFolder
    BY DEF IInv, Mirrored, Known, ServedHasFolder
  <2> QED BY <2>1, <2>2, <2>3 DEF Inv
<1> QED BY <1>1, InvariantHolds, PTL

(* Whatever a served namespace holds in memory and its folder does not, or   *)
(* the other way round, is named by a mark in its queue or by a call that    *)
(* is about to set one: creating, restoring, moving and deleting tables      *)
(* leave no difference behind that nobody will write (namespace.rs:62-140,   *)
(* persist_markers_inner.rs:96-150).                                         *)
THEOREM ChangesReachTheDisk == Spec => []OwedOrDurable
<1>1. IInv => OwedOrDurable
  <2> SUFFICES ASSUME IInv, NEW n \in Names, map[n] # NONE, map[n] \notin doomed, NEW t \in Tables
               PROVE  /\ Content(map[n], t) # folder[n].slot[t] =>
                           \/ Partition(t) \in queue[map[n]] \/ Owes(map[n], Partition(t))
                           \/ PublishedOver(n, t)
                      /\ (tables[map[n]][t] # NONE) # (t \in folder[n].meta) =>
                           \/ Metadata(t) \in queue[map[n]] \/ Owes(map[n], Metadata(t))
                           \/ RestoredWithoutEntry(n, t)
    BY DEF OwedOrDurable
  <2>1. RowsMirrored(n, t) /\ EntryMirrored(n, t)
    BY DEF IInv, Mirrored
  <2>2. Partition(t).table = t /\ Metadata(t).table = t
    BY DEF Partition, Metadata
  <2>3. \A q \in Requests : Moving(q) =>
          /\ request[q].kind = "move"
          /\ \/ request[q].at \in {"copy", "publish", "clean"}
             \/ At(q, "mark") /\ request[q].then = "clean"
    BY RequestFacts DEF IInv, Moving, Placed
  <2>4. (\E q \in Requests : OwesRowsBy(q, map[n], t)) => Owes(map[n], Partition(t))
    BY <2>2, <2>3 DEF OwesRowsBy, Owes
  <2>5. (\E q \in Requests : OwesEntryBy(q, map[n], t)) => Owes(map[n], Metadata(t))
    BY <2>2, <2>3 DEF OwesEntryBy, Owes
  <2> QED BY <2>1, <2>4, <2>5 DEF RowsMirrored, EntryMirrored
<1> QED BY <1>1, InvariantHolds, PTL

(* A row whose write was acknowledged while its table could be named is      *)
(* found under a name or in the hands of a move until its namespace is       *)
(* deleted, a crash takes what no slot holds, or a move publishes over its   *)
(* table (namespace.rs:62-140).                                              *)
THEOREM AcknowledgedRowsStay == Spec => []AcknowledgedRowsReachable
<1>1. IInv => AcknowledgedRowsReachable
  <2> SUFFICES ASSUME IInv, NEW x \in Acknowledged
               PROVE  x \in Reachable \cup InHand \cup forgiven
    BY DEF AcknowledgedRowsReachable
  <2>1. Found(x)
    BY DEF IInv, Kept, Acknowledged, Inserted
  <2>2. ASSUME NEW n \in Names, NEW t \in Tables, InTable(x, n, t)
        PROVE  x \in Reachable
    <3>1. n \in {m \in Names : map[m] # NONE} /\ x \in Content(map[n], t)
      BY <2>2 DEF InTable, Content
    <3> QED BY <3>1 DEF Reachable
  <2>3. ASSUME NEW q \in Requests, Carries(q, x)
        PROVE  x \in InHand
    BY <2>3 DEF Carries, InHand, At
  <2> QED BY <2>1, <2>2, <2>3 DEF Found
<1> QED BY <1>1, InvariantHolds, PTL

=============================================================================
