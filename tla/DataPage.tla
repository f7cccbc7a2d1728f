------------------------------ MODULE DataPage ------------------------------
(***************************************************************************)
(* The data page of the browser UI (ui/src/pages/data.rs): one page state  *)
(* written by the user's clicks and by the tasks the page has spawned,     *)
(* each of which sends a request, waits and then applies an answer that    *)
(* may be about something the user has left.                               *)
(*                                                                         *)
(* The server is what the page asks: rows per table and partition, and     *)
(* whether writes are allowed.  Any request may fail, and a write may fail *)
(* to be heard of after it was done.  The page is of one namespace: picking *)
(* another one reloads the browser into a fresh page.  The filter over the *)
(* rows, which shows fewer of them, and the status poll are left out.      *)
(***************************************************************************)
EXTENDS Integers, FiniteSets, FiniteSetsExt

CONSTANTS Tables,
          Rows,         \* Rows[table][partition], a set of keys: what the server holds
          Sizes,        \* the page sizes on offer, the smallest being the default
          PaneSize,     \* PARTITIONS_PAGE_SIZE
          None,
          MaxClicks,    \* bound: what the user does
          MaxFlights    \* bound: tasks at a time

VARIABLES
    route,      \* the URL: [table, partition, row], None where the path ends before
    cs,         \* DataState
    flights,    \* the tasks the page has spawned, by slot
    db,         \* the rows the server holds
    ticked,     \* rows the user has put a tick on
    clicks

vars == <<route, cs, flights, db, ticked, clicks>>

ASSUME DataPageAssumption == /\ PaneSize \in Nat \ {0}
                             /\ Sizes # {} /\ Sizes \subseteq Nat \ {0}
                             /\ {MaxClicks, MaxFlights} \subseteq Nat

ASSUME RowsAssumption ==
    /\ DOMAIN Rows = Tables
    /\ \A t \in Tables :
         /\ IsFiniteSet(DOMAIN Rows[t])
         /\ \A p \in DOMAIN Rows[t] : Rows[t][p] \subseteq Int /\ IsFiniteSet(Rows[t][p])

Slots == 1 .. MaxFlights
Partitions == UNION {DOMAIN Rows[t] : t \in Tables}
Keys == UNION {UNION {Rows[t][p] : p \in DOMAIN Rows[t]} : t \in Tables}

-----------------------------------------------------------------------------
(* What the page shows, derived from its state and the URL.                *)

(* The page a set of numbers has at skip: the server answers in order. *)
Window(keys, skip, limit) ==
    LET before(k) == Cardinality({j \in keys : j < k})
    IN  {k \in keys : skip <= before(k) /\ before(k) < skip + limit}

Pages(total, size) == Max({1, (total + size - 1) \div size})

(* A page number belongs to the partition it was turned to, and it is held *)
(* inside what is known of the partition's length.                         *)
CurrentPage(r, s) ==
    LET stored == IF s.pair = [table |-> r.table, partition |-> r.partition]
                  THEN s.page ELSE 0
    IN  IF s.total = None THEN stored ELSE Min({stored, Pages(s.total.records, s.size) - 1})

(* The rows window the URL and the state ask for. *)
Scope(r, s) == [table |-> r.table, partition |-> r.partition,
                skip |-> CurrentPage(r, s) * s.size, limit |-> s.size]

ScopeMatches == route.partition # None /\ cs.scope = Scope(route, cs)
RowsReady    == ScopeMatches /\ cs.ready
Visible      == IF ScopeMatches THEN cs.rows.keys ELSE {}

Root == [table |-> None, partition |-> None, row |-> None]
AtTable(t) == [Root EXCEPT !.table = t]
AtPartition(t, p) == [Root EXCEPT !.table = t, !.partition = p]

-----------------------------------------------------------------------------
(* DataState and its transitions.                                          *)

NoRows == [of |-> None, keys |-> {}]

Fresh == [table |-> None, pane |-> None, paneTotal |-> 0, panePage |-> 0,
          scope |-> None, ready |-> FALSE, failed |-> FALSE, pair |-> None, rows |-> NoRows,
          total |-> None, dialog |-> None, checked |-> {},
          size |-> Min(Sizes), page |-> 0]

BeginTableLoad(s, t) ==
    [Fresh EXCEPT !.table = t, !.dialog = s.dialog, !.size = s.size]

(* Slip: the ticks stay. *)
BeginKeepingTicks(s, sc) ==
    LET moved == s.pair # [table |-> sc.table, partition |-> sc.partition]
    IN  [s EXCEPT !.pair = [table |-> sc.table, partition |-> sc.partition], !.scope = sc,
                  !.ready = FALSE, !.failed = FALSE, !.rows = NoRows,
                  !.page = IF moved THEN 0 ELSE @, !.total = IF moved THEN None ELSE @]
BeginRowsLoad(s, sc) ==
    LET pair  == [table |-> sc.table, partition |-> sc.partition]
        moved == s.pair # pair
    IN  [s EXCEPT !.pair = pair, !.scope = sc, !.ready = FALSE, !.failed = FALSE,
                  !.rows = NoRows, !.checked = {},
                  !.page = IF moved THEN 0 ELSE @,
                  !.total = IF moved THEN None ELSE @]

(* An answer about a table or a window of it that the pane has left is dropped; *)
(* one that carries the selected partition also says how many rows that holds.  *)
SetPartitionDetails(s, t, page, answer) ==
    IF s.table # t \/ s.panePage # page THEN s
    ELSE LET selected == {m \in answer.data : s.pair = [table |-> t, partition |-> m.key]}
         IN  [s EXCEPT !.pane = answer, !.paneTotal = answer.amount,
                       !.total = IF selected = {} THEN @
                                 ELSE [of |-> s.pair, records |-> (CHOOSE m \in selected : TRUE).records]]

(* Slip: whatever answer comes last is shown. *)
SetRowsOfAnyWindow(s, sc, answer) ==
    IF s.scope = None THEN s ELSE [s EXCEPT !.rows = answer, !.ready = TRUE]

SetRows(s, sc, answer) ==
    IF s.scope # sc THEN s ELSE [s EXCEPT !.rows = answer, !.ready = TRUE]

ClearRowsScope(s) == [s EXCEPT !.scope = None, !.ready = FALSE]

CloseDialog(s) == [s EXCEPT !.dialog = None]

-----------------------------------------------------------------------------
(* The server.                                                             *)

Records(t) == {p \in DOMAIN db[t] : db[t][p] # {}}

AnswerPartitions(t, page) ==
    [of |-> [table |-> t, page |-> page],
     amount |-> Cardinality(Records(t)),
     data |-> {[key |-> p, records |-> Cardinality(db[t][p])] :
                 p \in Window(Records(t), page * PaneSize, PaneSize)}]

AnswerRows(sc) ==
    [of |-> sc,
     keys |-> Window(db[sc.table][sc.partition], sc.skip, sc.limit)]

(* A row, or rows of several partitions, by key: what is not there is left out. *)
DeleteRow(t, p, k)   == [db EXCEPT ![t][p] = @ \ {k}]
BulkDelete(t, named) == [db EXCEPT ![t] = [p \in DOMAIN @ |->
                            IF p \in DOMAIN named THEN @[p] \ named[p] ELSE @[p]]]

-----------------------------------------------------------------------------
(* Tasks.  One in flight waits for the answer to what it has asked, or     *)
(* sleeps between two polls.  The server acts the moment it is asked, and  *)
(* the answer arrives at any later moment: it may always be out of date.   *)

NoTask == [kind |-> None]
Free   == {i \in Slots : flights[i] = NoTask}
Launch(task) == /\ Free # {}
                /\ flights' = [flights EXCEPT ![Min(Free)] = task]

Answer(task) ==
    CASE task.kind \in {"poll", "turn"} -> AnswerPartitions(task.table, task.page)
      [] task.kind = "rows" -> AnswerRows(task.scope)
Ask(task) == [task EXCEPT !.answer = Answer(task), !.sleeps = FALSE]
PartitionsTask(kind, t, page, jump) ==
    [kind |-> kind, table |-> t, page |-> page, jump |-> jump, answer |-> None, sleeps |-> TRUE]
RowsTask(sc) == [kind |-> "rows", scope |-> sc, answer |-> None, sleeps |-> TRUE]

(* A render spawns a load for what the URL names and the state is not about,    *)
(* and the browser polls the new task before it takes the next event; two tasks *)
(* of the same load are one, for the second finds the load begun.               *)
LoadTable ==
    /\ route.table # None /\ cs.table # route.table
    /\ cs' = BeginTableLoad(cs, route.table)
    /\ Launch(Ask(PartitionsTask("poll", route.table, 0, route.partition = None)))
    /\ UNCHANGED <<route, db, ticked, clicks>>

(* Slip: only another partition is a reason to ask, as it was before pages were. *)
LoadRowsByPair ==
    /\ route.partition # None
    /\ cs.scope = None \/ cs.pair # [table |-> route.table, partition |-> route.partition]
    /\ cs' = BeginRowsLoad(cs, Scope(route, cs))
    /\ Launch(Ask(RowsTask(Scope(route, cs))))
    /\ UNCHANGED <<route, db, ticked, clicks>>

LoadRows ==
    /\ route.partition # None /\ cs.scope # Scope(route, cs)
    /\ cs' = BeginRowsLoad(cs, Scope(route, cs))
    /\ Launch(Ask(RowsTask(Scope(route, cs))))
    /\ UNCHANGED <<route, db, ticked, clicks>>

(* A further pass of the loop, or its end once another table is selected. *)
Wake(i) ==
    LET task == flights[i]
    IN  /\ task.kind = "poll" /\ task.sleeps
        /\ flights' = [flights EXCEPT ![i] = IF cs.table # task.table THEN NoTask
                                              ELSE Ask([task EXCEPT !.page = cs.panePage])]
        /\ UNCHANGED <<route, cs, db, ticked, clicks>>

Ends(i) == flights' = [flights EXCEPT ![i] = NoTask]

PollSleeps(i) == flights' = [flights EXCEPT ![i] = [@ EXCEPT !.sleeps = TRUE, !.jump = FALSE,
                                                          !.answer = None]]

(* A table of a single partition is opened on it, on the loop's first answer *)
(* and if the URL named no partition when the loop was spawned.              *)
DeliverPoll(i) ==
    LET task == flights[i]
        a    == task.answer
    IN  /\ task.kind = "poll" /\ ~ task.sleeps
        /\ cs' = SetPartitionDetails(cs, task.table, task.page, a)
        /\ PollSleeps(i)
        /\ route' = IF task.jump /\ a.amount = 1 /\ a.data # {}
                    THEN AtPartition(task.table, (CHOOSE m \in a.data : TRUE).key)
                    ELSE route
        /\ UNCHANGED <<db, ticked, clicks>>

DeliverTurn(i) ==
    LET task == flights[i]
    IN  /\ task.kind = "turn"
        /\ cs' = SetPartitionDetails(cs, task.table, task.page, task.answer)
        /\ Ends(i)
        /\ UNCHANGED <<route, db, ticked, clicks>>

DeliverRows(i) ==
    LET task == flights[i]
    IN  /\ task.kind = "rows"
        /\ cs' = SetRows(cs, task.scope, task.answer)
        /\ Ends(i)
        /\ UNCHANGED <<route, db, ticked, clicks>>

(* Every write asks whether the write window is open first (a refusal is a *)
(* failure) and only then sends itself: from then on the rows are gone.     *)
DeliverGate(i) ==
    LET task == flights[i]
        what == task.what
    IN  /\ task.kind = "gate"
        /\ flights' = [flights EXCEPT ![i].kind = "delete"]
        /\ db' = IF what.kind = "one" THEN DeleteRow(task.table, what.partition, CHOOSE k \in what.keys : TRUE)
                 ELSE BulkDelete(task.table, [p \in {what.partition} |-> what.keys])
        /\ UNCHANGED <<route, cs, ticked, clicks>>

(* The dialog is closed, the ticks of what was deleted go (all of them after a *)
(* pasted deletion), the rows are asked for again and the drawer is left.      *)
DeliverDelete(i) ==
    LET task == flights[i]
        left == IF task.what.kind = "paste" THEN {} ELSE cs.checked \ task.what.keys
    IN  /\ task.kind = "delete"
        /\ cs' = ClearRowsScope(CloseDialog([cs EXCEPT !.checked = left]))
        /\ Ends(i)
        /\ route' = IF task.what.kind = "one" /\ task.back # None
                    THEN AtPartition(task.table, task.back) ELSE route
        /\ UNCHANGED <<db, ticked, clicks>>

Deliver(i) == flights[i] # NoTask /\ (\/ DeliverPoll(i) \/ DeliverTurn(i) \/ DeliverRows(i)
                                      \/ DeliverGate(i) \/ DeliverDelete(i))

(* A request fails, or its answer is lost: a poll goes on, rows stay "loading",   *)
(* the error of a write is shown in the dialog, which stays, the ticks with it.   *)
Fail(i) ==
    LET task == flights[i]
    IN  /\ task # NoTask /\ (task.kind = "poll" => ~ task.sleeps)
        /\ IF task.kind = "poll" THEN PollSleeps(i) ELSE Ends(i)
        /\ cs' = IF task.kind = "rows" /\ cs.scope = task.scope /\ ~ cs.ready
                 THEN [cs EXCEPT !.failed = TRUE] ELSE cs
        /\ UNCHANGED <<route, db, ticked, clicks>>

-----------------------------------------------------------------------------
(* The user.  An open dialog covers the page: under it only the dialog's   *)
(* own buttons and the browser's are reachable.                            *)

Click == /\ clicks < MaxClicks
         /\ clicks' = clicks + 1
         /\ UNCHANGED db
PageClick == Click /\ cs.dialog = None

SelectTable(t) ==
    /\ PageClick
    /\ route' = AtTable(t)
    /\ UNCHANGED <<cs, flights, ticked>>

SelectPartition(p) ==
    /\ PageClick
    /\ cs.pane # None /\ cs.table = route.table
    /\ \E m \in cs.pane.data : m.key = p
    /\ route' = AtPartition(route.table, p)
    /\ UNCHANGED <<cs, flights, ticked>>

RowClick(k) ==
    /\ PageClick
    /\ k \in Visible
    /\ route' = [route EXCEPT !.row = k]
    /\ UNCHANGED <<cs, flights, ticked>>

(* The browser's own Back and Forward, which a dialog does not cover. *)
Browse(t, p) ==
    /\ Click
    /\ route' = AtPartition(t, p)
    /\ UNCHANGED <<cs, flights, ticked>>

(* The pane's pager, hidden when there is one page: one back or one on. *)
Turns == LET last  == Pages(cs.paneTotal, PaneSize) - 1
             shown == Min({cs.panePage, last})
         IN  {shown - 1, shown + 1} \cap 0 .. last

TurnPartitionsPage(page) ==
    /\ PageClick
    /\ route.table # None /\ cs.table = route.table
    /\ cs.paneTotal > PaneSize /\ page \in Turns
    /\ cs' = [cs EXCEPT !.panePage = page, !.pane = None]
    /\ Launch(Ask(PartitionsTask("turn", route.table, page, FALSE)))
    /\ UNCHANGED <<route, ticked>>

(* The footer's pager, there with a table and hidden under an empty first page  *)
(* of a partition that counts no rows: first, previous, next and last, and no   *)
(* last page while nobody has counted, when only a full window says that there  *)
(* is a next one.  The count is of cs.pair, whatever the URL names.             *)
PagerShown == /\ route.table # None
              /\ Visible # {} \/ CurrentPage(route, cs) > 0 \/ (cs.total # None /\ cs.total.records > 0)
Offered == LET now  == CurrentPage(route, cs)
               last == IF cs.total # None THEN Pages(cs.total.records, cs.size) - 1
                       ELSE now + (IF Cardinality(Visible) < cs.size THEN 0 ELSE 1)
           IN  {0, Max({0, now - 1}), Min({now + 1, last}), last} \ {now}

SetPage(page) ==
    /\ PageClick
    /\ PagerShown /\ page \in Offered
    /\ cs' = [cs EXCEPT !.page = page]
    /\ UNCHANGED <<route, flights, ticked>>

SetPageSize(size) ==
    /\ PageClick
    /\ PagerShown /\ size # cs.size
    /\ cs' = [cs EXCEPT !.size = size, !.page = 0]
    /\ UNCHANGED <<route, flights, ticked>>

Refresh ==
    /\ PageClick
    /\ route.table # None
    /\ cs' = ClearRowsScope(cs)
    /\ UNCHANGED <<route, flights, ticked>>

RowOf(k) == [table |-> route.table, partition |-> route.partition, key |-> k]

ToggleRow(k) ==
    /\ PageClick
    /\ k \in Visible
    /\ cs' = [cs EXCEPT !.checked = IF k \in @ THEN @ \ {k} ELSE @ \cup {k}]
    /\ ticked' = IF k \in cs.checked THEN ticked \ {RowOf(k)} ELSE ticked \cup {RowOf(k)}
    /\ UNCHANGED <<route, flights>>

(* The box over the rows, which ticks or unticks those on display. *)
ToggleAll ==
    /\ PageClick
    /\ Visible # {}
    /\ IF Visible \subseteq cs.checked
       THEN /\ cs' = [cs EXCEPT !.checked = @ \ Visible]
            /\ ticked' = ticked \ {RowOf(k) : k \in Visible}
       ELSE /\ cs' = [cs EXCEPT !.checked = @ \cup Visible]
            /\ ticked' = ticked \cup {RowOf(k) : k \in Visible}
    /\ UNCHANGED <<route, flights>>

(* The bulk bar, there while a row on display has a tick. *)
ClearTicks ==
    /\ PageClick
    /\ Visible \cap cs.checked # {}
    /\ cs' = [cs EXCEPT !.checked = {}]
    /\ ticked' = {}
    /\ UNCHANGED <<route, flights>>

Dialog(kind, p, keys) == [kind |-> kind, table |-> route.table, partition |-> p, keys |-> keys]
OpenDialog(d) ==
    /\ PageClick
    /\ cs' = [cs EXCEPT !.dialog = d]
    /\ UNCHANGED <<route, flights, ticked>>

(* What a pasted list comes to in one partition: one list tells what any other would. *)
PastedKeys == {Min(Keys)}

(* The drawer's row, the ticked rows of the window on display, or a pasted list. *)
OpenDelete == /\ RowsReady /\ route.row \in Visible
              /\ OpenDialog(Dialog("one", route.partition, {route.row}))
OpenBulk   == /\ Visible \cap cs.checked # {}
              /\ OpenDialog(Dialog("bulk", route.partition, Visible \cap cs.checked))
OpenPaste(p) == /\ route.table # None
                /\ OpenDialog(Dialog("paste", p, PastedKeys))

Cancel ==
    /\ Click
    /\ cs.dialog # None
    /\ cs' = CloseDialog(cs)
    /\ UNCHANGED <<route, flights, ticked>>

(* The table is the one of the URL at this moment; what is deleted from it is *)
(* what the dialog was opened with.                                           *)
Confirm ==
    /\ Click
    /\ cs.dialog # None /\ route.table # None
    /\ Launch([kind |-> "gate", table |-> route.table, what |-> cs.dialog, back |-> route.partition])
    /\ UNCHANGED <<route, cs, ticked>>

-----------------------------------------------------------------------------
Init ==
    /\ route = Root /\ cs = Fresh
    /\ flights = [i \in Slots |-> NoTask]
    /\ db = Rows
    /\ ticked = {} /\ clicks = 0

User ==
    \/ \E t \in Tables : SelectTable(t) \/ \E p \in DOMAIN db[t] : Browse(t, p)
    \/ \E p \in Partitions : SelectPartition(p) \/ OpenPaste(p)
    \/ \E k \in Keys : RowClick(k) \/ ToggleRow(k)
    \/ \E page \in 0 .. Cardinality(Keys) : TurnPartitionsPage(page) \/ SetPage(page)
    \/ \E size \in Sizes : SetPageSize(size)
    \/ Refresh \/ ToggleAll \/ ClearTicks \/ OpenDelete \/ OpenBulk \/ Cancel \/ Confirm

Tasks == \/ LoadTable \/ LoadRows
         \/ \E i \in Slots : Wake(i) \/ Deliver(i) \/ Fail(i)

Next == User \/ Tasks

(* The browser keeps rendering and polling tasks, and every request is answered *)
(* or fails.                                                                    *)
Fairness == /\ WF_vars(LoadTable \/ LoadRows)
            /\ \A i \in Slots : WF_vars(Wake(i) \/ Deliver(i) \/ Fail(i))

Spec == Init /\ [][Next]_vars /\ Fairness

-----------------------------------------------------------------------------
Choice(S) == S \cup {None}
Routes    == [table : Choice(Tables), partition : Choice(Partitions), row : Choice(Keys)]
Scopes    == [table : Tables, partition : Partitions, skip : Nat, limit : Sizes]
Pairs     == [table : Tables, partition : Partitions]

ASSUME NoneAssumption ==
    /\ None \notin Tables /\ None \notin Partitions /\ None \notin Keys
    /\ None \notin Scopes /\ None \notin Pairs
    /\ None \notin {"poll", "turn", "rows", "gate", "delete"}

(* Types: the URL is a path, whatever is ready is about something, at most  *)
(* one load is behind what is ready, and only pages that exist are asked.   *)
TypeOK ==
    /\ route \in Routes
    /\ route.partition # None => route.table # None
    /\ cs.scope \in Choice(Scopes) /\ cs.pair \in Choice(Pairs)
    /\ cs.ready \in BOOLEAN /\ (cs.ready => cs.scope # None)
    /\ cs.checked \subseteq Keys /\ cs.size \in Sizes /\ cs.page \in Nat
    /\ cs.pane # None => cs.table # None
    /\ clicks \in 0 .. MaxClicks
    /\ \A t \in Tables : \A p \in DOMAIN db[t] : db[t][p] \subseteq Rows[t][p]

(* The rows on display are the server's answer to the very window the URL names, *)
(* the page and its size included, whatever order the answers came in.           *)
RowsAreOfTheWindow == RowsReady => cs.rows.of = Scope(route, cs)

(* The pane lists the window it is turned to, of the table that is loaded: a late *)
(* answer of a poll or of a page turn never takes its place.                      *)
PaneIsOfTheWindow == cs.pane # None => /\ cs.pane.of.table = cs.table
                                       /\ cs.pane.of.page = cs.panePage

(* While the window the URL names is loaded or loading, the pager counts the     *)
(* partition the URL names.  Under any other URL it may count the partition that *)
(* was left, see PagerIsOfTheSelection.                                          *)
TotalIsOfTheRows ==
    ScopeMatches /\ cs.total # None =>
        cs.total.of = [table |-> route.table, partition |-> route.partition]

(* Whatever order the answers come in, the rows on display and the pane belong to *)
(* what is selected, and so does the count the rows on display are paged by       *)
(* (data.rs:150-240, 503-520).                                                    *)
Inv == TypeOK /\ RowsAreOfTheWindow /\ PaneIsOfTheWindow /\ TotalIsOfTheRows

(* A bulk deletion offers only rows the user put a tick on, in the table and the *)
(* partition it is about: a tick never travels to a row of the same key.         *)
OnlyTickedRowsOffered ==
    (cs.dialog # None /\ cs.dialog.kind = "bulk") =>
        \A k \in cs.dialog.keys : \E row \in ticked :
            /\ row.table = cs.dialog.table /\ row.partition = cs.dialog.partition /\ row.key = k

(* Once the user stops, the partition in the URL is on display, or its request *)
(* has failed: no render, poll or late answer leaves the page loading for ever. *)
Settles == <>[](route.partition # None => RowsReady \/ cs.failed)

(* What a dialog names is deleted from the table it was opened over (the one *)
(* with a pasted list shows the table of the URL instead).                   *)
DeletesWhatTheDialogShowed ==
    \A i \in Slots : flights[i].kind = "delete" /\ flights[i].what.kind # "paste"
                        => flights[i].table = flights[i].what.table

(* The count the footer works off is of "the selected partition" (data.rs:75).  *)
(* It outlives the selection: back on the table alone, the footer stays with    *)
(* the count and the buttons of the partition that was left.                    *)
PagerIsOfTheSelection ==
    PagerShown /\ cs.total # None =>
        cs.total.of = [table |-> route.table, partition |-> route.partition]

(* An empty page of the pane still has a pager to get back with, as an empty  *)
(* page of the rows has.                                                      *)
EmptyPaneHasPager ==
    cs.pane # None /\ cs.pane.data = {} /\ cs.panePage > 0 => cs.paneTotal > PaneSize

(* Only the user, and answers about the table that is selected, move the URL. *)
LateAnswersLeaveTheRoute ==
    [][clicks' = clicks /\ route' # route => route'.table = route.table]_vars

=============================================================================
