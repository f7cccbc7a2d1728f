---------------------------- MODULE PagesProofs ----------------------------
(***************************************************************************)
(* The invariants of DataPage for any tables, rows, page sizes, clicks and *)
(* tasks in flight.  What the page shows is kept with what it is about: a  *)
(* scope with its partition, rows and ticks with the scope (PageOK); and   *)
(* what is on its way carries the question it answers (FlightOK), so that  *)
(* an answer that comes late is told from one that is awaited.             *)
(*                                                                         *)
(* And those of SettingsPage, whose inductive invariant is its own         *)
(* (SettingsIInv), for any thresholds, bodies, edits, failures and length  *)
(* of the windows.                                                         *)
(***************************************************************************)
EXTENDS DataPage, SettingsPage, FiniteSetTheorems, WellFoundedInduction, TLAPS

Named == Keys \cup PastedKeys
Counts == [key : Partitions, records : Nat]
PaneAnswers == [of : [table : Tables, page : Nat], amount : Nat, data : SUBSET Counts]
RowAnswers == [of : Choice(Scopes), keys : SUBSET Keys]
Totals == [of : Pairs, records : Nat]
Dialogs == [kind : {"one", "bulk", "paste"}, table : Tables, partition : Partitions,
            keys : SUBSET Named]
PageState ==
  [table : Choice(Tables), pane : Choice(PaneAnswers), paneTotal : Nat, panePage : Nat,
   scope : Choice(Scopes), ready : BOOLEAN, failed : BOOLEAN, pair : Choice(Pairs),
   rows : RowAnswers, total : Choice(Totals), dialog : Choice(Dialogs),
   checked : SUBSET Keys, size : Sizes, page : Nat]

PairOf(sc) == [table |-> sc.table, partition |-> sc.partition]
TickOf(pair, k) == [table |-> pair.table, partition |-> pair.partition, key |-> k]

(* An answer about the pane's window.                                        *)
Lists(a, t, page) ==
  /\ t \in Tables /\ a.of = [table |-> t, page |-> page]
  /\ \A m \in a.data : m.key \in DOMAIN Rows[t]

(* What the page shows, and what it is about; what is ticked or offered, and *)
(* what the user has put a tick on.                                          *)
PageOK(s, tk) ==
  /\ s \in PageState
  /\ s.ready => s.scope # None /\ s.rows.of = s.scope
  /\ s.scope # None => s.pair = PairOf(s.scope)
  /\ s.pane # None => Lists(s.pane, s.table, s.panePage)
  /\ s.total # None => s.total.of = s.pair
  /\ \A k \in s.checked : TickOf(s.pair, k) \in tk
  /\ s.dialog # None /\ s.dialog.kind = "bulk" =>
       \A k \in s.dialog.keys : TickOf(s.dialog, k) \in tk

(* What a task has asked, and what it was told.                              *)
Listing(f) ==
  /\ f \in [kind : {"poll", "turn"}, table : Tables, page : Nat, jump : BOOLEAN,
            answer : Choice(PaneAnswers), sleeps : BOOLEAN]
  /\ f.kind = "turn" => ~ f.sleeps
  /\ ~ f.sleeps => f.answer \in PaneAnswers /\ Lists(f.answer, f.table, f.page)
Reading(f) ==
  /\ f \in [kind : {"rows"}, scope : Scopes, answer : RowAnswers, sleeps : {FALSE}]
  /\ f.answer.of = f.scope
Writing(f) ==
  /\ f \in [kind : {"gate", "delete"}, table : Tables, what : Dialogs, back : Choice(Partitions)]
  /\ f.back # None => f.back \in DOMAIN Rows[f.table]
FlightOK(f) == f = NoTask \/ Listing(f) \/ Reading(f) \/ Writing(f)
FlightsOK == DOMAIN flights = Slots /\ \A i \in Slots : FlightOK(flights[i])

RouteOK(r) ==
  /\ r \in Routes
  /\ r.partition # None => r.table # None /\ r.partition \in DOMAIN Rows[r.table]

Stored ==
  /\ DOMAIN db = Tables
  /\ \A t \in Tables : /\ DOMAIN db[t] = DOMAIN Rows[t]
                       /\ \A p \in DOMAIN Rows[t] : db[t][p] \subseteq Rows[t][p]

IInv ==
  /\ RouteOK(route)
  /\ PageOK(cs, ticked)
  /\ FlightsOK
  /\ Stored
  /\ clicks \in 0 .. MaxClicks

-----------------------------------------------------------------------------
(* Numbers of pages, and windows.                                            *)

LEMMA LeastExists ==
  ASSUME NEW S, S \subseteq Nat, S # {}
  PROVE  \E n \in S : \A m \in S : n <= m
<1> DEFINE Below(n) == 0 .. n - 1
           T == {Below(n) : n \in S}
<1>1. T \subseteq FiniteSubsetsOf(Nat) /\ T # {}
  <2>1. \A n \in S : n \in Nat /\ n - 1 \in Int
    OBVIOUS
  <2>2. \A n \in S : IsFiniteSet(Below(n)) /\ Below(n) \subseteq Nat
    BY <2>1, FS_Interval
  <2> HIDE DEF Below
  <2> QED BY <2>2 DEF FiniteSubsetsOf
<1>2. PICK least \in T : \A other \in T : <<other, least>> \notin StrictSubsetOrdering(Nat)
  <2> HIDE DEF T
  <2> QED BY <1>1, FS_StrictSubsetOrderingWellFounded, WFMin
<1>3. PICK n \in S : least = Below(n)
  OBVIOUS
<1>4. \A m \in S : ~ (m < n)
  <2> SUFFICES ASSUME NEW m \in S, m < n PROVE FALSE
    OBVIOUS
  <2>1. Below(m) \in T /\ Below(m) \subseteq Below(n) /\ Below(m) # Below(n)
    <3>1. m \in Below(n) /\ m \notin Below(m)
      OBVIOUS
    <3> QED BY <3>1
  <2>2. <<Below(m), Below(n)>> \in StrictSubsetOrdering(Nat)
    BY <2>1 DEF StrictSubsetOrdering
  <2> QED BY <1>2, <1>3, <2>1, <2>2
<1> QED BY <1>3, <1>4

LEMMA SmallestSize == Min(Sizes) \in Sizes /\ Sizes \subseteq Nat \ {0}
<1>1. \E n \in Sizes : \A m \in Sizes : n <= m
  BY LeastExists, DataPageAssumption
<1> QED BY <1>1, DataPageAssumption DEF Min

LEMMA PagesAre ==
  ASSUME NEW n \in Nat, NEW size \in Nat \ {0}
  PROVE  Pages(n, size) - 1 \in Nat
<1> DEFINE x == (n + size - 1) \div size
<1>1. x \in Int
  OBVIOUS
<1>2. Pages(n, size) = Max({1, x})
  BY DEF Pages
<1> HIDE DEF x
<1>3. \E y \in {1, x} : \A z \in {1, x} : y >= z
  BY <1>1
<1>4. Max({1, x}) \in {1, x} /\ Max({1, x}) >= 1
  BY <1>3 DEF Max
<1> QED BY <1>1, <1>2, <1>4

LEMMA CurrentPageIs ==
  ASSUME NEW r, NEW s, s \in PageState
  PROVE  CurrentPage(r, s) \in Nat
<1> DEFINE stored == IF s.pair = [table |-> r.table, partition |-> r.partition]
                     THEN s.page ELSE 0
<1>1. stored \in Nat
  BY DEF PageState
<1>2. CASE s.total = None
  BY <1>1, <1>2 DEF CurrentPage
<1>3. CASE s.total # None
  <2> DEFINE last == Pages(s.total.records, s.size) - 1
  <2>1. last \in Nat
    <3>1. s.total \in Totals /\ s.size \in Nat \ {0}
      BY <1>3, SmallestSize DEF PageState, Choice
    <3> QED BY <3>1, PagesAre DEF Totals
  <2>2. CurrentPage(r, s) = Min({stored, last})
    BY <1>3 DEF CurrentPage
  <2> HIDE DEF stored, last
  <2>3. \E y \in {stored, last} : \A z \in {stored, last} : y <= z
    BY <1>1, <2>1
  <2>4. Min({stored, last}) \in {stored, last}
    BY <2>3 DEF Min
  <2> QED BY <1>1, <2>1, <2>2, <2>4
<1> QED BY <1>2, <1>3

LEMMA ScopeIs ==
  ASSUME NEW r, RouteOK(r), NEW s, s \in PageState, r.partition # None
  PROVE  /\ Scope(r, s) \in Scopes
         /\ Scope(r, s).table = r.table /\ Scope(r, s).partition = r.partition
         /\ r.table \in Tables /\ r.partition \in DOMAIN Rows[r.table]
<1>1. r.table \in Tables /\ r.partition \in Partitions /\ r.partition \in DOMAIN Rows[r.table]
  BY DEF RouteOK, Routes, Choice
<1> DEFINE page == CurrentPage(r, s)
<1>2. page \in Nat /\ s.size \in Sizes /\ s.size \in Nat
  BY CurrentPageIs, SmallestSize DEF PageState
<1> HIDE DEF page
<1>3. page * s.size \in Nat
  BY <1>2
<1>4. Scope(r, s) = [table |-> r.table, partition |-> r.partition,
                     skip |-> page * s.size, limit |-> s.size]
  BY DEF Scope, page
<1> QED BY <1>1, <1>2, <1>3, <1>4 DEF Scopes

LEMMA WindowIs ==
  ASSUME NEW keys, NEW skip, NEW limit
  PROVE  Window(keys, skip, limit) \subseteq keys
BY DEF Window

(* What is on display is ticked and offered under the name it is shown by.   *)
LEMMA VisibleIs ==
  ASSUME RouteOK(route), PageOK(cs, ticked), Visible # {}
  PROVE  /\ Visible \subseteq Keys /\ route.partition # None
         /\ cs.pair = [table |-> route.table, partition |-> route.partition]
         /\ route.table \in Tables /\ route.partition \in Partitions
<1>1. ScopeMatches /\ Visible = cs.rows.keys
  BY DEF Visible
<1>2. cs \in PageState /\ cs.scope = Scope(route, cs) /\ route.partition # None
  BY <1>1 DEF ScopeMatches, PageOK
<1>3. /\ cs.scope \in Scopes /\ cs.scope.table = route.table
      /\ cs.scope.partition = route.partition
  BY <1>2, ScopeIs
<1>4. cs.pair = PairOf(cs.scope)
  BY <1>3, NoneAssumption DEF PageOK
<1>5. Visible \subseteq Keys
  BY <1>1, <1>2 DEF PageState, RowAnswers
<1> QED BY <1>2, <1>3, <1>4, <1>5 DEF PairOf, Scopes

-----------------------------------------------------------------------------
(* Answers, and tasks.                                                       *)

LEMMA AnswerPartitionsIs ==
  ASSUME Stored, NEW t \in Tables, NEW page \in Nat
  PROVE  AnswerPartitions(t, page) \in PaneAnswers /\ Lists(AnswerPartitions(t, page), t, page)
<1> DEFINE a == AnswerPartitions(t, page)
<1>1. Records(t) \subseteq DOMAIN Rows[t] /\ DOMAIN Rows[t] \subseteq Partitions
  BY DEF Records, Stored, Partitions
<1>2. Cardinality(Records(t)) \in Nat
  BY <1>1, RowsAssumption, FS_Subset, FS_CardinalityType
<1>3. \A p \in DOMAIN Rows[t] : Cardinality(db[t][p]) \in Nat
  <2> TAKE p \in DOMAIN Rows[t]
  <2>1. db[t][p] \subseteq Rows[t][p] /\ IsFiniteSet(Rows[t][p])
    BY RowsAssumption DEF Stored
  <2> QED BY <2>1, FS_Subset, FS_CardinalityType
<1> DEFINE shown == Window(Records(t), page * PaneSize, PaneSize)
           data == {[key |-> p, records |-> Cardinality(db[t][p])] : p \in shown}
<1>4. shown \subseteq Records(t)
  BY WindowIs
<1>5. a = [of |-> [table |-> t, page |-> page], amount |-> Cardinality(Records(t)),
           data |-> data]
  BY DEF AnswerPartitions
<1> HIDE DEF a, shown
<1>6. \A m \in data : m \in Counts /\ m.key \in DOMAIN Rows[t]
  BY <1>1, <1>3, <1>4 DEF Counts
<1> HIDE DEF data
<1>7. a \in PaneAnswers /\ a.of = [table |-> t, page |-> page] /\ a.data = data
  BY <1>2, <1>5, <1>6 DEF PaneAnswers
<1> QED BY <1>6, <1>7 DEF Lists, a

LEMMA AnswerRowsIs ==
  ASSUME Stored, NEW sc \in Scopes, sc.partition \in DOMAIN Rows[sc.table]
  PROVE  AnswerRows(sc) \in RowAnswers /\ AnswerRows(sc).of = sc
<1> DEFINE keys == Window(db[sc.table][sc.partition], sc.skip, sc.limit)
<1>1. keys \subseteq db[sc.table][sc.partition]
  BY WindowIs
<1>2. db[sc.table][sc.partition] \subseteq Keys
  BY DEF Stored, Scopes, Keys
<1> HIDE DEF keys
<1>3. AnswerRows(sc) = [of |-> sc, keys |-> keys]
  BY DEF AnswerRows, keys
<1> QED BY <1>1, <1>2, <1>3 DEF RowAnswers, Choice

LEMMA AskListing ==
  ASSUME Stored, NEW f,
         f \in [kind : {"poll", "turn"}, table : Tables, page : Nat, jump : BOOLEAN,
                answer : Choice(PaneAnswers), sleeps : BOOLEAN]
  PROVE  Listing(Ask(f))
<1> DEFINE a == AnswerPartitions(f.table, f.page)
           r == [f EXCEPT !.answer = a, !.sleeps = FALSE]
<1>1. a \in PaneAnswers /\ Lists(a, f.table, f.page)
  BY AnswerPartitionsIs
<1>2. Ask(f) = r
  <2>1. Answer(f) = a
    BY DEF Answer
  <2> QED BY <2>1 DEF Ask
<1> HIDE DEF a
<1>3. /\ r \in [kind : {"poll", "turn"}, table : Tables, page : Nat, jump : BOOLEAN,
                answer : Choice(PaneAnswers), sleeps : BOOLEAN]
      /\ r.sleeps = FALSE /\ r.answer = a /\ r.table = f.table /\ r.page = f.page
  BY <1>1 DEF Choice
<1> HIDE DEF r
<1> QED BY <1>1, <1>2, <1>3 DEF Listing

LEMMA AskPartitions ==
  ASSUME Stored, NEW kind \in {"poll", "turn"}, NEW t \in Tables, NEW page \in Nat,
         NEW jump \in BOOLEAN
  PROVE  FlightOK(Ask(PartitionsTask(kind, t, page, jump)))
<1>1. PartitionsTask(kind, t, page, jump)
        \in [kind : {"poll", "turn"}, table : Tables, page : Nat, jump : BOOLEAN,
             answer : Choice(PaneAnswers), sleeps : BOOLEAN]
  BY DEF PartitionsTask, Choice
<1> QED BY <1>1, AskListing DEF FlightOK

LEMMA AskRows ==
  ASSUME Stored, NEW sc \in Scopes, sc.partition \in DOMAIN Rows[sc.table]
  PROVE  FlightOK(Ask(RowsTask(sc)))
<1> DEFINE f == RowsTask(sc)
           a == AnswerRows(sc)
<1>1. a \in RowAnswers /\ a.of = sc
  BY AnswerRowsIs
<1>2. f = [kind |-> "rows", scope |-> sc, answer |-> None, sleeps |-> TRUE]
  BY DEF RowsTask
<1>3. Ask(f) = [f EXCEPT !.answer = a, !.sleeps = FALSE]
  <2>1. Answer(f) = a
    BY <1>2 DEF Answer
  <2> QED BY <2>1 DEF Ask
<1> HIDE DEF f, a
<1>4. Ask(f) = [kind |-> "rows", scope |-> sc, answer |-> a, sleeps |-> FALSE]
  BY <1>2, <1>3
<1>5. Reading(Ask(f))
  BY <1>1, <1>4 DEF Reading
<1> QED BY <1>5 DEF FlightOK, f

LEMMA FlightSet ==
  ASSUME FlightsOK, NEW i, NEW f, FlightOK(f), flights' = [flights EXCEPT ![i] = f]
  PROVE  FlightsOK'
BY DEF FlightsOK

LEMMA LaunchOK ==
  ASSUME FlightsOK, NEW f, FlightOK(f), Launch(f)
  PROVE  FlightsOK'
BY FlightSet DEF Launch

-----------------------------------------------------------------------------
(* The transitions of the page's state.                                      *)

LEMMA FreshIs ==
  /\ Fresh \in PageState
  /\ Fresh.pane = None /\ Fresh.scope = None /\ Fresh.ready = FALSE /\ Fresh.pair = None
  /\ Fresh.total = None /\ Fresh.dialog = None /\ Fresh.checked = {}
<1>1. NoRows \in RowAnswers
  BY DEF NoRows, RowAnswers, Choice
<1> QED BY <1>1, SmallestSize DEF Fresh, PageState, Choice

LEMMA BeginTableLoadOK ==
  ASSUME NEW s, NEW tk, PageOK(s, tk), NEW t \in Tables
  PROVE  PageOK(BeginTableLoad(s, t), tk)
<1> DEFINE r == BeginTableLoad(s, t)
<1>1. s \in PageState
  BY DEF PageOK
<1>2. /\ r \in PageState /\ r.dialog = s.dialog
      /\ r.pane = None /\ r.scope = None /\ r.ready = FALSE /\ r.total = None /\ r.checked = {}
  <2>1. r = [Fresh EXCEPT !.table = t, !.dialog = s.dialog, !.size = s.size]
    BY DEF BeginTableLoad
  <2>2. t \in Choice(Tables) /\ s.dialog \in Choice(Dialogs) /\ s.size \in Sizes
    BY <1>1 DEF PageState, Choice
  <2> HIDE DEF r
  <2> QED BY <2>1, <2>2, FreshIs DEF PageState
<1> HIDE DEF r
<1>3. PageOK(r, tk)
  BY <1>2 DEF PageOK
<1> QED BY <1>3 DEF r

LEMMA BeginRowsLoadOK ==
  ASSUME NEW s, NEW tk, PageOK(s, tk), NEW sc \in Scopes
  PROVE  PageOK(BeginRowsLoad(s, sc), tk)
<1> DEFINE r == BeginRowsLoad(s, sc)
           moved == s.pair # PairOf(sc)
<1>1. s \in PageState
  BY DEF PageOK
<1>2. PairOf(sc) \in Choice(Pairs) /\ sc \in Choice(Scopes) /\ NoRows \in RowAnswers
  BY DEF PairOf, Pairs, Scopes, Choice, NoRows, RowAnswers
<1>3. r = [s EXCEPT !.pair = PairOf(sc), !.scope = sc, !.ready = FALSE, !.failed = FALSE,
                    !.rows = NoRows, !.checked = {},
                    !.page = IF moved THEN 0 ELSE s.page,
                    !.total = IF moved THEN None ELSE s.total]
  BY DEF BeginRowsLoad, PairOf
<1> HIDE DEF r, moved
<1>4. /\ r \in PageState /\ r.pair = PairOf(sc) /\ r.scope = sc /\ r.ready = FALSE
      /\ r.checked = {} /\ r.total = (IF moved THEN None ELSE s.total)
      /\ r.dialog = s.dialog /\ r.pane = s.pane /\ r.table = s.table /\ r.panePage = s.panePage
  <2>1. (IF moved THEN 0 ELSE s.page) \in Nat
        /\ (IF moved THEN None ELSE s.total) \in Choice(Totals)
    BY <1>1 DEF PageState, Choice
  <2> QED BY <1>1, <1>2, <1>3, <2>1 DEF PageState
<1>5. r.total # None => r.total.of = r.pair
  BY <1>4 DEF PageOK, moved
<1>6. PageOK(r, tk)
  BY <1>4, <1>5 DEF PageOK
<1> QED BY <1>6 DEF r

LEMMA SetPartitionDetailsOK ==
  ASSUME NEW s, NEW tk, PageOK(s, tk), NEW t \in Tables, NEW page \in Nat,
         NEW a \in PaneAnswers, Lists(a, t, page)
  PROVE  PageOK(SetPartitionDetails(s, t, page, a), tk)
<1> DEFINE r == SetPartitionDetails(s, t, page, a)
           selected == {m \in a.data : s.pair = [table |-> t, partition |-> m.key]}
           total == IF selected = {} THEN s.total
                    ELSE [of |-> s.pair, records |-> (CHOOSE m \in selected : TRUE).records]
<1>1. s \in PageState
  BY DEF PageOK
<1>2. CASE s.table # t \/ s.panePage # page
  <2>1. r = s
    BY <1>2 DEF SetPartitionDetails
  <2> QED BY <2>1
<1>3. CASE s.table = t /\ s.panePage = page
  <2>1. r = [s EXCEPT !.pane = a, !.paneTotal = a.amount, !.total = total]
    BY <1>3 DEF SetPartitionDetails
  <2>2. total \in Choice(Totals) /\ (total # None => total.of = s.pair)
    <3>1. CASE selected = {}
      BY <1>1, <3>1 DEF PageOK, PageState
    <3>2. CASE selected # {}
      <4> DEFINE m == CHOOSE x \in selected : TRUE
      <4>1. m \in selected
        BY <3>2
      <4> HIDE DEF m
      <4>2. m \in Counts /\ s.pair = [table |-> t, partition |-> m.key]
        BY <4>1 DEF PaneAnswers
      <4>3. s.pair \in Pairs /\ m.records \in Nat
        BY <4>2 DEF Counts, Pairs
      <4>4. total = [of |-> s.pair, records |-> m.records]
        BY <3>2 DEF m
      <4> HIDE DEF total
      <4> QED BY <4>3, <4>4 DEF Totals, Choice
    <3> QED BY <3>1, <3>2
  <2>3. a.amount \in Nat /\ a \in Choice(PaneAnswers)
    BY DEF PaneAnswers, Choice
  <2> HIDE DEF r, total, selected
  <2>4. /\ r \in PageState /\ r.pane = a /\ r.total = total
        /\ r.table = s.table /\ r.panePage = s.panePage /\ r.scope = s.scope
        /\ r.ready = s.ready /\ r.pair = s.pair /\ r.rows = s.rows /\ r.dialog = s.dialog
        /\ r.checked = s.checked
    BY <1>1, <2>1, <2>2, <2>3 DEF PageState
  <2>5. PageOK(r, tk)
    BY <1>3, <2>2, <2>4 DEF PageOK
  <2> QED BY <2>5 DEF r
<1> QED BY <1>2, <1>3

LEMMA SetRowsOK ==
  ASSUME NEW s, NEW tk, PageOK(s, tk), NEW sc \in Scopes, NEW a \in RowAnswers, a.of = sc
  PROVE  PageOK(SetRows(s, sc, a), tk)
<1> DEFINE r == SetRows(s, sc, a)
<1>1. s \in PageState
  BY DEF PageOK
<1>2. CASE s.scope # sc
  BY <1>2 DEF SetRows
<1>3. CASE s.scope = sc
  <2>1. r = [s EXCEPT !.rows = a, !.ready = TRUE]
    BY <1>3 DEF SetRows
  <2> HIDE DEF r
  <2>2. /\ r \in PageState /\ r.rows = a
        /\ r.table = s.table /\ r.panePage = s.panePage /\ r.scope = s.scope
        /\ r.pair = s.pair /\ r.total = s.total /\ r.dialog = s.dialog /\ r.pane = s.pane
        /\ r.checked = s.checked
    BY <1>1, <2>1 DEF PageState
  <2>3. PageOK(r, tk)
    BY <1>3, <2>2, NoneAssumption DEF PageOK
  <2> QED BY <2>3 DEF r
<1> QED BY <1>2, <1>3

(* What touches neither the scope nor what is shown of it.                   *)
LEMMA ClearRowsScopeOK ==
  ASSUME NEW s, NEW tk, PageOK(s, tk)
  PROVE  PageOK(ClearRowsScope(s), tk)
<1> DEFINE r == ClearRowsScope(s)
<1>1. s \in PageState /\ None \in Choice(Scopes)
  BY DEF PageOK, Choice
<1>2. r = [s EXCEPT !.scope = None, !.ready = FALSE]
  BY DEF ClearRowsScope
<1> HIDE DEF r
<1>3. /\ r \in PageState /\ r.scope = None /\ r.ready = FALSE
      /\ r.table = s.table /\ r.panePage = s.panePage
      /\ r.pair = s.pair /\ r.total = s.total /\ r.dialog = s.dialog /\ r.pane = s.pane
      /\ r.checked = s.checked
  BY <1>1, <1>2 DEF PageState
<1>4. PageOK(r, tk)
  BY <1>3 DEF PageOK
<1> QED BY <1>4 DEF r

LEMMA CloseDialogOK ==
  ASSUME NEW s, NEW tk, PageOK(s, tk)
  PROVE  PageOK(CloseDialog(s), tk) /\ CloseDialog(s).dialog = None
<1> DEFINE r == CloseDialog(s)
<1>1. s \in PageState /\ None \in Choice(Dialogs)
  BY DEF PageOK, Choice
<1>2. r = [s EXCEPT !.dialog = None]
  BY DEF CloseDialog
<1> HIDE DEF r
<1>3. /\ r \in PageState /\ r.dialog = None
      /\ r.table = s.table /\ r.panePage = s.panePage /\ r.scope = s.scope
      /\ r.ready = s.ready /\ r.rows = s.rows
      /\ r.pair = s.pair /\ r.total = s.total /\ r.pane = s.pane /\ r.checked = s.checked
  BY <1>1, <1>2 DEF PageState
<1>4. PageOK(r, tk)
  BY <1>3 DEF PageOK
<1> QED BY <1>3, <1>4 DEF r

(* Ticks are given and taken while no dialog is open.                        *)
LEMMA TicksOK ==
  ASSUME NEW s, NEW tk, PageOK(s, tk), s.dialog = None,
         NEW ch, ch \subseteq Keys, NEW now, \A k \in ch : TickOf(s.pair, k) \in now
  PROVE  PageOK([s EXCEPT !.checked = ch], now)
<1> DEFINE r == [s EXCEPT !.checked = ch]
<1>1. s \in PageState
  BY DEF PageOK
<1>2. /\ r \in PageState /\ r.checked = ch
      /\ r.table = s.table /\ r.panePage = s.panePage /\ r.scope = s.scope
      /\ r.ready = s.ready /\ r.rows = s.rows /\ r.dialog = s.dialog
      /\ r.pair = s.pair /\ r.total = s.total /\ r.pane = s.pane
  BY <1>1 DEF PageState
<1> HIDE DEF r
<1>3. PageOK(r, now)
  BY <1>2 DEF PageOK
<1> QED BY <1>3 DEF r

-----------------------------------------------------------------------------
(* The tasks.                                                                *)

LEMMA IInvParts ==
  ASSUME IInv
  PROVE  /\ RouteOK(route) /\ PageOK(cs, ticked) /\ FlightsOK /\ Stored
         /\ cs \in PageState /\ clicks \in 0 .. MaxClicks
BY DEF IInv, PageOK

LEMMA SameStored ==
  ASSUME Stored, db' = db
  PROVE  Stored'
BY DEF Stored

LEMMA AtTableOK ==
  ASSUME NEW t \in Tables
  PROVE  RouteOK(AtTable(t))
<1>1. AtTable(t) = [table |-> t, partition |-> None, row |-> None]
  BY DEF AtTable, Root
<1> QED BY <1>1 DEF RouteOK, Routes, Choice

LEMMA AtPartitionOK ==
  ASSUME NEW t \in Tables, NEW p \in DOMAIN Rows[t]
  PROVE  RouteOK(AtPartition(t, p))
<1> DEFINE r == AtPartition(t, p)
<1>1. p \in Partitions
  BY DEF Partitions
<1>2. r \in Routes /\ r.table = t /\ r.partition = p
  <2>1. Root \in Routes
    BY DEF Root, Routes, Choice
  <2> QED BY <1>1, <2>1 DEF AtPartition, Routes, Choice
<1> HIDE DEF r
<1>3. RouteOK(r)
  BY <1>2, NoneAssumption DEF RouteOK
<1> QED BY <1>3 DEF r

(* Which task it is tells what it carries.                                   *)
LEMMA FlightKinds ==
  ASSUME FlightsOK, NEW i \in Slots, NEW f, f = flights[i]
  PROVE  /\ f.kind \in {"poll", "turn"} => Listing(f)
         /\ f.kind = "rows" => Reading(f)
         /\ f.kind \in {"gate", "delete"} => Writing(f)
<1>1. FlightOK(f)
  BY DEF FlightsOK
<1>2. f = NoTask => f.kind \notin {"poll", "turn", "rows", "gate", "delete"}
  BY NoneAssumption DEF NoTask
<1>3. /\ Listing(f) => f.kind \in {"poll", "turn"}
      /\ Reading(f) => f.kind = "rows"
      /\ Writing(f) => f.kind \in {"gate", "delete"}
  BY DEF Listing, Reading, Writing
<1> QED BY <1>1, <1>2, <1>3 DEF FlightOK

LEMMA EndsOK ==
  ASSUME FlightsOK, NEW i, Ends(i)
  PROVE  FlightsOK'
BY FlightSet DEF Ends, FlightOK

LEMMA LoadTableStep ==
  ASSUME IInv, LoadTable
  PROVE  IInv'
<1>1. route.table \in Tables
  BY IInvParts DEF LoadTable, RouteOK, Routes, Choice
<1>2. PageOK(cs', ticked')
  BY <1>1, IInvParts, BeginTableLoadOK DEF LoadTable
<1>3. FlightsOK'
  <2>1. FlightOK(Ask(PartitionsTask("poll", route.table, 0, route.partition = None)))
    BY <1>1, IInvParts, AskPartitions
  <2> QED BY <2>1, IInvParts, LaunchOK DEF LoadTable
<1> QED BY <1>2, <1>3, IInvParts, SameStored DEF IInv, LoadTable

LEMMA LoadRowsStep ==
  ASSUME IInv, LoadRows
  PROVE  IInv'
<1> DEFINE sc == Scope(route, cs)
<1>1. sc \in Scopes /\ sc.partition \in DOMAIN Rows[sc.table]
  BY IInvParts, ScopeIs DEF LoadRows
<1>2. PageOK(cs', ticked')
  BY <1>1, IInvParts, BeginRowsLoadOK DEF LoadRows
<1>3. FlightsOK'
  <2>1. FlightOK(Ask(RowsTask(sc)))
    BY <1>1, IInvParts, AskRows
  <2> QED BY <2>1, IInvParts, LaunchOK DEF LoadRows
<1> QED BY <1>2, <1>3, IInvParts, SameStored DEF IInv, LoadRows

LEMMA WakeStep ==
  ASSUME IInv, NEW i \in Slots, Wake(i)
  PROVE  IInv'
<1> DEFINE f == flights[i]
           g == [f EXCEPT !.page = cs.panePage]
<1>1. Listing(f)
  BY IInvParts, FlightKinds DEF Wake
<1>2. cs.panePage \in Nat
  BY IInvParts DEF PageState
<1>3. g \in [kind : {"poll", "turn"}, table : Tables, page : Nat, jump : BOOLEAN,
             answer : Choice(PaneAnswers), sleeps : BOOLEAN]
  BY <1>1, <1>2 DEF Listing
<1>4. FlightOK(Ask(g)) /\ FlightOK(NoTask)
  BY <1>3, IInvParts, AskListing DEF FlightOK
<1>5. flights' = [flights EXCEPT ![i] = IF cs.table # f.table THEN NoTask ELSE Ask(g)]
  BY DEF Wake
<1> HIDE DEF g
<1>6. FlightsOK'
  BY <1>4, <1>5, IInvParts, FlightSet
<1> QED BY <1>6, IInvParts, SameStored DEF IInv, Wake

LEMMA PollSleepsOK ==
  ASSUME FlightsOK, NEW i \in Slots, flights[i].kind = "poll", PollSleeps(i)
  PROVE  FlightsOK'
<1> DEFINE f == flights[i]
           g == [f EXCEPT !.sleeps = TRUE, !.jump = FALSE, !.answer = None]
<1>1. Listing(f)
  BY FlightKinds
<1>2. Listing(g)
  <2>1. /\ g \in [kind : {"poll", "turn"}, table : Tables, page : Nat, jump : BOOLEAN,
                  answer : Choice(PaneAnswers), sleeps : BOOLEAN]
        /\ g.sleeps = TRUE /\ g.kind = "poll"
    BY <1>1 DEF Listing, Choice
  <2> QED BY <2>1 DEF Listing
<1>3. flights' = [flights EXCEPT ![i] = g]
  BY DEF PollSleeps
<1> HIDE DEF g
<1> QED BY <1>2, <1>3, FlightSet DEF FlightOK

LEMMA DeliverPollStep ==
  ASSUME IInv, NEW i \in Slots, DeliverPoll(i)
  PROVE  IInv'
<1> DEFINE f == flights[i]
           a == f.answer
<1>1. /\ f.kind = "poll" /\ f.table \in Tables /\ f.page \in Nat
      /\ a \in PaneAnswers /\ Lists(a, f.table, f.page)
  BY IInvParts, FlightKinds DEF DeliverPoll, Listing
<1>2. PageOK(cs', ticked')
  BY <1>1, IInvParts, SetPartitionDetailsOK DEF DeliverPoll
<1>3. FlightsOK'
  BY <1>1, IInvParts, PollSleepsOK DEF DeliverPoll
<1>4. RouteOK(route')
  <2>1. CASE f.jump /\ a.amount = 1 /\ a.data # {}
    <3> DEFINE m == CHOOSE x \in a.data : TRUE
    <3>1. m \in a.data
      BY <2>1
    <3>2. route' = AtPartition(f.table, m.key)
      BY <2>1 DEF DeliverPoll
    <3> HIDE DEF m
    <3>3. m.key \in DOMAIN Rows[f.table]
      BY <1>1, <3>1 DEF Lists
    <3> QED BY <1>1, <3>2, <3>3, AtPartitionOK
  <2>2. CASE ~ (f.jump /\ a.amount = 1 /\ a.data # {})
    BY <2>2, IInvParts DEF DeliverPoll
  <2> QED BY <2>1, <2>2
<1> QED BY <1>2, <1>3, <1>4, IInvParts, SameStored DEF IInv, DeliverPoll

LEMMA DeliverTurnStep ==
  ASSUME IInv, NEW i \in Slots, DeliverTurn(i)
  PROVE  IInv'
<1> DEFINE f == flights[i]
<1>1. /\ f.table \in Tables /\ f.page \in Nat
      /\ f.answer \in PaneAnswers /\ Lists(f.answer, f.table, f.page)
  BY IInvParts, FlightKinds DEF DeliverTurn, Listing
<1>2. PageOK(cs', ticked')
  BY <1>1, IInvParts, SetPartitionDetailsOK DEF DeliverTurn
<1>3. FlightsOK'
  BY IInvParts, EndsOK DEF DeliverTurn
<1> QED BY <1>2, <1>3, IInvParts, SameStored DEF IInv, DeliverTurn

LEMMA DeliverRowsStep ==
  ASSUME IInv, NEW i \in Slots, DeliverRows(i)
  PROVE  IInv'
<1> DEFINE f == flights[i]
<1>1. f.scope \in Scopes /\ f.answer \in RowAnswers /\ f.answer.of = f.scope
  <2>1. Reading(f)
    BY IInvParts, FlightKinds DEF DeliverRows
  <2> QED BY <2>1 DEF Reading
<1>2. PageOK(cs', ticked')
  BY <1>1, IInvParts, SetRowsOK DEF DeliverRows
<1>3. FlightsOK'
  BY IInvParts, EndsOK DEF DeliverRows
<1> QED BY <1>2, <1>3, IInvParts, SameStored DEF IInv, DeliverRows

LEMMA DeliverGateStep ==
  ASSUME IInv, NEW i \in Slots, DeliverGate(i)
  PROVE  IInv'
<1> DEFINE f == flights[i]
           g == [f EXCEPT !.kind = "delete"]
<1>1. Writing(f)
  BY IInvParts, FlightKinds DEF DeliverGate
<1>2. FlightsOK'
  <2>1. /\ g \in [kind : {"gate", "delete"}, table : Tables, what : Dialogs,
                  back : Choice(Partitions)]
        /\ g.back = f.back /\ g.table = f.table
    BY <1>1 DEF Writing
  <2>2. flights' = [flights EXCEPT ![i] = g]
    BY DEF DeliverGate
  <2> HIDE DEF g
  <2>3. FlightOK(g)
    BY <1>1, <2>1 DEF Writing, FlightOK
  <2> QED BY <2>2, <2>3, IInvParts, FlightSet
<1>3. Stored'
  <2>1. CASE f.what.kind = "one"
    <3> DEFINE k == CHOOSE x \in f.what.keys : TRUE
    <3>1. db' = [db EXCEPT ![f.table][f.what.partition] = @ \ {k}]
      BY <2>1 DEF DeliverGate, DeleteRow
    <3> HIDE DEF k
    <3> QED BY <3>1, IInvParts DEF Stored
  <2>2. CASE f.what.kind # "one"
    <3> DEFINE named == [p \in {f.what.partition} |-> f.what.keys]
    <3>1. db' = [db EXCEPT ![f.table] = [p \in DOMAIN @ |->
                   IF p \in DOMAIN named THEN @[p] \ named[p] ELSE @[p]]]
      BY <2>2 DEF DeliverGate, BulkDelete
    <3> HIDE DEF named
    <3> QED BY <3>1, IInvParts DEF Stored
  <2> QED BY <2>1, <2>2
<1> QED BY <1>2, <1>3, IInvParts DEF IInv, DeliverGate

LEMMA DeliverDeleteStep ==
  ASSUME IInv, NEW i \in Slots, DeliverDelete(i)
  PROVE  IInv'
<1> DEFINE f == flights[i]
           kept == IF f.what.kind = "paste" THEN {} ELSE cs.checked \ f.what.keys
           s == [cs EXCEPT !.checked = kept]
<1>1. Writing(f)
  BY IInvParts, FlightKinds DEF DeliverDelete
<1>2. kept \subseteq cs.checked /\ kept \subseteq Keys
  BY IInvParts DEF PageState
<1>3. PageOK(s, ticked)
  <2> HIDE DEF kept
  <2>1. /\ s \in PageState /\ s.checked = kept
        /\ s.table = cs.table /\ s.panePage = cs.panePage /\ s.scope = cs.scope
        /\ s.ready = cs.ready /\ s.rows = cs.rows /\ s.dialog = cs.dialog
        /\ s.pair = cs.pair /\ s.total = cs.total /\ s.pane = cs.pane
    BY <1>2, IInvParts DEF PageState
  <2> HIDE DEF s
  <2> QED BY <1>2, <2>1, IInvParts DEF PageOK
<1>4. PageOK(cs', ticked')
  <2>1. cs' = ClearRowsScope(CloseDialog(s)) /\ ticked' = ticked
    BY DEF DeliverDelete
  <2> HIDE DEF s
  <2> QED BY <1>3, <2>1, CloseDialogOK, ClearRowsScopeOK
<1>5. FlightsOK'
  BY IInvParts, EndsOK DEF DeliverDelete
<1>6. RouteOK(route')
  <2>1. CASE f.what.kind = "one" /\ f.back # None
    <3>1. f.table \in Tables /\ f.back \in DOMAIN Rows[f.table]
      BY <1>1, <2>1 DEF Writing
    <3>2. route' = AtPartition(f.table, f.back)
      BY <2>1 DEF DeliverDelete
    <3> QED BY <3>1, <3>2, AtPartitionOK
  <2>2. CASE ~ (f.what.kind = "one" /\ f.back # None)
    BY <2>2, IInvParts DEF DeliverDelete
  <2> QED BY <2>1, <2>2
<1> QED BY <1>4, <1>5, <1>6, IInvParts, SameStored DEF IInv, DeliverDelete

LEMMA FailStep ==
  ASSUME IInv, NEW i \in Slots, Fail(i)
  PROVE  IInv'
<1>1. FlightsOK'
  BY IInvParts, EndsOK, PollSleepsOK DEF Fail
<1>2. PageOK(cs', ticked')
  <2> DEFINE s == [cs EXCEPT !.failed = TRUE]
  <2>1. PageOK(s, ticked)
    <3>1. /\ s \in PageState /\ s.checked = cs.checked
          /\ s.table = cs.table /\ s.panePage = cs.panePage /\ s.scope = cs.scope
          /\ s.ready = cs.ready /\ s.rows = cs.rows /\ s.dialog = cs.dialog
          /\ s.pair = cs.pair /\ s.total = cs.total /\ s.pane = cs.pane
      BY IInvParts DEF PageState
    <3> HIDE DEF s
    <3> QED BY <3>1, IInvParts DEF PageOK
  <2>2. (cs' = s \/ cs' = cs) /\ ticked' = ticked
    BY DEF Fail
  <2> HIDE DEF s
  <2> QED BY <2>1, <2>2, IInvParts
<1> QED BY <1>1, <1>2, IInvParts, SameStored DEF IInv, Fail

-----------------------------------------------------------------------------
(* The user.                                                                 *)

LEMMA ClickIs ==
  ASSUME IInv, Click
  PROVE  clicks' \in 0 .. MaxClicks /\ Stored'
<1>1. clicks' \in 0 .. MaxClicks
  BY IInvParts, DataPageAssumption DEF Click
<1> QED BY <1>1, IInvParts, SameStored DEF Click

(* A click that only moves the URL.                                          *)
LEMMA MovesStep ==
  ASSUME IInv, Click, RouteOK(route'), UNCHANGED <<cs, flights, ticked>>
  PROVE  IInv'
<1>1. PageOK(cs', ticked') /\ FlightsOK'
  BY IInvParts DEF FlightsOK
<1> QED BY <1>1, ClickIs DEF IInv

(* A click that changes what the page shows, with or without the ticks.      *)
LEMMA PageStep ==
  ASSUME IInv, Click, PageOK(cs', ticked'), UNCHANGED <<route, flights>>
  PROVE  IInv'
<1>1. FlightsOK'
  BY IInvParts DEF FlightsOK
<1> QED BY <1>1, IInvParts, ClickIs DEF IInv

LEMMA SelectTableStep ==
  ASSUME IInv, NEW t \in Tables, SelectTable(t)
  PROVE  IInv'
BY AtTableOK, MovesStep DEF SelectTable, PageClick

LEMMA BrowseStep ==
  ASSUME IInv, NEW t \in Tables, NEW p \in DOMAIN db[t], Browse(t, p)
  PROVE  IInv'
<1>1. p \in DOMAIN Rows[t]
  BY IInvParts DEF Stored
<1> QED BY <1>1, AtPartitionOK, MovesStep DEF Browse

LEMMA SelectPartitionStep ==
  ASSUME IInv, NEW p \in Partitions, SelectPartition(p)
  PROVE  IInv'
<1>1. cs.pane # None /\ cs.table = route.table /\ \E m \in cs.pane.data : m.key = p
  BY DEF SelectPartition
<1>2. route.table \in Tables /\ p \in DOMAIN Rows[route.table]
  BY <1>1, IInvParts DEF PageOK, Lists
<1> QED BY <1>2, AtPartitionOK, MovesStep DEF SelectPartition, PageClick

LEMMA RowClickStep ==
  ASSUME IInv, NEW k \in Keys, RowClick(k)
  PROVE  IInv'
<1> DEFINE r == [route EXCEPT !.row = k]
<1>1. r \in Routes /\ r.table = route.table /\ r.partition = route.partition
  BY IInvParts DEF RouteOK, Routes, Choice
<1> HIDE DEF r
<1>2. RouteOK(r)
  BY <1>1, IInvParts DEF RouteOK
<1>3. route' = r
  BY DEF RowClick, r
<1> QED BY <1>2, <1>3, MovesStep DEF RowClick, PageClick

LEMMA TurnPartitionsPageStep ==
  ASSUME IInv, NEW page \in Nat, TurnPartitionsPage(page)
  PROVE  IInv'
<1>1. route.table \in Tables
  BY IInvParts DEF TurnPartitionsPage, RouteOK, Routes, Choice
<1>2. PageOK(cs', ticked')
  <2> DEFINE s == [cs EXCEPT !.panePage = page, !.pane = None]
  <2>1. /\ s \in PageState /\ s.checked = cs.checked /\ s.pane = None
        /\ s.scope = cs.scope /\ s.ready = cs.ready /\ s.rows = cs.rows
        /\ s.dialog = cs.dialog /\ s.pair = cs.pair /\ s.total = cs.total
    BY IInvParts DEF PageState, Choice
  <2>2. cs' = s /\ ticked' = ticked
    BY DEF TurnPartitionsPage
  <2> HIDE DEF s
  <2>3. PageOK(s, ticked)
    BY <2>1, IInvParts DEF PageOK
  <2> QED BY <2>2, <2>3
<1>3. FlightsOK'
  <2>1. FlightOK(Ask(PartitionsTask("turn", route.table, page, FALSE)))
    BY <1>1, IInvParts, AskPartitions
  <2> QED BY <2>1, IInvParts, LaunchOK DEF TurnPartitionsPage
<1> QED BY <1>2, <1>3, IInvParts, ClickIs DEF IInv, TurnPartitionsPage, PageClick

LEMMA SetPageStep ==
  ASSUME IInv, NEW page \in Nat, SetPage(page)
  PROVE  IInv'
<1> DEFINE s == [cs EXCEPT !.page = page]
<1>1. /\ s \in PageState /\ s.checked = cs.checked
      /\ s.table = cs.table /\ s.panePage = cs.panePage /\ s.scope = cs.scope
      /\ s.ready = cs.ready /\ s.rows = cs.rows /\ s.dialog = cs.dialog
      /\ s.pair = cs.pair /\ s.total = cs.total /\ s.pane = cs.pane
  BY IInvParts DEF PageState
<1>2. cs' = s /\ ticked' = ticked
  BY DEF SetPage
<1> HIDE DEF s
<1>3. PageOK(cs', ticked')
  BY <1>1, <1>2, IInvParts DEF PageOK
<1> QED BY <1>3, PageStep DEF SetPage, PageClick

LEMMA SetPageSizeStep ==
  ASSUME IInv, NEW size \in Sizes, SetPageSize(size)
  PROVE  IInv'
<1> DEFINE s == [cs EXCEPT !.size = size, !.page = 0]
<1>1. /\ s \in PageState /\ s.checked = cs.checked
      /\ s.table = cs.table /\ s.panePage = cs.panePage /\ s.scope = cs.scope
      /\ s.ready = cs.ready /\ s.rows = cs.rows /\ s.dialog = cs.dialog
      /\ s.pair = cs.pair /\ s.total = cs.total /\ s.pane = cs.pane
  BY IInvParts DEF PageState
<1>2. cs' = s /\ ticked' = ticked
  BY DEF SetPageSize
<1> HIDE DEF s
<1>3. PageOK(cs', ticked')
  BY <1>1, <1>2, IInvParts DEF PageOK
<1> QED BY <1>3, PageStep DEF SetPageSize, PageClick

LEMMA RefreshStep ==
  ASSUME IInv, Refresh
  PROVE  IInv'
<1>1. PageOK(cs', ticked')
  BY IInvParts, ClearRowsScopeOK DEF Refresh
<1> QED BY <1>1, PageStep DEF Refresh, PageClick

LEMMA ToggleRowStep ==
  ASSUME IInv, NEW k \in Keys, ToggleRow(k)
  PROVE  IInv'
<1>1. /\ Visible \subseteq Keys /\ k \in Visible
      /\ cs.pair = [table |-> route.table, partition |-> route.partition]
  BY IInvParts, VisibleIs DEF ToggleRow
<1>2. \A j : RowOf(j) = TickOf(cs.pair, j)
  BY <1>1 DEF RowOf, TickOf
<1>3. \A j \in cs.checked : TickOf(cs.pair, j) \in ticked
  BY IInvParts DEF PageOK
<1>4. cs.dialog = None /\ cs.checked \subseteq Keys
  BY IInvParts DEF ToggleRow, PageClick, PageState
<1>5. PageOK(cs', ticked')
  <2>1. CASE k \in cs.checked
    <3>1. /\ cs' = [cs EXCEPT !.checked = cs.checked \ {k}]
          /\ ticked' = ticked \ {TickOf(cs.pair, k)}
      BY <1>2, <2>1 DEF ToggleRow
    <3>2. \A j \in cs.checked \ {k} : TickOf(cs.pair, j) \in ticked \ {TickOf(cs.pair, k)}
      BY <1>3 DEF TickOf
    <3> QED BY <1>4, <3>1, <3>2, IInvParts, TicksOK
  <2>2. CASE k \notin cs.checked
    <3>1. /\ cs' = [cs EXCEPT !.checked = cs.checked \cup {k}]
          /\ ticked' = ticked \cup {TickOf(cs.pair, k)}
      BY <1>2, <2>2 DEF ToggleRow
    <3>2. \A j \in cs.checked \cup {k} : TickOf(cs.pair, j) \in ticked \cup {TickOf(cs.pair, k)}
      BY <1>3
    <3> QED BY <1>4, <3>1, <3>2, IInvParts, TicksOK
  <2> QED BY <2>1, <2>2
<1> QED BY <1>5, PageStep DEF ToggleRow, PageClick

LEMMA ToggleAllStep ==
  ASSUME IInv, ToggleAll
  PROVE  IInv'
<1>1. /\ Visible \subseteq Keys
      /\ cs.pair = [table |-> route.table, partition |-> route.partition]
  BY IInvParts, VisibleIs DEF ToggleAll
<1> DEFINE ticks == {RowOf(k) : k \in Visible}
<1>2. /\ \A j : TickOf(cs.pair, j) \in ticks => j \in Visible
      /\ \A j \in Visible : TickOf(cs.pair, j) \in ticks
  <2>1. \A j : RowOf(j) = TickOf(cs.pair, j)
    BY <1>1 DEF RowOf, TickOf
  <2>2. \A j, k : RowOf(j) = RowOf(k) => j = k
    <3> TAKE j, k
    <3>1. RowOf(j).key = j /\ RowOf(k).key = k
      BY DEF RowOf
    <3> QED BY <3>1
  <2> QED BY <2>1, <2>2
<1>3. \A j \in cs.checked : TickOf(cs.pair, j) \in ticked
  BY IInvParts DEF PageOK
<1>4. cs.dialog = None /\ cs.checked \subseteq Keys
  BY IInvParts DEF ToggleAll, PageClick, PageState
<1>5. PageOK(cs', ticked')
  <2>1. CASE Visible \subseteq cs.checked
    <3>1. cs' = [cs EXCEPT !.checked = cs.checked \ Visible] /\ ticked' = ticked \ ticks
      BY <2>1 DEF ToggleAll
    <3> HIDE DEF ticks
    <3>2. \A j \in cs.checked \ Visible : TickOf(cs.pair, j) \in ticked \ ticks
      BY <1>2, <1>3
    <3> QED BY <1>4, <3>1, <3>2, IInvParts, TicksOK
  <2>2. CASE ~ (Visible \subseteq cs.checked)
    <3>1. cs' = [cs EXCEPT !.checked = cs.checked \cup Visible] /\ ticked' = ticked \cup ticks
      BY <2>2 DEF ToggleAll
    <3> HIDE DEF ticks
    <3>2. \A j \in cs.checked \cup Visible : TickOf(cs.pair, j) \in ticked \cup ticks
      BY <1>2, <1>3
    <3>3. cs.checked \cup Visible \subseteq Keys
      BY <1>1, <1>4
    <3> QED BY <1>4, <3>1, <3>2, <3>3, IInvParts, TicksOK
  <2> QED BY <2>1, <2>2
<1> QED BY <1>5, PageStep DEF ToggleAll, PageClick

LEMMA ClearTicksStep ==
  ASSUME IInv, ClearTicks
  PROVE  IInv'
<1>1. cs' = [cs EXCEPT !.checked = {}] /\ cs.dialog = None
  BY DEF ClearTicks, PageClick
<1>2. PageOK(cs', ticked')
  BY <1>1, IInvParts, TicksOK
<1> QED BY <1>2, PageStep DEF ClearTicks, PageClick

LEMMA OpenDialogStep ==
  ASSUME IInv, NEW d \in Dialogs, OpenDialog(d),
         d.kind = "bulk" => \A k \in d.keys : TickOf(d, k) \in ticked
  PROVE  IInv'
<1> DEFINE s == [cs EXCEPT !.dialog = d]
<1>1. /\ s \in PageState /\ s.checked = cs.checked /\ s.dialog = d
      /\ s.table = cs.table /\ s.panePage = cs.panePage /\ s.scope = cs.scope
      /\ s.ready = cs.ready /\ s.rows = cs.rows
      /\ s.pair = cs.pair /\ s.total = cs.total /\ s.pane = cs.pane
  <2>1. d \in Choice(Dialogs)
    BY DEF Choice
  <2> QED BY <2>1, IInvParts DEF PageState
<1>2. cs' = s /\ ticked' = ticked
  BY DEF OpenDialog
<1> HIDE DEF s
<1>3. PageOK(s, ticked)
  BY <1>1, IInvParts DEF PageOK
<1> QED BY <1>2, <1>3, PageStep DEF OpenDialog, PageClick

LEMMA DialogIs ==
  ASSUME NEW kind \in {"one", "bulk", "paste"}, route.table \in Tables,
         NEW p \in Partitions, NEW keys, keys \subseteq Named
  PROVE  /\ Dialog(kind, p, keys) \in Dialogs
         /\ Dialog(kind, p, keys).kind = kind /\ Dialog(kind, p, keys).keys = keys
         /\ \A k : TickOf(Dialog(kind, p, keys), k)
                     = [table |-> route.table, partition |-> p, key |-> k]
BY DEF Dialog, Dialogs, TickOf

LEMMA OpenDeleteStep ==
  ASSUME IInv, OpenDelete
  PROVE  IInv'
<1>1. /\ Visible \subseteq Keys /\ route.row \in Visible
      /\ route.table \in Tables /\ route.partition \in Partitions
  BY IInvParts, VisibleIs DEF OpenDelete
<1> DEFINE d == Dialog("one", route.partition, {route.row})
<1>2. {route.row} \subseteq Named
  BY <1>1 DEF Named
<1>3. d \in Dialogs /\ d.kind = "one"
  BY <1>1, <1>2, DialogIs
<1>4. OpenDialog(d)
  BY DEF OpenDelete
<1> HIDE DEF d
<1> QED BY <1>3, <1>4, OpenDialogStep

LEMMA OpenBulkStep ==
  ASSUME IInv, OpenBulk
  PROVE  IInv'
<1> DEFINE keys == Visible \cap cs.checked
           d == Dialog("bulk", route.partition, keys)
<1>1. /\ Visible \subseteq Keys
      /\ cs.pair = [table |-> route.table, partition |-> route.partition]
      /\ route.table \in Tables /\ route.partition \in Partitions
  BY IInvParts, VisibleIs DEF OpenBulk
<1>2. keys \subseteq Named
  BY <1>1 DEF Named
<1>3. \A k \in keys : [table |-> route.table, partition |-> route.partition, key |-> k] \in ticked
  BY <1>1, IInvParts DEF PageOK, TickOf
<1>4. OpenDialog(d)
  BY DEF OpenBulk
<1> HIDE DEF keys
<1>5. /\ d \in Dialogs /\ d.keys = keys
      /\ \A k : TickOf(d, k)
                  = [table |-> route.table, partition |-> route.partition, key |-> k]
  BY <1>1, <1>2, DialogIs
<1> HIDE DEF d
<1>6. \A k \in d.keys : TickOf(d, k) \in ticked
  BY <1>3, <1>5
<1> QED BY <1>4, <1>5, <1>6, OpenDialogStep

LEMMA OpenPasteStep ==
  ASSUME IInv, NEW p \in Partitions, OpenPaste(p)
  PROVE  IInv'
<1> DEFINE d == Dialog("paste", p, PastedKeys)
<1>1. route.table \in Tables
  BY IInvParts DEF OpenPaste, RouteOK, Routes, Choice
<1>2. PastedKeys \subseteq Named
  BY DEF Named
<1>3. d \in Dialogs /\ d.kind = "paste"
  BY <1>1, <1>2, DialogIs
<1>4. OpenDialog(d)
  BY DEF OpenPaste
<1> HIDE DEF d
<1> QED BY <1>3, <1>4, OpenDialogStep

LEMMA CancelStep ==
  ASSUME IInv, Cancel
  PROVE  IInv'
<1>1. PageOK(cs', ticked')
  BY IInvParts, CloseDialogOK DEF Cancel
<1> QED BY <1>1, PageStep DEF Cancel

LEMMA ConfirmStep ==
  ASSUME IInv, Confirm
  PROVE  IInv'
<1> DEFINE f == [kind |-> "gate", table |-> route.table, what |-> cs.dialog,
                 back |-> route.partition]
<1>1. route.table \in Tables /\ cs.dialog \in Dialogs /\ route.partition \in Choice(Partitions)
  BY IInvParts DEF Confirm, RouteOK, Routes, Choice, PageState
<1>2. route.partition # None => route.partition \in DOMAIN Rows[route.table]
  BY IInvParts DEF RouteOK
<1>3. FlightOK(f)
  BY <1>1, <1>2 DEF FlightOK, Writing
<1>4. Launch(f)
  BY DEF Confirm
<1> HIDE DEF f
<1>5. FlightsOK' /\ PageOK(cs', ticked')
  BY <1>3, <1>4, IInvParts, LaunchOK DEF Confirm
<1> QED BY <1>5, IInvParts, ClickIs DEF IInv, Confirm

-----------------------------------------------------------------------------
(* The theorems.                                                             *)

LEMMA InitIInv == Init => IInv
<1> SUFFICES ASSUME Init PROVE IInv
  OBVIOUS
<1>1. RouteOK(route)
  BY DEF Init, Root, RouteOK, Routes, Choice
<1>2. PageOK(cs, ticked)
  <2>1. cs = Fresh /\ ticked = {}
    BY DEF Init
  <2> QED BY <2>1, FreshIs DEF PageOK
<1>3. FlightsOK
  BY DEF Init, FlightsOK, FlightOK
<1>4. Stored
  BY RowsAssumption DEF Init, Stored
<1>5. clicks \in 0 .. MaxClicks
  BY DataPageAssumption DEF Init
<1> QED BY <1>1, <1>2, <1>3, <1>4, <1>5 DEF IInv

LEMMA StepIInv ==
  ASSUME IInv, [Next]_vars
  PROVE  IInv'
<1>1. CASE User
  <2>1. ASSUME NEW t \in Tables, SelectTable(t) \/ \E p \in DOMAIN db[t] : Browse(t, p)
        PROVE  IInv'
    BY <2>1, SelectTableStep, BrowseStep
  <2>2. ASSUME NEW p \in Partitions, SelectPartition(p) \/ OpenPaste(p)
        PROVE  IInv'
    BY <2>2, SelectPartitionStep, OpenPasteStep
  <2>3. ASSUME NEW k \in Keys, RowClick(k) \/ ToggleRow(k)
        PROVE  IInv'
    BY <2>3, RowClickStep, ToggleRowStep
  <2>4. ASSUME NEW page \in 0 .. Cardinality(Keys), TurnPartitionsPage(page) \/ SetPage(page)
        PROVE  IInv'
    <3>1. page \in Nat
      OBVIOUS
    <3> QED BY <2>4, <3>1, TurnPartitionsPageStep, SetPageStep
  <2>5. ASSUME NEW size \in Sizes, SetPageSize(size)
        PROVE  IInv'
    BY <2>5, SetPageSizeStep
  <2>6. CASE Refresh \/ ToggleAll \/ ClearTicks \/ OpenDelete \/ OpenBulk \/ Cancel \/ Confirm
    BY <2>6, RefreshStep, ToggleAllStep, ClearTicksStep, OpenDeleteStep, OpenBulkStep,
       CancelStep, ConfirmStep
  <2> QED BY <1>1, <2>1, <2>2, <2>3, <2>4, <2>5, <2>6 DEF User
<1>2. CASE Tasks
  <2>1. ASSUME NEW i \in Slots, Deliver(i)
        PROVE  IInv'
    BY <2>1, DeliverPollStep, DeliverTurnStep, DeliverRowsStep, DeliverGateStep,
       DeliverDeleteStep DEF Deliver
  <2> QED BY <1>2, <2>1, LoadTableStep, LoadRowsStep, WakeStep, FailStep DEF Tasks
<1>3. CASE UNCHANGED vars
  <2>1. /\ route' = route /\ cs' = cs /\ flights' = flights /\ db' = db
        /\ ticked' = ticked /\ clicks' = clicks
    BY <1>3 DEF vars
  <2>2. FlightsOK' /\ Stored'
    BY <2>1, IInvParts, SameStored DEF FlightsOK
  <2> QED BY <2>1, <2>2, IInvParts DEF IInv
<1> QED BY <1>1, <1>2, <1>3 DEF Next

(* Every reachable state of the page satisfies the inductive invariant,      *)
(* whatever is clicked and in whatever order answers come                    *)
(* (ui/src/pages/data.rs:131-250).                                           *)
THEOREM InvariantHolds == Spec => []IInv
<1>1. IInv /\ [Next]_vars => IInv'
  BY StepIInv
<1> QED BY <1>1, InitIInv, PTL DEF Spec

(* The rows and the pane on display are of the table, the partition and the  *)
(* page the URL and the page's state name, and the count the rows are paged  *)
(* by is of the partition the URL names, however late an answer comes        *)
(* (ui/src/pages/data.rs:150-240).                                           *)
THEOREM ShownIsSelected == Spec => []Inv
<1>1. IInv => Inv
  <2> SUFFICES ASSUME IInv PROVE Inv
    OBVIOUS
  <2>1. TypeOK
    <3>1. /\ cs.scope \in Choice(Scopes) /\ cs.pair \in Choice(Pairs)
          /\ cs.ready \in BOOLEAN /\ cs.checked \subseteq Keys
          /\ cs.size \in Sizes /\ cs.page \in Nat
      BY IInvParts DEF PageState
    <3>2. cs.ready => cs.scope # None
      BY IInvParts DEF PageOK
    <3>3. cs.pane # None => cs.table # None
      BY IInvParts, NoneAssumption DEF PageOK, Lists
    <3>4. \A t \in Tables : \A p \in DOMAIN db[t] : db[t][p] \subseteq Rows[t][p]
      BY IInvParts DEF Stored
    <3>5. route \in Routes /\ (route.partition # None => route.table # None)
      BY IInvParts DEF RouteOK
    <3> QED BY <3>1, <3>2, <3>3, <3>4, <3>5, IInvParts DEF TypeOK
  <2>2. RowsAreOfTheWindow
    BY IInvParts DEF RowsAreOfTheWindow, RowsReady, ScopeMatches, PageOK
  <2>3. PaneIsOfTheWindow
    BY IInvParts DEF PaneIsOfTheWindow, PageOK, Lists
  <2>4. TotalIsOfTheRows
    <3>1. SUFFICES ASSUME ScopeMatches, cs.total # None
                   PROVE  cs.total.of = [table |-> route.table, partition |-> route.partition]
      BY DEF TotalIsOfTheRows
    <3>2. cs \in PageState /\ cs.scope = Scope(route, cs) /\ route.partition # None
      BY <3>1, IInvParts DEF ScopeMatches, PageOK
    <3>3. /\ cs.scope \in Scopes /\ cs.scope.table = route.table
          /\ cs.scope.partition = route.partition
      BY <3>2, IInvParts, ScopeIs
    <3>4. cs.total.of = PairOf(cs.scope)
      BY <3>1, <3>3, IInvParts, NoneAssumption DEF PageOK
    <3> QED BY <3>3, <3>4 DEF PairOf
  <2> QED BY <2>1, <2>2, <2>3, <2>4 DEF Inv
<1> QED BY <1>1, InvariantHolds, PTL

(* A bulk deletion never offers a row nobody ticked: no tick travels to the  *)
(* row of the same key in another partition, another table or another page   *)
(* (ui/src/pages/data.rs:193-209, 640-660).                                  *)
THEOREM NothingUntickedIsOffered == Spec => []OnlyTickedRowsOffered
<1>1. IInv => OnlyTickedRowsOffered
  <2> SUFFICES ASSUME IInv, cs.dialog # None, cs.dialog.kind = "bulk", NEW k \in cs.dialog.keys
               PROVE  \E row \in ticked : /\ row.table = cs.dialog.table
                                          /\ row.partition = cs.dialog.partition /\ row.key = k
    BY DEF OnlyTickedRowsOffered
  <2>1. TickOf(cs.dialog, k) \in ticked
    BY IInvParts DEF PageOK
  <2> QED BY <2>1 DEF TickOf
<1> QED BY <1>1, InvariantHolds, PTL


-----------------------------------------------------------------------------
(* The settings page.  What a file holds, and what is read from it.          *)

LEMMA NumbersAre == Numbers = {"warn", "bad"} /\ NumberPairs = [{"warn", "bad"} -> Nat]
BY DEF Numbers, NumberPairs

LEMMA ContentsAre ==
  ASSUME NEW c \in Contents
  PROVE  /\ DOMAIN c \subseteq {"warn", "bad"}
         /\ \A n \in DOMAIN c : c[n] \in Nat
BY NumbersAre DEF Contents

LEMMA PatchesArePairs ==
  ASSUME NEW c \in Contents, NEW pair \in NumberPairs
  PROVE  Patched(c, pair) \in NumberPairs
BY NumbersAre, ContentsAre DEF Patched

LEMMA SanitizedAreOrdered ==
  ASSUME NEW pair \in NumberPairs
  PROVE  Sanitized(pair) \in Ordered
<1>1. pair["warn"] \in Nat /\ pair["bad"] \in Nat
  BY NumbersAre
<1>2. [warn |-> pair["bad"], bad |-> pair["warn"]] \in NumberPairs
  BY <1>1, NumbersAre
<1> QED BY <1>1, <1>2 DEF Sanitized, Ordered

LEMMA OrderedArePairs == Ordered \subseteq NumberPairs /\ NumberPairs \subseteq Contents
BY DEF Ordered, Contents

LEMMA DefaultIsOrdered == Default \in Ordered
BY NumbersAre, PairsAssumption DEF Ordered

LEMMA LoadedIsOrdered ==
  ASSUME file \in Contents
  PROVE  Loaded \in Ordered
BY DefaultIsOrdered, OrderedArePairs, PatchesArePairs, SanitizedAreOrdered DEF Loaded

(* What TypeOK repeats of the rest of Shapes.                                *)
LEMMA ShapesHold ==
  /\ \A c \in Contents : DOMAIN c \subseteq Numbers
  /\ \A pair \in Ordered : pair \in [Numbers -> Nat]
  /\ \A f \in Forms : f.note \in {"none", "refused", "saved", "kept"}
<1>1. \A c \in Contents : DOMAIN c \subseteq Numbers
  BY ContentsAre, NumbersAre
<1>2. \A pair \in Ordered : pair \in [Numbers -> Nat]
  BY DEF Ordered, NumberPairs
<1>3. \A f \in Forms : f.note \in {"none", "refused", "saved", "kept"}
  BY DEF Forms
<1> QED BY <1>1, <1>2, <1>3

LEMMA ReadIsAnAnswer ==
  ASSUME Shapes, NEW q
  PROVE  /\ NoAnswer \in Answers /\ NoSuccess \in Answers
         /\ NoAnswer.left["ui"] = 0 /\ NoSuccess.left["ui"] = 0
         /\ Read(q, Truth) \in Answers
         /\ Read("gate", Truth).left["ui"] = left["ui"]
<1>1. left \in [Windows -> 0..WindowSecs] /\ Truth \in Answers
  BY LoadedIsOrdered DEF Shapes, SettingsTypeOK, Truth, Answers
<1>2. 0 \in 0..WindowSecs /\ "ui" \in Windows
  BY WindowAssumption DEF Windows
<1>3. NoSuccess \in Answers /\ NoSuccess.left["ui"] = 0
  BY <1>2, DefaultIsOrdered DEF NoSuccess, Answers
<1>4. NoAnswer \in Answers /\ NoAnswer.left["ui"] = 0
  BY <1>3 DEF NoAnswer, Answers
<1>5. Read(q, Truth) \in Answers
  BY <1>1, <1>2, DefaultIsOrdered DEF Read, Answers
<1>6. Read("gate", Truth).left["ui"] = left["ui"]
  BY <1>1, <1>2 DEF Read, Truth
<1> QED BY <1>3, <1>4, <1>5, <1>6

LEMMA EmptyIs == Empty \in Contents /\ DOMAIN Empty = {} /\ Default \in NumberPairs
BY PairsAssumption DEF Empty, Contents

(* A pair in order stays as it is: what the form applied is what is written. *)
LEMMA WrittenIs ==
  ASSUME SettingsIInv, NEW c \in Posters
  PROVE  /\ Sanitized(Merged(save[c].body, save[c].before)) \in Contents
         /\ c = "page" /\ save[c].at = "emptied" =>
              Sanitized(Merged(save[c].body, save[c].before)) = form.applied
<1> DEFINE merged == Merged(save[c].body, save[c].before)
<1>1. save[c].body \in Contents /\ save[c].before \in NumberPairs
  BY DEF SettingsIInv, Shapes, Saves
<1>2. merged \in NumberPairs
  BY <1>1, PatchesArePairs, NumbersAre DEF Merged, Patched
<1>3. ASSUME c = "page", save[c].at = "emptied"
      PROVE  Sanitized(merged) = form.applied
  <2>1. save[c].body = form.applied /\ Acceptable(form.applied) /\ form.applied \in NumberPairs
    BY <1>3 DEF SettingsIInv, SavingApplied, Shapes, Forms
  <2>2. merged = form.applied
    BY <2>1, NumbersAre DEF Merged, Patched
  <2> QED BY <2>1, <2>2, NumbersAre DEF Acceptable, Sanitized
<1> QED BY <1>2, <1>3, SanitizedAreOrdered, OrderedArePairs

-----------------------------------------------------------------------------
(* The settings page: the steps of a POST to the file.                       *)

LEMMA LoadFileStep ==
  ASSUME SettingsIInv, NEW c \in Posters, LoadFile(c)
  PROVE  SettingsIInv'
<1>1. Shapes'
  <2>1. save[c] \in Saves
    BY DEF SettingsIInv, Shapes, SettingsTypeOK, Posters
  <2>2. \A a \in BOOLEAN :
          [save[c] EXCEPT !.at = "loaded", !.before = Loaded, !.alone = a] \in Saves
    BY <2>1, LoadedIsOrdered, OrderedArePairs DEF SettingsIInv, Shapes, SettingsTypeOK,
       Saves
  <2>3. save' \in [Posters -> Saves]
    BY <2>2 DEF SettingsIInv, Shapes, SettingsTypeOK, LoadFile, Posters
  <2> QED BY <2>1, <2>2, <2>3, ShapesHold DEF LoadFile, pageVars, bounds, SettingsIInv,
     Shapes, SettingsTypeOK
<1>2. (SavedIsStored /\ SavingApplied)'
  <2>1. /\ save'["page"].at # "idle" => save["page"].at # "idle"
        /\ save'["page"].at = "stored" => save["page"].at = "stored"
        /\ save'["page"].body = save["page"].body
    BY DEF LoadFile, SettingsIInv, Shapes, Posters, Saves
  <2> QED BY <2>1 DEF LoadFile, pageVars, bounds, SettingsIInv, SavedIsStored, SavingApplied,
     Acceptable
<1>3. (Inviting /\ DeletesAreInvited)'
  BY DEF LoadFile, SettingsIInv, Windows, Questions, Gets, Shapes, SettingsTypeOK,
     Inviting, DeletesAreInvited
<1> QED BY <1>1, <1>2, <1>3 DEF SettingsIInv

LEMMA OpenFileStep ==
  ASSUME SettingsIInv, NEW c \in Posters, OpenFile(c)
  PROVE  SettingsIInv'
<1>1. Shapes'
  <2>1. \A d \in Posters : save[d] \in Saves
    BY DEF SettingsIInv, Shapes, SettingsTypeOK, Posters
  <2>2. \A s \in Saves : /\ [s EXCEPT !.alone = FALSE] \in Saves
                         /\ [s EXCEPT !.at = "emptied"] \in Saves
    BY DEF Saves
  <2>3. save' \in [Posters -> Saves]
    BY <2>1, <2>2 DEF SettingsIInv, Shapes, SettingsTypeOK, OpenFile, Disturbed, Posters
  <2>4. file' \in Contents
    BY EmptyIs DEF OpenFile
  <2>5. form' \in Forms
    BY DEF SettingsIInv, Shapes, SettingsTypeOK, OpenFile, Forms
  <2> QED BY <2>1, <2>2, <2>3, <2>4, <2>5, ShapesHold DEF OpenFile, SettingsIInv, Shapes,
     SettingsTypeOK
<1>2. (SavedIsStored /\ SavingApplied)'
  <2>1. /\ save'["page"].at # "idle" => save["page"].at # "idle"
        /\ save'["page"].at = "stored" => save["page"].at = "stored" /\ c = "other"
        /\ save'["page"].body = save["page"].body
    BY DEF OpenFile, Disturbed, SettingsIInv, Shapes, Posters, Saves
  <2>2. /\ form'.note = form.note /\ form'.applied = form.applied
        /\ form'.touched = (form.touched \/ c = "other")
    BY DEF OpenFile, SettingsIInv, Shapes, Forms
  <2>3. c = "page" => form.note # "saved"
    BY DEF OpenFile, SettingsIInv, SavingApplied
  <2> QED BY <2>1, <2>2, <2>3 DEF SettingsIInv, Posters, SavedIsStored, SavingApplied,
     Acceptable
<1>3. (Inviting /\ DeletesAreInvited)'
  BY DEF OpenFile, SettingsIInv, Windows, Questions, Gets, Shapes, SettingsTypeOK,
     Inviting, DeletesAreInvited
<1> QED BY <1>1, <1>2, <1>3 DEF SettingsIInv

LEMMA WriteFileStep ==
  ASSUME SettingsIInv, NEW c \in Posters, WriteFile(c)
  PROVE  SettingsIInv'
<1>1. Shapes'
  <2>1. \A d \in Posters : save[d] \in Saves
    BY DEF SettingsIInv, Shapes, SettingsTypeOK, Posters
  <2>2. \A s \in Saves : [s EXCEPT !.alone = FALSE] \in Saves
    BY DEF Saves
  <2>3. Ended(c) \in Saves
    BY <2>1 DEF Ended, Saves
  <2>4. save' \in [Posters -> Saves]
    BY <2>1, <2>2, <2>3 DEF SettingsIInv, Shapes, SettingsTypeOK, WriteFile, Disturbed,
       Posters
  <2>5. file' \in Contents
    BY WrittenIs DEF WriteFile
  <2>6. form' \in Forms
    BY DEF SettingsIInv, Shapes, SettingsTypeOK, WriteFile, Forms
  <2> QED BY <2>1, <2>2, <2>3, <2>4, <2>5, <2>6, ShapesHold DEF WriteFile, Ended,
     Disturbed, SettingsIInv, Shapes, SettingsTypeOK
<1>2. (SavedIsStored /\ SavingApplied)'
  BY WrittenIs DEF WriteFile, Ended, Disturbed, SettingsIInv, Posters, Saves, Forms,
     Shapes, SavedIsStored, SavingApplied
<1>3. (Inviting /\ DeletesAreInvited)'
  BY DEF WriteFile, Ended, Disturbed, SettingsIInv, Windows, Questions, Gets, Shapes,
     SettingsTypeOK, Inviting, DeletesAreInvited
<1> QED BY <1>1, <1>2, <1>3 DEF SettingsIInv

LEMMA SaveFailsStep ==
  ASSUME SettingsIInv, NEW c \in Posters, SaveFails(c)
  PROVE  SettingsIInv'
<1>1. Shapes'
  <2>1. save[c] \in Saves
    BY DEF SettingsIInv, Shapes, SettingsTypeOK, Posters
  <2>2. Failed(c) \in Saves
    BY <2>1 DEF SettingsIInv, Shapes, SettingsTypeOK, Saves, Failed
  <2>3. save' \in [Posters -> Saves]
    BY <2>2 DEF SettingsIInv, Shapes, SettingsTypeOK, SaveFails, Posters
  <2> QED BY <2>1, <2>2, <2>3, ShapesHold DEF SaveFails, pageVars, Fails, SettingsIInv,
     Shapes, SettingsTypeOK
<1>2. (SavedIsStored /\ SavingApplied)'
  <2>1. /\ save'["page"].at # "idle" => save["page"].at # "idle"
        /\ save'["page"].at = "stored" => save["page"].at = "stored"
        /\ save'["page"].body = save["page"].body
    BY DEF SaveFails, Failed, SettingsIInv, Shapes, Posters, Saves
  <2> QED BY <2>1 DEF SaveFails, pageVars, Fails, SettingsIInv, SavedIsStored, SavingApplied,
     Acceptable
<1>3. (Inviting /\ DeletesAreInvited)'
  BY DEF SaveFails, Fails, SettingsIInv, Windows, Questions, Gets, Shapes,
     SettingsTypeOK, Inviting, DeletesAreInvited
<1> QED BY <1>1, <1>2, <1>3 DEF SettingsIInv

-----------------------------------------------------------------------------
(* The settings page: questions and answers.                                 *)

LEMMA AnswerStep ==
  ASSUME SettingsIInv, NEW q \in Questions, AnswerQuestion(q)
  PROVE  SettingsIInv'
<1> USE DEF SettingsIInv, Windows, Posters, Questions,
           Saves, Gets, Switches, Forms
<1>1. Shapes'
  BY ReadIsAnAnswer DEF AnswerQuestion, Fails, bounds, server, pageVars, Shapes, SettingsTypeOK
<1>2. (SavedIsStored /\ SavingApplied)'
  BY ReadIsAnAnswer DEF AnswerQuestion, Fails, bounds, server, pageVars, Shapes,
     SavedIsStored, SavingApplied
<1>3. (Inviting /\ DeletesAreInvited)'
  BY ReadIsAnAnswer DEF AnswerQuestion, Fails, bounds, server, pageVars, Shapes,
     SettingsTypeOK, Inviting, DeletesAreInvited
<1> QED BY <1>1, <1>2, <1>3

LEMMA PollStep ==
  ASSUME SettingsIInv, Poll
  PROVE  SettingsIInv'
<1> USE DEF SettingsIInv, Windows, Posters, Questions,
           Saves, Gets, Switches, Forms
<1>1. Shapes'
  BY ReadIsAnAnswer DEF Poll, Asked, server, pageVars, bounds, Shapes, SettingsTypeOK
<1>2. (SavedIsStored /\ SavingApplied)'
  BY ReadIsAnAnswer DEF Poll, Asked, server, pageVars, bounds, Shapes, SavedIsStored,
     SavingApplied
<1>3. (Inviting /\ DeletesAreInvited)'
  BY ReadIsAnAnswer DEF Poll, Asked, server, pageVars, bounds, Shapes, SettingsTypeOK,
     Inviting, DeletesAreInvited
<1> QED BY <1>1, <1>2, <1>3

LEMMA HearPollStep ==
  ASSUME SettingsIInv, HearPoll(get["poll"].answer)
  PROVE  SettingsIInv'
<1> USE DEF SettingsIInv, Windows, Posters, Questions,
           Saves, Gets, Switches, Forms
<1>1. Shapes'
  BY ReadIsAnAnswer DEF HearPoll, Silent, Shown, PollsAgain, server, bounds, Shapes,
     SettingsTypeOK
<1>2. (SavedIsStored /\ SavingApplied)'
  BY ReadIsAnAnswer DEF HearPoll, Silent, Shown, PollsAgain, server, bounds, Shapes,
     SavedIsStored, SavingApplied
<1>3. (Inviting /\ DeletesAreInvited)'
  BY ReadIsAnAnswer DEF HearPoll, Silent, Shown, PollsAgain, server, bounds, Shapes,
     SettingsTypeOK, Inviting, DeletesAreInvited
<1> QED BY <1>1, <1>2, <1>3

LEMMA HearThresholdsStep ==
  ASSUME SettingsIInv, HearThresholds(get["thresholds"].answer)
  PROVE  SettingsIInv'
<1>1. Shapes'
  <2>1. get["thresholds"] \in Gets /\ get["thresholds"].answer.pair \in Ordered
    BY DEF SettingsIInv, Shapes, SettingsTypeOK, Questions, Gets, Answers
  <2>2. Silent \in Gets
    BY ReadIsAnAnswer DEF SettingsIInv, Shapes, SettingsTypeOK, Silent, Gets
  <2>3. get' \in [Questions -> Gets]
    BY <2>2 DEF SettingsIInv, Shapes, SettingsTypeOK, HearThresholds, Questions
  <2>4. thresholds' \in Ordered
    BY <2>1 DEF SettingsIInv, Shapes, SettingsTypeOK, HearThresholds
  <2> QED BY <2>1, <2>2, <2>3, <2>4, ShapesHold DEF HearThresholds, Silent, server,
     bounds, SettingsIInv, Shapes, SettingsTypeOK
<1>2. (SavedIsStored /\ SavingApplied)'
  BY DEF HearThresholds, Silent, server, bounds, SettingsIInv, Posters, Saves, Forms,
     Shapes, SavedIsStored, SavingApplied
<1>3. (Inviting /\ DeletesAreInvited)'
  BY DEF HearThresholds, Silent, server, bounds, SettingsIInv, Windows, Questions, Gets,
     Shapes, SettingsTypeOK, Inviting, DeletesAreInvited
<1> QED BY <1>1, <1>2, <1>3 DEF SettingsIInv

LEMMA HearGateStep ==
  ASSUME SettingsIInv, HearGate(get["gate"].answer)
  PROVE  SettingsIInv'
<1> USE DEF SettingsIInv, Windows, Posters, Questions,
           Saves, Gets, Switches, Forms
<1>1. Shapes'
  BY ReadIsAnAnswer DEF HearGate, Has, Silent, Allowed, server, pageVars, bounds, Shapes,
     SettingsTypeOK
<1>2. (SavedIsStored /\ SavingApplied)'
  BY ReadIsAnAnswer DEF HearGate, Has, Silent, Allowed, server, pageVars, bounds, Shapes,
     SavedIsStored, SavingApplied
<1>3. (Inviting /\ DeletesAreInvited)'
  BY ReadIsAnAnswer DEF HearGate, Has, Silent, Allowed, server, pageVars, bounds, Shapes,
     SettingsTypeOK, Inviting, DeletesAreInvited
<1> QED BY <1>1, <1>2, <1>3

LEMMA HearStateStep ==
  ASSUME SettingsIInv, NEW w \in Windows, HearState(w, get[w].answer)
  PROVE  SettingsIInv'
<1>1. Shapes'
  <2>1. get[w] \in Gets /\ get[w].answer \in Answers
    BY DEF SettingsIInv, Shapes, SettingsTypeOK, Questions, Gets
  <2>2. Silent \in Gets
    BY ReadIsAnAnswer DEF SettingsIInv, Shapes, SettingsTypeOK, Silent, Gets
  <2>3. get' \in [Questions -> Gets]
    BY <2>2 DEF SettingsIInv, Shapes, SettingsTypeOK, HearState, Questions
  <2>4. switch[w].wanted \in BOOLEAN /\ Shown(get[w].answer, w) \in BOOLEAN
    BY DEF SettingsIInv, Shapes, SettingsTypeOK, Windows, Switches, Shown
  <2>5. card' \in [Windows -> BOOLEAN]
    BY <2>4 DEF SettingsIInv, Shapes, SettingsTypeOK, HearState, Windows
  <2>6. switch' \in [Windows -> Switches]
    BY DEF SettingsIInv, Shapes, SettingsTypeOK, HearState, Switches
  <2> QED BY <2>1, <2>2, <2>3, <2>4, <2>5, <2>6, ShapesHold DEF HearState, Silent,
     server, bounds, SettingsIInv, Shapes, SettingsTypeOK
<1>2. (SavedIsStored /\ SavingApplied)'
  BY DEF HearState, Silent, server, bounds, SettingsIInv, Posters, Saves, Forms, Shapes,
     SavedIsStored, SavingApplied
<1>3. (Inviting /\ DeletesAreInvited)'
  BY DEF HearState, Silent, server, bounds, SettingsIInv, Windows, Questions, Gets,
     Shapes, SettingsTypeOK, Inviting, DeletesAreInvited
<1> QED BY <1>1, <1>2, <1>3 DEF SettingsIInv

-----------------------------------------------------------------------------
(* The settings page: the switches, the form and the delete.                 *)

LEMMA ClickStep ==
  ASSUME SettingsIInv, NEW w \in Windows, NEW wanted \in BOOLEAN, ClickSwitch(w, wanted)
  PROVE  SettingsIInv'
<1> USE DEF SettingsIInv, Windows, Posters, Questions,
           Saves, Gets, Switches, Forms
<1>1. Shapes'
  BY DEF ClickSwitch, Act, server, Shapes, SettingsTypeOK
<1>2. (SavedIsStored /\ SavingApplied)'
  BY DEF ClickSwitch, Act, server, Shapes, SavedIsStored, SavingApplied
<1>3. (Inviting /\ DeletesAreInvited)'
  BY DEF ClickSwitch, Act, server, Shapes, SettingsTypeOK, Inviting, DeletesAreInvited
<1> QED BY <1>1, <1>2, <1>3

LEMMA PostedStep ==
  ASSUME SettingsIInv, NEW w \in Windows, Posted(w)
  PROVE  SettingsIInv'
<1> USE DEF SettingsIInv, Windows, Posters, Questions,
           Saves, Gets, Switches, Forms
<1>1. Shapes'
  BY WindowAssumption DEF Posted, Throw, Invited, bounds, Shapes, SettingsTypeOK
<1>2. (SavedIsStored /\ SavingApplied)'
  BY DEF Posted, Throw, Invited, bounds, Shapes, SavedIsStored, SavingApplied
<1>3. (Inviting /\ DeletesAreInvited)'
  BY DEF Posted, Throw, Invited, bounds, Shapes, SettingsTypeOK, Inviting, DeletesAreInvited
<1> QED BY <1>1, <1>2, <1>3

LEMMA HearPostedStep ==
  ASSUME SettingsIInv, NEW w \in Windows, HearPosted(w)
  PROVE  SettingsIInv'
<1> USE DEF SettingsIInv, Windows, Posters, Questions,
           Saves, Gets, Switches, Forms
<1>1. Shapes'
  BY ReadIsAnAnswer DEF HearPosted, Asked, server, bounds, Shapes, SettingsTypeOK
<1>2. (SavedIsStored /\ SavingApplied)'
  BY ReadIsAnAnswer DEF HearPosted, Asked, server, bounds, Shapes, SavedIsStored,
     SavingApplied
<1>3. (Inviting /\ DeletesAreInvited)'
  BY ReadIsAnAnswer DEF HearPosted, Asked, server, bounds, Shapes, SettingsTypeOK,
     Inviting, DeletesAreInvited
<1> QED BY <1>1, <1>2, <1>3

LEMMA PostFailsStep ==
  ASSUME SettingsIInv, NEW w \in Windows, PostFails(w)
  PROVE  SettingsIInv'
<1> USE DEF SettingsIInv, Windows, Posters, Questions,
           Saves, Gets, Switches, Forms
<1>1. Shapes'
  BY DEF PostFails, Fails, server, Shapes, SettingsTypeOK
<1>2. (SavedIsStored /\ SavingApplied)'
  BY DEF PostFails, Fails, server, Shapes, SavedIsStored, SavingApplied
<1>3. (Inviting /\ DeletesAreInvited)'
  BY DEF PostFails, Fails, server, Shapes, SettingsTypeOK, Inviting, DeletesAreInvited
<1> QED BY <1>1, <1>2, <1>3

LEMMA TypeStep ==
  ASSUME SettingsIInv, NEW pair \in Typed, Type(pair)
  PROVE  SettingsIInv'
<1> USE DEF SettingsIInv, Windows, Posters, Questions,
           Saves, Gets, Switches, Forms
<1>1. Shapes'
  BY PairsAssumption DEF Type, Act, server, Shapes, SettingsTypeOK
<1>2. (SavedIsStored /\ SavingApplied)'
  BY DEF Type, Act, server, Shapes, SavedIsStored, SavingApplied
<1>3. (Inviting /\ DeletesAreInvited)'
  BY DEF Type, Act, server, Shapes, SettingsTypeOK, Inviting, DeletesAreInvited
<1> QED BY <1>1, <1>2, <1>3

LEMMA ResetStep ==
  ASSUME SettingsIInv, Reset
  PROVE  SettingsIInv'
<1> USE DEF SettingsIInv, Windows, Posters, Questions,
           Saves, Gets, Switches, Forms
<1>1. Shapes'
  BY DefaultIsOrdered, OrderedArePairs DEF Reset, Act, server, Shapes, SettingsTypeOK
<1>2. (SavedIsStored /\ SavingApplied)'
  BY DefaultIsOrdered, OrderedArePairs DEF Reset, Act, server, Shapes, SavedIsStored,
     SavingApplied
<1>3. (Inviting /\ DeletesAreInvited)'
  BY DefaultIsOrdered, OrderedArePairs DEF Reset, Act, server, Shapes, SettingsTypeOK,
     Inviting, DeletesAreInvited
<1> QED BY <1>1, <1>2, <1>3

LEMMA ApplyStep ==
  ASSUME SettingsIInv, Apply
  PROVE  SettingsIInv'
<1>1. Shapes'
  <2>1. Acceptable(form.pair) => form.pair \in Ordered
    BY NumbersAre DEF SettingsIInv, Shapes, SettingsTypeOK, Forms, Acceptable, Ordered
  <2>2. form' \in Forms
    BY <2>1, OrderedArePairs DEF SettingsIInv, Shapes, SettingsTypeOK, Apply, Forms
  <2>3. \A pair \in NumberPairs : Sent(pair) \in Saves
    BY EmptyIs, OrderedArePairs DEF Sent, NoSave, Saves
  <2>4. save' \in [Posters -> Saves]
    BY <2>1, <2>3, OrderedArePairs DEF SettingsIInv, Shapes, SettingsTypeOK, Apply, Posters
  <2>5. thresholds' \in Ordered
    BY <2>1 DEF SettingsIInv, Shapes, SettingsTypeOK, Apply
  <2> QED BY <2>1, <2>2, <2>3, <2>4, <2>5, ShapesHold DEF Apply, Act, SettingsIInv,
     Shapes, SettingsTypeOK
<1>2. (SavedIsStored /\ SavingApplied)'
  <2>1. CASE Acceptable(form.pair)
    <3>1. /\ form'.note = "none" /\ form'.applied = form.pair
          /\ save'["page"].at = "sent" /\ save'["page"].body = form.pair
      <4>1. form'.note = "none" /\ form'.applied = form.pair
        BY <2>1 DEF Apply, SettingsIInv, Shapes, Forms
      <4>2. save'["page"] = Sent(form.pair)
        BY <2>1 DEF Apply, SettingsIInv, Shapes, Posters
      <4>3. Sent(form.pair).at = "sent" /\ Sent(form.pair).body = form.pair
        BY DEF Sent, NoSave
      <4> QED BY <4>1, <4>2, <4>3
    <3> QED BY <2>1, <3>1 DEF SavedIsStored, SavingApplied, Acceptable
  <2>2. CASE ~Acceptable(form.pair)
    BY <2>2 DEF Apply, SettingsIInv, Shapes, Forms, SavedIsStored, SavingApplied
  <2> QED BY <2>1, <2>2
<1>3. (Inviting /\ DeletesAreInvited)'
  BY DEF Apply, Act, SettingsIInv, Windows, Questions, Gets, Shapes, SettingsTypeOK,
     Inviting, DeletesAreInvited
<1> QED BY <1>1, <1>2, <1>3 DEF SettingsIInv

LEMMA HearSavedStep ==
  ASSUME SettingsIInv, HearSaved
  PROVE  SettingsIInv'
<1> USE DEF SettingsIInv, Windows, Posters, Questions,
           Saves, Gets, Switches, Forms
<1>1. Shapes'
  BY EmptyIs DEF HearSaved, Success, NoSave, bounds, Shapes, SettingsTypeOK
<1>2. (SavedIsStored /\ SavingApplied)'
  BY EmptyIs DEF HearSaved, Success, NoSave, bounds, Shapes, SavedIsStored, SavingApplied
<1>3. (Inviting /\ DeletesAreInvited)'
  BY EmptyIs DEF HearSaved, Success, NoSave, bounds, Shapes, SettingsTypeOK, Inviting,
     DeletesAreInvited
<1> QED BY <1>1, <1>2, <1>3

LEMMA ClickDeleteStep ==
  ASSUME SettingsIInv, ClickDelete
  PROVE  SettingsIInv'
<1> USE DEF SettingsIInv, Windows, Posters, Questions,
           Saves, Gets, Switches, Forms
<1>1. Shapes'
  BY ReadIsAnAnswer DEF ClickDelete, Act, Asked, server, pageVars, Shapes, SettingsTypeOK
<1>2. (SavedIsStored /\ SavingApplied)'
  BY ReadIsAnAnswer DEF ClickDelete, Act, Asked, server, pageVars, Shapes, SavedIsStored,
     SavingApplied
<1>3. (Inviting /\ DeletesAreInvited)'
  BY ReadIsAnAnswer DEF ClickDelete, Act, Asked, server, pageVars, Shapes, SettingsTypeOK,
     Inviting, DeletesAreInvited
<1> QED BY <1>1, <1>2, <1>3

LEMMA DeletedStep ==
  ASSUME SettingsIInv, Deleted
  PROVE  SettingsIInv'
<1> USE DEF SettingsIInv, Windows, Posters, Questions,
           Saves, Gets, Switches, Forms
<1>1. Shapes'
  BY DEF Deleted, server, pageVars, bounds, Shapes, SettingsTypeOK
<1>2. (SavedIsStored /\ SavingApplied)'
  BY DEF Deleted, server, pageVars, bounds, Shapes, SavedIsStored, SavingApplied
<1>3. (Inviting /\ DeletesAreInvited)'
  BY DEF Deleted, server, pageVars, bounds, Shapes, SettingsTypeOK, Inviting, DeletesAreInvited
<1> QED BY <1>1, <1>2, <1>3

-----------------------------------------------------------------------------
(* The settings page: everybody else, and time.                              *)

LEMMA OtherThrowsStep ==
  ASSUME SettingsIInv, NEW w \in Windows, NEW wanted \in BOOLEAN, OtherThrows(w, wanted)
  PROVE  SettingsIInv'
<1> USE DEF SettingsIInv, Windows, Posters, Questions,
           Saves, Gets, Switches, Forms
<1>1. Shapes'
  BY WindowAssumption DEF OtherThrows, Throw, Invited, Act, pageVars, Shapes, SettingsTypeOK
<1>2. (SavedIsStored /\ SavingApplied)'
  BY DEF OtherThrows, Throw, Invited, Act, pageVars, Shapes, SavedIsStored, SavingApplied
<1>3. (Inviting /\ DeletesAreInvited)'
  BY DEF OtherThrows, Throw, Invited, Act, pageVars, Shapes, SettingsTypeOK, Inviting,
     DeletesAreInvited
<1> QED BY <1>1, <1>2, <1>3

LEMMA OtherPostsStep ==
  ASSUME SettingsIInv, NEW body \in Bodies, OtherPosts(body)
  PROVE  SettingsIInv'
<1> USE DEF SettingsIInv, Windows, Posters, Questions,
           Saves, Gets, Switches, Forms
<1>1. Shapes'
  BY EmptyIs, PairsAssumption DEF OtherPosts, Sent, NoSave, Act, pageVars, Shapes,
     SettingsTypeOK
<1>2. (SavedIsStored /\ SavingApplied)'
  BY EmptyIs DEF OtherPosts, Sent, NoSave, Act, pageVars, Shapes, SavedIsStored, SavingApplied
<1>3. (Inviting /\ DeletesAreInvited)'
  BY EmptyIs DEF OtherPosts, Sent, NoSave, Act, pageVars, Shapes, SettingsTypeOK, Inviting,
     DeletesAreInvited
<1> QED BY <1>1, <1>2, <1>3

LEMMA EditStep ==
  ASSUME SettingsIInv, NEW content \in Edits, Edit(content)
  PROVE  SettingsIInv'
<1>1. Shapes'
  <2>1. \A d \in Posters : save[d] \in Saves
    BY DEF SettingsIInv, Shapes, SettingsTypeOK, Posters
  <2>2. \A s \in Saves : [s EXCEPT !.alone = FALSE] \in Saves
    BY DEF Saves
  <2>3. save' \in [Posters -> Saves]
    BY <2>1, <2>2 DEF SettingsIInv, Shapes, SettingsTypeOK, Edit, Disturbed, Posters
  <2>4. file' \in Contents
    BY PairsAssumption DEF Edit
  <2>5. form' \in Forms
    BY DEF SettingsIInv, Shapes, SettingsTypeOK, Edit, Forms
  <2> QED BY <2>1, <2>2, <2>3, <2>4, <2>5, ShapesHold DEF Edit, Act, Disturbed,
     SettingsIInv, Shapes, SettingsTypeOK
<1>2. (SavedIsStored /\ SavingApplied)'
  BY DEF Edit, Act, Disturbed, SettingsIInv, Posters, Saves, Forms, Shapes,
     SavedIsStored, SavingApplied
<1>3. (Inviting /\ DeletesAreInvited)'
  BY DEF Edit, Act, Disturbed, SettingsIInv, Windows, Questions, Gets, Shapes,
     SettingsTypeOK, Inviting, DeletesAreInvited
<1> QED BY <1>1, <1>2, <1>3 DEF SettingsIInv

LEMMA TickStep ==
  ASSUME SettingsIInv, Tick
  PROVE  SettingsIInv'
<1> USE DEF SettingsIInv, Windows, Posters, Questions,
           Saves, Gets, Switches, Forms
<1>1. Shapes'
  BY WindowAssumption DEF Tick, pageVars, bounds, Shapes, SettingsTypeOK
<1>2. (SavedIsStored /\ SavingApplied)'
  BY DEF Tick, pageVars, bounds, Shapes, SavedIsStored, SavingApplied
<1>3. (Inviting /\ DeletesAreInvited)'
  BY DEF Tick, pageVars, bounds, Shapes, SettingsTypeOK, Inviting, DeletesAreInvited
<1> QED BY <1>1, <1>2, <1>3

LEMMA RestartStep ==
  ASSUME SettingsIInv, Restart
  PROVE  SettingsIInv'
<1> USE DEF SettingsIInv, Windows, Posters, Questions,
           Saves, Gets, Switches, Forms
<1>1. Shapes'
  BY WindowAssumption DEF Restart, Failed, Act, pageVars, Shapes, SettingsTypeOK
<1>2. (SavedIsStored /\ SavingApplied)'
  BY DEF Restart, Failed, Act, pageVars, Shapes, SavedIsStored, SavingApplied
<1>3. (Inviting /\ DeletesAreInvited)'
  BY DEF Restart, Failed, Act, pageVars, Shapes, SettingsTypeOK, Inviting, DeletesAreInvited
<1> QED BY <1>1, <1>2, <1>3

LEMMA ReenterStep ==
  ASSUME SettingsIInv, Reenter
  PROVE  SettingsIInv'
<1>1. Shapes'
  <2>1. Silent \in Gets
    BY ReadIsAnAnswer DEF SettingsIInv, Shapes, SettingsTypeOK, Silent, Gets
  <2>2. get' \in [Questions -> Gets]
    BY <2>1 DEF SettingsIInv, Shapes, SettingsTypeOK, Reenter
  <2>3. NoSave \in Saves
    BY EmptyIs DEF NoSave, Saves
  <2>4. save' \in [Posters -> Saves]
    BY <2>3 DEF SettingsIInv, Shapes, SettingsTypeOK, Reenter, Posters
  <2>5. form' \in Forms
    BY OrderedArePairs DEF SettingsIInv, Shapes, SettingsTypeOK, Reenter, FreshPage,
       Blank, Forms
  <2>6. switch' \in [Windows -> Switches] /\ card' \in [Windows -> BOOLEAN]
    BY DEF SettingsIInv, Shapes, SettingsTypeOK, Reenter, FreshPage, Switches
  <2> QED BY <2>1, <2>2, <2>3, <2>4, <2>5, <2>6, ShapesHold DEF Reenter, FreshPage, Act,
     SettingsIInv, Shapes, SettingsTypeOK
<1>2. (SavedIsStored /\ SavingApplied)'
  BY DEF Blank, NoSave, Reenter, FreshPage, Act, SettingsIInv, Posters, Saves, Forms,
     Shapes, SavedIsStored, SavingApplied
<1>3. (Inviting /\ DeletesAreInvited)'
  BY DEF Silent, Reenter, FreshPage, Act, SettingsIInv, Windows, Questions, Gets, Shapes,
     SettingsTypeOK, Inviting, DeletesAreInvited
<1> QED BY <1>1, <1>2, <1>3 DEF SettingsIInv

-----------------------------------------------------------------------------
(* The settings page: its theorems.                                          *)

LEMMA SettingsInitIInv ==
  ASSUME SettingsInit
  PROVE  SettingsIInv
<1> USE DEF SettingsInit
<1>1. NoSave \in Saves /\ file \in Contents
  BY EmptyIs, PairsAssumption DEF NoSave, Saves
<1>2. left \in [Windows -> 0..WindowSecs]
  BY WindowAssumption
<1>3. NoAnswer \in Answers
  <2>1. NoSuccess \in Answers
    BY DefaultIsOrdered, WindowAssumption DEF NoSuccess, Answers
  <2> QED BY <2>1 DEF NoAnswer, Answers
<1>4. get \in [Questions -> Gets]
  BY <1>3 DEF Asked, Silent, Gets
<1>5. form \in Forms /\ form.note = "none"
  BY EmptyIs DEF Blank, Forms
<1>6. Shapes
  BY <1>1, <1>2, <1>4, <1>5, ShapesHold, DefaultIsOrdered DEF Shapes, SettingsTypeOK,
     Switches
<1>7. SavedIsStored /\ SavingApplied
  BY <1>5 DEF SavedIsStored, SavingApplied, NoSave, Posters
<1>8. Inviting /\ DeletesAreInvited
  BY DEF Inviting, DeletesAreInvited, Questions, Silent
<1> QED BY <1>6, <1>7, <1>8 DEF SettingsIInv

LEMMA SettingsStepIInv ==
  ASSUME SettingsIInv, [SettingsNext]_settingsVars
  PROVE  SettingsIInv'
<1>1. CASE People
  BY <1>1, ClickStep, OtherThrowsStep, TypeStep, ResetStep, ApplyStep, ClickDeleteStep,
     RestartStep, ReenterStep, OtherPostsStep, EditStep DEF People
<1>2. ASSUME NEW c \in Posters, Saving(c) \/ SaveFails(c)
      PROVE  SettingsIInv'
  BY <1>2, LoadFileStep, OpenFileStep, WriteFileStep, SaveFailsStep DEF Saving
<1>3. ASSUME NEW q \in Questions, AnswerQuestion(q) \/ Heard(q)
      PROVE  SettingsIInv'
  BY <1>3, AnswerStep, HearPollStep, HearThresholdsStep, HearGateStep, HearStateStep
     DEF Heard
<1>4. ASSUME NEW w \in Windows, Posted(w) \/ HearPosted(w) \/ PostFails(w)
      PROVE  SettingsIInv'
  BY <1>4, PostedStep, HearPostedStep, PostFailsStep
<1>5. CASE Tick \/ Poll \/ HearSaved \/ Deleted
  BY <1>5, TickStep, PollStep, HearSavedStep, DeletedStep
<1>6. CASE UNCHANGED settingsVars
  BY <1>6 DEF settingsVars, server, pageVars, bounds, SettingsIInv, Shapes,
     SettingsTypeOK, SavedIsStored, SavingApplied, Inviting,
     DeletesAreInvited, Acceptable
<1> QED BY <1>1, <1>2, <1>3, <1>4, <1>5, <1>6 DEF SettingsNext

(* Every reachable state of the settings page and the server's part of it    *)
(* satisfies the inductive invariant: every pair anybody reads is in order,  *)
(* a POST of the form is of the pair last applied, and an open window is an  *)
(* invitation (ui/src/pages/settings.rs:58-270, app/ui_settings.rs:35-75).   *)
THEOREM SettingsInvariantHolds == SettingsSpec => []SettingsIInv
<1>1. SettingsInit => SettingsIInv
  BY SettingsInitIInv
<1>2. SettingsIInv /\ [SettingsNext]_settingsVars => SettingsIInv'
  BY SettingsStepIInv
<1> QED BY <1>1, <1>2, PTL DEF SettingsSpec

(* "Saved." is said only of what is stored, a delete is sent only if the     *)
(* window was open since it was asked for, and the thresholds in force are   *)
(* never the wrong way round, whatever is typed, posted or left in the file  *)
(* and whatever fails (pages/settings.rs:240-270, api/mod.rs:345-361).       *)
THEOREM PageTellsTheTruth == SettingsSpec => []SettingsInv
<1>1. SettingsIInv => SettingsInv
  BY DEF SettingsIInv, Shapes, SettingsInv, WarnBeforeBad, Ordered
<1> QED BY <1>1, SettingsInvariantHolds, PTL

(* The numbers are at most swapped.                                          *)
LEMMA WrittenKeepsTheRest ==
  ASSUME SettingsIInv, NEW c \in Posters, WriteFile(c),
         NEW n \in Numbers \ DOMAIN save[c].body
  PROVE  \E k \in Numbers : file'[k] = save[c].before[n]
<1> DEFINE merged == Merged(save[c].body, save[c].before)
<1>1. merged[n] = save[c].before[n]
  BY DEF Merged, Patched
<1>2. PICK k \in Numbers : Sanitized(merged)[k] = merged[n]
  BY NumbersAre DEF Sanitized
<1> QED BY <1>1, <1>2 DEF WriteFile

(* A body that names one of the numbers keeps the other, for any bodies and  *)
(* any contents of the file (set_settings_action.rs:52-57).                  *)
THEOREM NothingIsReset == SettingsSpec => NothingReset
<1>1. SettingsIInv /\ [SettingsNext]_settingsVars =>
        [\A c \in Posters :
           save[c].at = "emptied" /\ save[c].alone /\ WriteFile(c) =>
             \A n \in Numbers \ DOMAIN save[c].body :
               \E k \in Numbers : file'[k] = save[c].before[n]]_settingsVars
  BY WrittenKeepsTheRest
<1> QED BY <1>1, SettingsInvariantHolds, PTL DEF SettingsSpec, NothingReset

=============================================================================
