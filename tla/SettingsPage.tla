---------------------------- MODULE SettingsPage ----------------------------
(***************************************************************************)
(* The settings page of the web UI (ui/src/pages/settings.rs) and what it  *)
(* asks of the server: the two windows in which destructive calls may      *)
(* write - one of the UI, one of the MCP tools - and the two thresholds    *)
(* the server keeps in a file (app/ui_settings.rs).                        *)
(*                                                                         *)
(* The page polls while its switches are thrown, the gate of a delete      *)
(* (api/mod.rs) asks on its own account, and every question is answered    *)
(* when the server gets to it and heard when the browser gets to it.       *)
(* Other people throw the same switches, post to the same file and edit    *)
(* it, and the server restarts.                                            *)
(*                                                                         *)
(* Abstractions.  A window is the time it has left.  The content of the    *)
(* file is the numbers that can be read from it: none of them when it is   *)
(* missing, being written, or nonsense.  Of two writes of the file at once *)
(* the later is the one that stays.  Messages of the switches are left out.*)
(***************************************************************************)
EXTENDS Integers, FiniteSets

CONSTANTS
  WindowSecs,    \* WRITE_WINDOW_SECS
  Default,       \* DEFAULT_WARN_MS, DEFAULT_BAD_MS
  Typed,         \* what a person types into the form: pairs, or BAD
  BAD,
  Bodies,        \* what others post to /api/Settings
  Edits,         \* what somebody leaves in the file by hand
  MaxActs,       \* bound: what people do
  MaxFailures    \* bound: requests that fail

Windows == {"ui", "mcp"}
Numbers == {"warn", "bad"}
NumberPairs == [Numbers -> Nat]
Contents == [{} -> Nat] \cup [{"warn"} -> Nat] \cup [{"bad"} -> Nat] \cup NumberPairs

ASSUME WindowAssumption == WindowSecs \in Nat \ {0}
ASSUME PairsAssumption ==
  /\ Default \in NumberPairs /\ Default["warn"] < Default["bad"]
  /\ Typed \ {BAD} \subseteq NumberPairs
  /\ Bodies \subseteq Contents /\ Edits \subseteq Contents

VARIABLES
  left,          \* server: what is left of each window, 0 when it is shut
  file,          \* server: ui-settings.json
  save,          \* server: the POSTs of the page and of others to the file
  get,           \* questions of the page: what they are asked for -> where they are
  card,          \* page: whether each card shows its window open
  switch,        \* page: the switch of each card
  form,          \* page: the form of the thresholds
  thresholds,    \* page: the thresholds in force
  deletion,      \* a destructive call of another page of the UI
  acts, failures \* counters of the bounds

server == <<left, file, save>>
pageVars == <<card, switch, form, thresholds>>
bounds == <<acts, failures>>
settingsVars == <<server, get, pageVars, deletion, bounds>>

Act == acts < MaxActs /\ acts' = acts + 1 /\ UNCHANGED failures
Fails == failures < MaxFailures /\ failures' = failures + 1 /\ UNCHANGED acts

-----------------------------------------------------------------------------
(* The file.                                                                 *)

(* Warn before bad, whatever was asked for.                                  *)
Sanitized(pair) ==
  IF pair["warn"] > pair["bad"] THEN [warn |-> pair["bad"], bad |-> pair["warn"]] ELSE pair

Patched(content, onto) ==
  [n \in Numbers |-> IF n \in DOMAIN content THEN content[n] ELSE onto[n]]

Empty == [n \in {} |-> 0]

Loaded == Sanitized(Patched(file, Default))

(* Slip: what a body does not name is set to the default.                    *)
MergedOntoDefault(body, stored) == Patched(body, Default)

Merged(body, stored) == Patched(body, stored)

Posters == {"page", "other"}
NoSave == [at |-> "idle", body |-> Empty, before |-> Default, alone |-> TRUE]
Sent(body) == [NoSave EXCEPT !.at = "sent", !.body = body]

(* A save next to others that change the file is not alone.                  *)
Disturbed(saves, c) ==
  [d \in Posters |-> IF d # c THEN [saves[d] EXCEPT !.alone = FALSE] ELSE saves[d]]

Ended(c) == [save[c] EXCEPT !.at = IF c = "page" THEN "stored" ELSE "idle"]
Failed(c) == [save[c] EXCEPT !.at = IF c = "page" THEN "failed" ELSE "idle"]

(* Reading the body onto what is stored; opening the file empties it; then   *)
(* the pair is written.                                                      *)
LoadFile(c) ==
  /\ save[c].at = "sent"
  /\ save' = [save EXCEPT ![c].at = "loaded", ![c].before = Loaded,
                          ![c].alone = \A d \in Posters : save[d].at # "emptied"]
  /\ UNCHANGED <<left, file, get, pageVars, deletion, bounds>>

OpenFile(c) ==
  /\ save[c].at = "loaded"
  /\ file' = Empty
  /\ save' = Disturbed([save EXCEPT ![c].at = "emptied"], c)
  /\ form' = [form EXCEPT !.touched = @ \/ c = "other"]
  /\ UNCHANGED <<left, get, card, switch, thresholds, deletion, bounds>>

WriteFile(c) ==
  /\ save[c].at = "emptied"
  /\ file' = Sanitized(Merged(save[c].body, save[c].before))
  /\ save' = [Disturbed(save, c) EXCEPT ![c] = Ended(c)]
  /\ form' = [form EXCEPT !.touched = c = "other"]
  /\ UNCHANGED <<left, get, card, switch, thresholds, deletion, bounds>>

(* A body that is refused, a folder or a file that can not be written.       *)
SaveFails(c) ==
  /\ save[c].at \in {"sent", "loaded", "emptied"}
  /\ Fails
  /\ save' = [save EXCEPT ![c] = Failed(c)]
  /\ UNCHANGED <<left, file, get, pageVars, deletion>>

-----------------------------------------------------------------------------
(* Questions and answers.  An answer that is no success is read as defaults. *)

Truth == [ok |-> TRUE, left |-> left, pair |-> Loaded]
NoSuccess == [ok |-> TRUE, left |-> [w \in Windows |-> 0], pair |-> Default]
NoAnswer == [NoSuccess EXCEPT !.ok = FALSE]

(* What the one who asked reads of an answer.                                *)
Read(q, answer) ==
  [answer EXCEPT !.pair = IF q = "thresholds" THEN @ ELSE Default,
                 !.left = [w \in Windows |->
                             IF q \in {w, "poll"} \/ (q = "gate" /\ w = "ui") THEN @[w] ELSE 0]]

Asked == [at |-> "sent", answer |-> NoAnswer]
Silent == [at |-> "idle", answer |-> NoAnswer]
Has(q, answer) == get[q] = [at |-> "answered", answer |-> answer]

AnswerQuestion(q) ==
  /\ get[q].at = "sent"
  /\ \/ /\ get' = [get EXCEPT ![q] = [at |-> "answered", answer |-> Read(q, Truth)]]
        /\ UNCHANGED bounds
     \/ /\ Fails
        /\ \E answer \in {NoSuccess, NoAnswer} :
             get' = [get EXCEPT ![q] = [at |-> "answered", answer |-> answer]]
  /\ UNCHANGED <<server, pageVars, deletion>>

Shown(answer, w) == answer.left[w] > 0

(* Slip: a poll that fails is the last one.                                  *)
PollEnds(answer) == answer.ok

PollsAgain(answer) == TRUE

Poll ==
  /\ get["poll"].at = "idle"
  /\ get' = [get EXCEPT !["poll"] = Asked]
  /\ UNCHANGED <<server, pageVars, deletion, bounds>>

HearPoll(answer) ==
  /\ Has("poll", answer)
  /\ card' = IF answer.ok THEN [w \in Windows |-> Shown(answer, w)] ELSE card
  /\ get' = [get EXCEPT !["poll"] =
               IF PollsAgain(answer) THEN Silent ELSE [@ EXCEPT !.at = "over"]]
  /\ UNCHANGED <<server, switch, form, thresholds, deletion, bounds>>

(* The thresholds are asked for once, when the UI starts.                    *)
HearThresholds(answer) ==
  /\ Has("thresholds", answer)
  /\ thresholds' = IF answer.ok THEN answer.pair ELSE thresholds
  /\ get' = [get EXCEPT !["thresholds"] = Silent]
  /\ UNCHANGED <<server, card, switch, form, deletion, bounds>>

-----------------------------------------------------------------------------
(* The switches.                                                             *)

Throw(w, wanted) == left' = [left EXCEPT ![w] = IF wanted THEN WindowSecs ELSE 0]
Invited(w, wanted) ==
  deletion' = [deletion EXCEPT !.invited = @ \/ (deletion.at # "idle" /\ w = "ui" /\ wanted)]

(* A card offers Disable only while it shows the window open, and neither    *)
(* button while it is working.                                               *)
ClickSwitch(w, wanted) ==
  /\ switch[w].at = "idle"
  /\ wanted \/ card[w]
  /\ Act
  /\ switch' = [switch EXCEPT ![w] = [at |-> "posting", wanted |-> wanted]]
  /\ UNCHANGED <<server, get, card, form, thresholds, deletion>>

Posted(w) ==
  /\ switch[w].at = "posting"
  /\ Throw(w, switch[w].wanted)
  /\ Invited(w, switch[w].wanted)
  /\ switch' = [switch EXCEPT ![w].at = "posted"]
  /\ UNCHANGED <<file, save, get, card, form, thresholds, bounds>>

(* The state is read back rather than assumed.                               *)
HearPosted(w) ==
  /\ switch[w].at = "posted"
  /\ switch' = [switch EXCEPT ![w].at = "reading"]
  /\ get' = [get EXCEPT ![w] = Asked]
  /\ UNCHANGED <<server, card, form, thresholds, deletion, bounds>>

PostFails(w) ==
  /\ switch[w].at \in {"posting", "posted"}
  /\ Fails
  /\ switch' = [switch EXCEPT ![w] = [at |-> "idle", wanted |-> FALSE]]
  /\ UNCHANGED <<server, get, card, form, thresholds, deletion>>

HearState(w, answer) ==
  /\ Has(w, answer)
  /\ card' = [card EXCEPT ![w] = IF answer.ok THEN Shown(answer, w)
                                 ELSE switch[w].wanted]
  /\ switch' = [switch EXCEPT ![w] = [at |-> "idle", wanted |-> FALSE]]
  /\ get' = [get EXCEPT ![w] = Silent]
  /\ UNCHANGED <<server, form, thresholds, deletion, bounds>>

-----------------------------------------------------------------------------
(* The form.  Saving is while its POST is not answered.                      *)

Blank(pair) == [pair |-> pair, note |-> "none", applied |-> pair, touched |-> FALSE]

Type(pair) ==
  /\ Act
  /\ form' = [form EXCEPT !.pair = pair, !.note = IF @ = "refused" THEN @ ELSE "none"]
  /\ UNCHANGED <<server, get, card, switch, thresholds, deletion>>

Reset ==
  /\ Act
  /\ form' = [form EXCEPT !.pair = Default, !.note = "none"]
  /\ UNCHANGED <<server, get, card, switch, thresholds, deletion>>

Acceptable(pair) == pair # BAD /\ pair["warn"] < pair["bad"]

(* The thresholds are in force before the round trip.                        *)
Apply ==
  /\ save["page"].at = "idle"
  /\ Act
  /\ IF Acceptable(form.pair)
     THEN /\ thresholds' = form.pair
          /\ form' = [form EXCEPT !.note = "none", !.applied = form.pair, !.touched = FALSE]
          /\ save' = [save EXCEPT !["page"] = Sent(form.pair)]
     ELSE form' = [form EXCEPT !.note = "refused"] /\ UNCHANGED <<thresholds, save>>
  /\ UNCHANGED <<left, file, get, card, switch, deletion>>

Success(at) == at = "stored"

HearSaved ==
  /\ save["page"].at \in {"stored", "failed"}
  /\ form' = [form EXCEPT !.note = IF Success(save["page"].at) THEN "saved" ELSE "kept"]
  /\ save' = [save EXCEPT !["page"] = NoSave]
  /\ UNCHANGED <<left, file, get, card, switch, thresholds, deletion, bounds>>

-----------------------------------------------------------------------------
(* A destructive call goes through a gate of the UI's own: the server would  *)
(* take it.                                                                  *)

(* Slip: what the card shows is believed.                                    *)
AllowedByTheCard(answer) == card["ui"]

Allowed(answer) == answer.ok /\ answer.left["ui"] > 0

ClickDelete ==
  /\ deletion.at = "idle"
  /\ Act
  /\ deletion' = [at |-> "asking", invited |-> left["ui"] > 0]
  /\ get' = [get EXCEPT !["gate"] = Asked]
  /\ UNCHANGED <<server, pageVars>>

HearGate(answer) ==
  /\ Has("gate", answer)
  /\ deletion' = IF Allowed(answer) THEN [deletion EXCEPT !.at = "deleting"]
                 ELSE [at |-> "idle", invited |-> FALSE]
  /\ get' = [get EXCEPT !["gate"] = Silent]
  /\ UNCHANGED <<server, pageVars, bounds>>

Deleted ==
  /\ deletion.at = "deleting"
  /\ deletion' = [at |-> "idle", invited |-> FALSE]
  /\ UNCHANGED <<server, get, pageVars, bounds>>

-----------------------------------------------------------------------------
(* Everybody else, and time.                                                 *)

OtherThrows(w, wanted) ==
  /\ Act
  /\ Throw(w, wanted)
  /\ Invited(w, wanted)
  /\ UNCHANGED <<file, save, get, pageVars>>

OtherPosts(body) ==
  /\ save["other"].at = "idle"
  /\ Act
  /\ save' = [save EXCEPT !["other"] = Sent(body)]
  /\ UNCHANGED <<left, file, get, pageVars, deletion>>

Edit(content) ==
  /\ Act
  /\ file' = content
  /\ save' = Disturbed(save, "nobody")
  /\ form' = [form EXCEPT !.touched = TRUE]
  /\ UNCHANGED <<left, get, card, switch, thresholds, deletion>>

Tick ==
  /\ \E w \in Windows : left[w] > 0
  /\ left' = [w \in Windows |-> IF left[w] > 0 THEN left[w] - 1 ELSE 0]
  /\ UNCHANGED <<file, save, get, pageVars, deletion, bounds>>

(* The windows are in memory; what was being saved is cut off where it was.  *)
Restart ==
  /\ Act
  /\ left' = [w \in Windows |-> 0]
  /\ save' = [c \in Posters |-> IF save[c].at \in {"idle", "stored", "failed"} THEN save[c]
                                ELSE Failed(c)]
  /\ UNCHANGED <<file, get, pageVars, deletion>>

FreshPage(pair) ==
  /\ card' = [w \in Windows |-> FALSE]
  /\ switch' = [w \in Windows |-> [at |-> "idle", wanted |-> FALSE]]
  /\ form' = Blank(pair)
  /\ thresholds' = pair

Questions == Windows \cup {"poll", "thresholds", "gate"}

(* The page is left and entered again; its tasks end with it.  A POST of the *)
(* form that the server has begun on is nobody's then (one of a switch is    *)
(* OtherThrows).                                                             *)
Reenter ==
  /\ Act
  /\ FreshPage(thresholds)
  /\ get' = [q \in Questions |-> IF q \in {"thresholds", "gate"} THEN get[q]
                                 ELSE Silent]
  /\ IF save["page"].at \in {"idle", "stored", "failed"}
     THEN save' = [save EXCEPT !["page"] = NoSave]
     ELSE /\ save["other"].at = "idle"
          /\ save' = [page |-> NoSave, other |-> save["page"]]
  /\ UNCHANGED <<left, file, deletion>>

SettingsInit ==
  /\ left = [w \in Windows |-> 0]
  /\ file \in {Empty} \cup Edits
  /\ save = [c \in Posters |-> NoSave]
  /\ get = [q \in Questions |-> IF q = "thresholds" THEN Asked ELSE Silent]
  /\ card = [w \in Windows |-> FALSE]
  /\ switch = [w \in Windows |-> [at |-> "idle", wanted |-> FALSE]]
  /\ form = Blank(Default)
  /\ thresholds = Default
  /\ deletion = [at |-> "idle", invited |-> FALSE]
  /\ acts = 0 /\ failures = 0

Saving(c) == LoadFile(c) \/ OpenFile(c) \/ WriteFile(c)
Heard(q) ==
  \/ q = "poll" /\ HearPoll(get[q].answer)
  \/ q = "thresholds" /\ HearThresholds(get[q].answer)
  \/ q = "gate" /\ HearGate(get[q].answer)
  \/ q \in Windows /\ HearState(q, get[q].answer)

People ==
  \/ \E w \in Windows, wanted \in BOOLEAN : ClickSwitch(w, wanted) \/ OtherThrows(w, wanted)
  \/ \E pair \in Typed : Type(pair)
  \/ Reset \/ Apply \/ ClickDelete \/ Restart \/ Reenter
  \/ \E body \in Bodies : OtherPosts(body)
  \/ \E content \in Edits : Edit(content)

SettingsNext ==
  \/ People \/ Tick
  \/ \E c \in Posters : Saving(c) \/ SaveFails(c)
  \/ \E q \in Questions : AnswerQuestion(q) \/ Heard(q)
  \/ \E w \in Windows : Posted(w) \/ HearPosted(w) \/ PostFails(w)
  \/ Poll \/ HearSaved \/ Deleted

SettingsSpec == SettingsInit /\ [][SettingsNext]_settingsVars

(* The server serves and answers, and the browser hears answers and sleeps   *)
(* no longer than it means to.  Nobody is made to click, and no time passes  *)
(* that has to.                                                              *)
FairSettingsSpec ==
  /\ SettingsSpec
  /\ \A q \in Questions : WF_settingsVars(AnswerQuestion(q)) /\ WF_settingsVars(Heard(q))
  /\ \A c \in Posters : WF_settingsVars(Saving(c))
  /\ \A w \in Windows : WF_settingsVars(Posted(w)) /\ WF_settingsVars(HearPosted(w))
  /\ WF_settingsVars(Poll) /\ WF_settingsVars(HearSaved)

-----------------------------------------------------------------------------
SettingsTypeOK ==
  /\ left \in [Windows -> 0..WindowSecs]
  /\ DOMAIN file \subseteq Numbers
  /\ DOMAIN save = Posters /\ DOMAIN get = Questions
  /\ card \in [Windows -> BOOLEAN]
  /\ form.note \in {"none", "refused", "saved", "kept"}
  /\ thresholds \in [Numbers -> Nat]

(* No reader is ever painted against a pair the wrong way round, whatever is *)
(* posted and whatever a person leaves in the file.  (ui_settings.rs:35-49,  *)
(* 60-75)                                                                    *)
WarnBeforeBad == thresholds["warn"] <= thresholds["bad"]

(* "Saved." is true: the file holds what was applied, until somebody else    *)
(* changes it.  (pages/settings.rs:250-270)                                  *)
SavedIsStored == form.note = "saved" /\ ~form.touched => file = form.applied

(* A destructive call is sent only if the window of the UI - and not that of *)
(* the tools - was open at some moment since it was asked for, whatever the  *)
(* page showed and whatever was answered.  (api/mod.rs:345-361)              *)
DeletesAreInvited == deletion.at = "deleting" => deletion.invited

(* What the page says and does is backed by the server: pairs in order,      *)
(* "Saved." only of what is stored, deletes only by invitation               *)
(* (pages/settings.rs:240-270, api/mod.rs:345-361, ui_settings.rs:35-75).    *)
SettingsInv == SettingsTypeOK /\ WarnBeforeBad /\ SavedIsStored /\ DeletesAreInvited

(* The inductive invariant.  Types, and every pair anybody holds in order.   *)
Ordered == {pair \in NumberPairs : pair["warn"] <= pair["bad"]}
Answers == [ok : BOOLEAN, left : [Windows -> 0..WindowSecs], pair : Ordered]
Saves == [at : {"idle", "sent", "loaded", "emptied", "stored", "failed"},
          body : Contents, before : NumberPairs, alone : BOOLEAN]
Gets == [at : {"idle", "sent", "answered"}, answer : Answers]
Switches == [at : {"idle", "posting", "posted", "reading"}, wanted : BOOLEAN]
Forms == [pair : {BAD} \cup NumberPairs, note : {"none", "refused", "saved", "kept"},
          applied : NumberPairs, touched : BOOLEAN]

Shapes ==
  /\ SettingsTypeOK
  /\ file \in Contents
  /\ save \in [Posters -> Saves]
  /\ get \in [Questions -> Gets]
  /\ switch \in [Windows -> Switches]
  /\ form \in Forms
  /\ thresholds \in Ordered
  /\ deletion \in [at : {"idle", "asking", "deleting"}, invited : BOOLEAN]

(* A POST of the form, until it is heard of, is of the pair last applied.    *)
SavingApplied ==
  /\ save["page"].at # "idle" =>
       /\ form.note # "saved"
       /\ save["page"].body = form.applied
       /\ Acceptable(form.applied)
  /\ save["page"].at = "stored" /\ ~form.touched => file = form.applied

(* An open window, and an answer that says so, is an invitation.             *)
Inviting ==
  /\ get["gate"].at # "idle" => deletion.at = "asking"
  /\ deletion.at # "idle" /\ left["ui"] > 0 => deletion.invited
  /\ get["gate"].at = "answered" /\ get["gate"].answer.left["ui"] > 0 => deletion.invited

SettingsIInv == Shapes /\ SavedIsStored /\ SavingApplied /\ Inviting /\ DeletesAreInvited

(* A body naming one of the numbers does not lose the other: it is stored    *)
(* afterwards, as one of the two, when nothing else changed the file between *)
(* the read of it and the write.  (set_settings_action.rs:52-57)             *)
NothingReset ==
  [][\A c \in Posters :
       save[c].at = "emptied" /\ save[c].alone /\ WriteFile(c) =>
         \A n \in Numbers \ DOMAIN save[c].body :
           \E k \in Numbers : file'[k] = save[c].before[n]]_settingsVars

(* When a window is shut for good, its card ends up showing it shut, however *)
(* answers and failures fell; and no switch works for ever.                  *)
(* (pages/settings.rs:58-141, 151-174)                                       *)
SettingsSettle ==
  /\ \A w \in Windows : <>[](left[w] = 0) => <>[](~card[w])
  /\ \A w \in Windows : []<>(switch[w].at = "idle")

(* Not so: the form shows what is in force until a person types (a page      *)
(* opened by its own address fills the form before the answer arrives, and   *)
(* does not fill it again).  pages/settings.rs:203-213                       *)
FormFollows == get["thresholds"].at = "idle" /\ acts = 0 => form.pair = thresholds

(* Not so: what was applied stays in force until something else is applied.  *)
(* An answer to the question the UI asked at its start undoes it.            *)
(* pages/settings.rs:245-249, main.rs:92-109                                 *)
AppliedStays == form.note \in {"saved", "kept"} => thresholds = form.applied
=============================================================================
