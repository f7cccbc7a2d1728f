------------------------- MODULE TransactionsProofs -------------------------
(***************************************************************************)
(* The invariants of Transactions for any number of transactions, posts,   *)
(* commits and actions.  IInv is inductive: TypeOK by itself, OneOwner     *)
(* with TypeOK, Kept with both; AppliesWhatWasAcknowledged follows.        *)
(* Then Transactions implements AtomicTransactions.                        *)
(*                                                                         *)
(* The last part, which shares nothing with it, is about the tools of an   *)
(* agent (McpTools), for any number of calls and whatever the encoder      *)
(* makes of an object.  ToolsIInv is inductive: what a reader was not      *)
(* shown yet lies ahead of it, and a page that is not full is the last.    *)
(***************************************************************************)
EXTENDS Transactions, McpTools, FiniteSetTheorems, WellFoundedInduction, TLAPS

PostStep(p) ==
  \/ \E t \in Transactions : PostBegin(p, t)
  \/ PostLookUp(p) \/ PostMessage(p) \/ PostBreaks(p) \/ PostAppend(p) \/ PostAnswer(p)

CommitStep(c) ==
  \/ \E t \in Transactions : CommitBegin(c, t)
  \/ CommitLookUp(c) \/ CommitTake(c) \/ CommitApply(c)

(* Appending to a list, or taking it whole, loses nothing of it. *)
LEMMA ConcatIncludes ==
  ASSUME NEW S, NEW list \in Seq(S), NEW part \in Seq(S)
  PROVE  /\ list \o part \in Seq(S)
         /\ Includes(list \o part, part)
         /\ \A other : Includes(list, other) => Includes(list \o part, other)
<1>1. list \o part \in Seq(S)
  OBVIOUS
<1>2. Includes(list \o part, part)
  <2> SUFFICES ASSUME NEW n \in DOMAIN part
               PROVE  \E m \in DOMAIN (list \o part) : (list \o part)[m] = part[n]
    BY DEF Includes
  <2>1. Len(list) + n \in DOMAIN (list \o part)
    OBVIOUS
  <2>2. (list \o part)[Len(list) + n] = part[n]
    OBVIOUS
  <2> QED BY <2>1, <2>2
<1>3. ASSUME NEW other, Includes(list, other)
      PROVE  Includes(list \o part, other)
  <2>1. \A m \in DOMAIN list : m \in DOMAIN (list \o part) /\ (list \o part)[m] = list[m]
    OBVIOUS
  <2> QED BY <1>3, <2>1 DEF Includes
<1> QED BY <1>1, <1>2, <1>3

-----------------------------------------------------------------------------
(* Types. *)

LEMMA InitTypeOK == Init => TypeOK
<1> SUFFICES ASSUME Init PROVE TypeOK
  OBVIOUS
<1>1. NewPost \in PostState /\ NewPost.at \notin InPost
  BY DEF NewPost, PostState, InPost
<1>2. NewCommit \in CommitState /\ NewCommit.at \notin InCommit
  BY DEF NewCommit, CommitState, InCommit
<1> QED BY <1>1, <1>2 DEF Init, TypeOK

LEMMA PostingType ==
  ASSUME TypeOK, NEW p \in Posts, NEW next \in PostState,
         next.at \in InPost => next.tx \in started,
         Posting(p, next), UNCHANGED started
  PROVE  /\ post' \in [Posts -> PostState]
         /\ \A q \in Posts : post'[q].at \in InPost => post'[q].tx \in started'
BY DEF TypeOK, Posting

LEMMA CommittingType ==
  ASSUME TypeOK, NEW c \in Commits, NEW next \in CommitState,
         next.at \in InCommit => next.tx \in started,
         Committing(c, next), UNCHANGED started
  PROVE  /\ commit' \in [Commits -> CommitState]
         /\ \A d \in Commits : commit'[d].at \in InCommit => commit'[d].tx \in started'
BY DEF TypeOK, Committing

LEMMA PostTypeOK ==
  ASSUME TypeOK, NEW p \in Posts, PostStep(p)
  PROVE  TypeOK'
<1> DEFINE self == post[p]
<1>0. self \in PostState /\ (self.at \in InPost => self.tx \in started)
  BY DEF TypeOK
<1>1. ASSUME NEW t \in Transactions, PostBegin(p, t) PROVE TypeOK'
  <2>1. CASE t \in registry
    <3> DEFINE next == [self EXCEPT !.at = "found", !.tx = t]
    <3>1. next \in PostState /\ next.tx \in started
      BY <1>0, <1>1 DEF PostState, InPost, PostBegin
    <3>2. Posting(p, next) /\ quiet' = quiet \ {t}
      BY <1>1, <2>1 DEF PostBegin
    <3> HIDE DEF next
    <3> QED BY <1>1, <3>1, <3>2, PostingType DEF PostBegin, TypeOK
  <2>2. CASE t \notin registry
    <3> DEFINE next == [self EXCEPT !.at = "refused"]
    <3>1. next \in PostState /\ next.at \notin InPost
      BY <1>0 DEF PostState, InPost
    <3>2. Posting(p, next) /\ quiet' = quiet
      BY <1>1, <2>2 DEF PostBegin
    <3> HIDE DEF next
    <3> QED BY <1>1, <3>1, <3>2, PostingType DEF PostBegin, TypeOK
  <2> QED BY <2>1, <2>2
<1>2. CASE PostLookUp(p)
  <2> DEFINE next == [self EXCEPT !.at = IF table THEN "reading" ELSE "refused"]
  <2>1. next \in PostState /\ next.tx \in started
    BY <1>0, <1>2 DEF PostState, InPost, PostLookUp
  <2>2. Posting(p, next)
    BY <1>2 DEF PostLookUp
  <2> HIDE DEF next
  <2> QED BY <1>2, <2>1, <2>2, PostingType DEF PostLookUp, TypeOK
<1>3. CASE PostMessage(p)
  <2> DEFINE action == <<p, Len(self.read) + 1>>
             next == [self EXCEPT !.read = Append(@, action)]
  <2>1. Len(self.read) \in Nat
    BY <1>0 DEF PostState
  <2>2. action \in Action
    BY <1>3, <2>1, MaxActionsAssumption DEF PostMessage, Action
  <2>3. Append(self.read, action) \in Seq(Action)
    BY <1>0, <2>2 DEF PostState
  <2>4. next \in PostState /\ next.tx \in started
    BY <1>0, <1>3, <2>3 DEF PostState, InPost, PostMessage
  <2>5. Posting(p, next)
    BY <1>3 DEF PostMessage
  <2> HIDE DEF next
  <2> QED BY <1>3, <2>4, <2>5, PostingType DEF PostMessage, TypeOK
<1>4. CASE PostBreaks(p)
  <2> DEFINE next == [self EXCEPT !.at = "refused"]
  <2>1. next \in PostState /\ next.at \notin InPost
    BY <1>0 DEF PostState, InPost
  <2>2. Posting(p, next)
    BY <1>4 DEF PostBreaks
  <2> HIDE DEF next
  <2> QED BY <1>4, <2>1, <2>2, PostingType DEF PostBreaks, TypeOK
<1>5. CASE PostAppend(p)
  <2> DEFINE late == self.tx \in forgotten
             next == [self EXCEPT !.at = "touching", !.late = late]
  <2>1. self.tx \in Transactions /\ self.tx \in started
    BY <1>0, <1>5 DEF PostAppend, InPost, TypeOK
  <2>2. actions[self.tx] \o self.read \in Seq(Action)
    BY <1>0, <2>1 DEF PostState, TypeOK
  <2>4. Posting(p, next)
    BY <1>5 DEF PostAppend
  <2>6. late \in BOOLEAN
    OBVIOUS
  <2> HIDE DEF late
  <2>3. next \in PostState /\ next.tx \in started
    BY <1>0, <2>1, <2>6 DEF PostState, InPost
  <2> HIDE DEF next
  <2>5. actions' \in [Transactions -> Seq(Action)]
    BY <1>5, <2>1, <2>2 DEF PostAppend, TypeOK
  <2> QED BY <1>5, <2>3, <2>4, <2>5, PostingType DEF PostAppend, TypeOK
<1>6. CASE PostAnswer(p)
  <2> DEFINE next == [self EXCEPT !.at = "acknowledged"]
  <2>1. next \in PostState /\ next.tx \in started
    BY <1>0, <1>6 DEF PostState, InPost, PostAnswer
  <2>2. Posting(p, next)
    BY <1>6 DEF PostAnswer
  <2> HIDE DEF next
  <2> QED BY <1>6, <2>1, <2>2, PostingType DEF PostAnswer, TypeOK
<1> QED BY <1>1, <1>2, <1>3, <1>4, <1>5, <1>6 DEF PostStep

LEMMA CommitTypeOK ==
  ASSUME TypeOK, NEW c \in Commits, CommitStep(c)
  PROVE  TypeOK'
<1> DEFINE self == commit[c]
<1>0. self \in CommitState /\ (self.at \in InCommit => self.tx \in started)
  BY DEF TypeOK
<1>1. ASSUME NEW t \in Transactions, CommitBegin(c, t) PROVE TypeOK'
  <2> DEFINE found == [self EXCEPT !.at = "removed", !.tx = t, !.promised = AcknowledgedTo(t)]
             unknown == [self EXCEPT !.at = "unknown"]
             next == IF t \in registry THEN found ELSE unknown
  <2>1. found \in CommitState /\ found.tx \in started
    BY <1>0, <1>1 DEF CommitState, InCommit, AcknowledgedTo, CommitBegin
  <2>2. unknown \in CommitState /\ unknown.at \notin InCommit
    BY <1>0 DEF CommitState, InCommit
  <2>3. Committing(c, next)
    BY <1>1 DEF CommitBegin
  <2> HIDE DEF found, unknown
  <2>4. next \in CommitState /\ (next.at \in InCommit => next.tx \in started)
    BY <2>1, <2>2
  <2> HIDE DEF next
  <2> QED BY <1>1, <2>3, <2>4, CommittingType DEF CommitBegin, TypeOK
<1>2. CASE CommitLookUp(c)
  <2> DEFINE next == [self EXCEPT !.at = IF table THEN "resolved" ELSE "failed"]
  <2>1. next \in CommitState /\ next.tx \in started
    BY <1>0, <1>2 DEF CommitState, InCommit, CommitLookUp
  <2>2. Committing(c, next)
    BY <1>2 DEF CommitLookUp
  <2> HIDE DEF next
  <2> QED BY <1>2, <2>1, <2>2, CommittingType DEF CommitLookUp, TypeOK
<1>3. CASE CommitTake(c)
  <2> DEFINE next == [self EXCEPT !.at = "taken", !.taken = actions[self.tx]]
  <2>1. self.tx \in Transactions /\ self.tx \in started
    BY <1>0, <1>3 DEF CommitTake, InCommit, TypeOK
  <2>2. next \in CommitState /\ next.tx \in started
    BY <1>0, <2>1 DEF CommitState, InCommit, TypeOK
  <2>3. Committing(c, next)
    BY <1>3 DEF CommitTake
  <2> HIDE DEF next
  <2>4. actions' \in [Transactions -> Seq(Action)]
    <3>1. <<>> \in Seq(Action)
      OBVIOUS
    <3> QED BY <1>3, <3>1 DEF CommitTake, TypeOK
  <2> QED BY <1>3, <2>2, <2>3, <2>4, CommittingType DEF CommitTake, TypeOK
<1>4. CASE CommitApply(c)
  <2> DEFINE next == [self EXCEPT !.at = "done"]
             entry == [tx |-> self.tx, actions |-> self.taken]
  <2>1. self.tx \in Transactions /\ self.tx \in started
    BY <1>0, <1>4 DEF CommitApply, InCommit, TypeOK
  <2>2. next \in CommitState /\ next.tx \in started
    BY <1>0, <2>1 DEF CommitState, InCommit
  <2>3. entry \in [tx : Transactions, actions : Seq(Action)]
    BY <1>0, <2>1 DEF CommitState
  <2>4. Committing(c, next) /\ applied' = Append(applied, entry)
    BY <1>4 DEF CommitApply
  <2> HIDE DEF next, entry
  <2>5. applied' \in Seq([tx : Transactions, actions : Seq(Action)])
    BY <2>3, <2>4 DEF TypeOK
  <2> QED BY <1>4, <2>2, <2>4, <2>5, CommittingType DEF CommitApply, TypeOK
<1> QED BY <1>1, <1>2, <1>3, <1>4 DEF CommitStep

LEMMA RestartTypeOK ==
  ASSUME TypeOK, Restart
  PROVE  TypeOK'
<1>1. ASSUME NEW p \in Posts
      PROVE  post'[p] \in PostState /\ (post'[p].at \in InPost => post'[p].tx \in started)
  <2>1. post[p] \in PostState /\ (post[p].at \in InPost => post[p].tx \in started)
    BY DEF TypeOK
  <2>2. [post[p] EXCEPT !.at = "broken"] \in PostState
    BY <2>1 DEF PostState
  <2>3. [post[p] EXCEPT !.at = "broken"].at \notin InPost
    BY <2>1 DEF PostState, InPost
  <2> QED BY <2>1, <2>2, <2>3 DEF Restart
<1>2. ASSUME NEW c \in Commits
      PROVE  /\ commit'[c] \in CommitState
             /\ commit'[c].at \in InCommit => commit'[c].tx \in started
  <2>1. commit[c] \in CommitState /\ (commit[c].at \in InCommit => commit[c].tx \in started)
    BY DEF TypeOK
  <2>2. [commit[c] EXCEPT !.at = "broken"] \in CommitState
    BY <2>1 DEF CommitState
  <2>3. [commit[c] EXCEPT !.at = "broken"].at \notin InCommit
    BY <2>1 DEF CommitState, InCommit
  <2> QED BY <2>1, <2>2, <2>3 DEF Restart
<1>3. post' \in [Posts -> PostState] /\ commit' \in [Commits -> CommitState]
  BY <1>1, <1>2 DEF Restart
<1> QED BY <1>1, <1>2, <1>3 DEF TypeOK, Restart

LEMMA StepTypeOK == TypeOK /\ [Next]_vars => TypeOK'
<1> SUFFICES ASSUME TypeOK, [Next]_vars PROVE TypeOK'
  OBVIOUS
<1>1. ASSUME NEW t \in Transactions, Start(t) \/ Cancel(t) \/ GoesQuiet(t) \/ GcRemove(t)
      PROVE  TypeOK'
  BY <1>1 DEF TypeOK, Start, Cancel, GoesQuiet, GcRemove
<1>2. CASE GcList \/ TableComesOrGoes \/ UNCHANGED vars
  BY <1>2 DEF TypeOK, GcList, TableComesOrGoes, vars
<1> QED
  BY <1>1, <1>2, PostTypeOK, CommitTypeOK, RestartTypeOK DEF Next, PostStep, CommitStep

-----------------------------------------------------------------------------
(* One owner. *)

(* Nothing gains a holder, nothing applied loses its commit, and no id that  *)
(* was given out comes back to the registry.                                *)
LEMMA OwnersNarrow ==
  ASSUME TypeOK, OneOwner, UNCHANGED applied,
         \A t \in Transactions : t \in registry' => t \in registry \/ t \notin started,
         \A c \in Commits : \/ commit'[c].tx = commit[c].tx /\ commit'[c].at = commit[c].at
                            \/ commit'[c].tx = commit[c].tx /\ commit[c].at \in InCommit \ {"done"}
                            \/ commit[c].at # "done" /\ commit'[c].at \notin InCommit
  PROVE  OneOwner'
<1>1. \A c \in Commits, t \in Transactions : Holds(c, t)' => Holds(c, t) /\ t \in started
  BY DEF Holds, TypeOK
<1>2. \A c \in Commits :
        commit[c].at = "done" => commit'[c].at = "done" /\ commit'[c].tx = commit[c].tx
  BY DEF InCommit
<1>3. (\A t \in Transactions : \A c, d \in Commits :
         Holds(c, t) => t \notin registry /\ (Holds(d, t) => c = d))'
  BY <1>1 DEF OneOwner
<1>4. (\A n \in DOMAIN applied : \E c \in Commits :
         commit[c].tx = applied[n].tx /\ commit[c].at = "done")'
  BY <1>2 DEF OneOwner
<1> QED BY <1>3, <1>4 DEF OneOwner

LEMMA CommitOneOwner ==
  ASSUME TypeOK, OneOwner, NEW c \in Commits, CommitStep(c)
  PROVE  OneOwner'
<1>0. commit[c] \in CommitState
  BY DEF TypeOK
<1>1. ASSUME NEW t \in Transactions, CommitBegin(c, t) PROVE OneOwner'
  <2>1. CASE t \notin registry
    <3>1. commit' = [commit EXCEPT ![c] = [commit[c] EXCEPT !.at = "unknown"]]
      BY <1>1, <2>1 DEF CommitBegin, Committing
    <3>2. \A d \in Commits : d # c => commit'[d] = commit[d]
      BY <3>1 DEF TypeOK
    <3>3. commit[c].at = "idle" /\ commit'[c].at = "unknown"
      BY <1>0, <1>1, <3>1 DEF CommitBegin, CommitState, TypeOK
    <3>4. registry' = registry \ {t} /\ UNCHANGED applied
      BY <1>1 DEF CommitBegin
    <3> QED BY <3>2, <3>3, <3>4, OwnersNarrow DEF InCommit
  <2>2. CASE t \in registry
    <3>1. commit' = [commit EXCEPT ![c] = [commit[c] EXCEPT !.at = "removed", !.tx = t,
                                                            !.promised = AcknowledgedTo(t)]]
      BY <1>1, <2>2 DEF CommitBegin, Committing
    <3>2. \A d \in Commits : d # c => commit'[d] = commit[d]
      BY <3>1 DEF TypeOK
    <3>3. commit[c].at = "idle" /\ commit'[c].at = "removed" /\ commit'[c].tx = t
      BY <1>0, <1>1, <3>1 DEF CommitBegin, CommitState, TypeOK
    <3>4. registry' = registry \ {t} /\ applied' = applied
      BY <1>1 DEF CommitBegin
    <3>5. \A d \in Commits, u \in Transactions :
            Holds(d, u)' => (d = c /\ u = t) \/ (d # c /\ u # t /\ Holds(d, u))
      BY <2>2, <3>2, <3>3 DEF Holds, OneOwner
    <3>6. (\A u \in Transactions : \A d, e \in Commits :
             Holds(d, u) => u \notin registry /\ (Holds(e, u) => d = e))'
      BY <3>4, <3>5 DEF OneOwner
    <3>7. (\A n \in DOMAIN applied : \E d \in Commits :
             commit[d].tx = applied[n].tx /\ commit[d].at = "done")'
      BY <3>2, <3>3, <3>4 DEF OneOwner
    <3> QED BY <3>4, <3>6, <3>7 DEF OneOwner
  <2> QED BY <2>1, <2>2
<1>2. CASE CommitLookUp(c)
  <2>1. \A d \in Commits : d # c => commit'[d] = commit[d]
    BY <1>2 DEF CommitLookUp, Committing, TypeOK
  <2>2. commit[c].at = "removed" /\ commit'[c].tx = commit[c].tx
    BY <1>0, <1>2 DEF CommitLookUp, Committing, CommitState, TypeOK
  <2> QED BY <1>2, <2>1, <2>2, OwnersNarrow DEF CommitLookUp, InCommit
<1>3. CASE CommitTake(c)
  <2>1. \A d \in Commits : d # c => commit'[d] = commit[d]
    BY <1>3 DEF CommitTake, Committing, TypeOK
  <2>2. commit[c].at = "resolved" /\ commit'[c].tx = commit[c].tx
    BY <1>0, <1>3 DEF CommitTake, Committing, CommitState, TypeOK
  <2> QED BY <1>3, <2>1, <2>2, OwnersNarrow DEF CommitTake, InCommit
<1>4. CASE CommitApply(c)
  <2> DEFINE t == commit[c].tx
             entry == [tx |-> t, actions |-> commit[c].taken]
  <2>1. \A d \in Commits : d # c => commit'[d] = commit[d]
    BY <1>4 DEF CommitApply, Committing, TypeOK
  <2>2. commit[c].at = "taken" /\ commit'[c].tx = t /\ commit'[c].at = "done"
    BY <1>0, <1>4 DEF CommitApply, Committing, CommitState, TypeOK
  <2>3. t \in Transactions
    BY <2>2 DEF TypeOK, InCommit
  <2>4. applied' = Append(applied, entry) /\ registry' = registry
    BY <1>4 DEF CommitApply
  <2>5. \A d \in Commits, u \in Transactions : Holds(d, u)' => Holds(d, u)
    BY <2>1, <2>2 DEF Holds, InCommit
  <2>6. \A n \in DOMAIN applied : applied[n].tx # t
    <3> SUFFICES ASSUME NEW n \in DOMAIN applied, applied[n].tx = t PROVE FALSE
      OBVIOUS
    <3>1. PICK d \in Commits : commit[d].tx = t /\ commit[d].at = "done"
      BY DEF OneOwner
    <3>2. Holds(d, t) /\ Holds(c, t)
      BY <2>2, <3>1 DEF Holds, InCommit
    <3> QED BY <2>2, <2>3, <3>1, <3>2 DEF OneOwner
  <2>7. /\ DOMAIN applied' = DOMAIN applied \cup {Len(applied) + 1}
        /\ applied'[Len(applied) + 1].tx = t
        /\ \A n \in DOMAIN applied : applied'[n] = applied[n] /\ n # Len(applied) + 1
    BY <2>4 DEF TypeOK
  <2>8. (\A n, m \in DOMAIN applied : applied[n].tx = applied[m].tx => n = m)'
    BY <2>6, <2>7 DEF OneOwner
  <2>9. (\A n \in DOMAIN applied : \E d \in Commits :
           commit[d].tx = applied[n].tx /\ commit[d].at = "done")'
    BY <2>1, <2>2, <2>7 DEF OneOwner
  <2>10. (\A u \in Transactions : \A d, e \in Commits :
            Holds(d, u) => u \notin registry /\ (Holds(e, u) => d = e))'
    BY <2>4, <2>5 DEF OneOwner
  <2> QED BY <2>8, <2>9, <2>10 DEF OneOwner
<1> QED BY <1>1, <1>2, <1>3, <1>4 DEF CommitStep

LEMMA RestartCommits ==
  ASSUME TypeOK, Restart, NEW c \in Commits
  PROVE  \/ commit'[c] = commit[c] /\ commit[c].at \notin InCommit \ {"done"}
         \/ commit[c].at \in InCommit \ {"done"} /\ commit'[c].at = "broken"
<1>1. commit[c] \in CommitState
  BY DEF TypeOK
<1> QED BY <1>1 DEF Restart, InCall, CommitState, InCommit, InPost

LEMMA StepOneOwner ==
  ASSUME TypeOK, OneOwner, [Next]_vars
  PROVE  OneOwner'
<1>1. CASE Restart
  <2>1. registry' = {} /\ UNCHANGED applied
    BY <1>1 DEF Restart
  <2> QED BY <1>1, <2>1, RestartCommits, OwnersNarrow DEF InCommit
<1>2. ASSUME UNCHANGED <<commit, applied>>,
             \A t \in Transactions : t \in registry' => t \in registry \/ t \notin started
      PROVE  OneOwner'
  BY <1>2, OwnersNarrow
<1>3. ASSUME NEW t \in Transactions, Start(t) \/ Cancel(t) \/ GoesQuiet(t) \/ GcRemove(t)
      PROVE  OneOwner'
  BY <1>2, <1>3 DEF Start, Cancel, GoesQuiet, GcRemove
<1>4. ASSUME NEW p \in Posts, PostStep(p)
      PROVE  OneOwner'
  BY <1>2, <1>4
     DEF PostStep, PostBegin, PostLookUp, PostMessage, PostBreaks, PostAppend, PostAnswer
<1>5. CASE GcList \/ TableComesOrGoes \/ UNCHANGED vars
  BY <1>2, <1>5 DEF GcList, TableComesOrGoes, vars
<1> QED BY <1>1, <1>3, <1>4, <1>5, CommitOneOwner DEF Next, PostStep, CommitStep

-----------------------------------------------------------------------------
(* What was acknowledged is kept. *)

(* A post that moves is in nobody's promise; lists only grow meanwhile. *)
LEMMA PostKept ==
  ASSUME TypeOK, Kept, NEW p \in Posts, PostStep(p)
  PROVE  Kept'
<1>0. post[p] \in PostState /\ UNCHANGED <<commit, registry>>
  BY DEF TypeOK, PostStep, PostBegin, PostLookUp, PostMessage, PostBreaks, PostAppend, PostAnswer
<1>1. post[p].at # "acknowledged"
  BY DEF PostStep, PostBegin, PostLookUp, PostMessage, PostBreaks, PostAppend, PostAnswer
<1>2. \A q \in Posts : q # p => post'[q] = post[q]
  BY DEF PostStep, PostBegin, PostLookUp, PostMessage, PostBreaks, PostAppend, PostAnswer,
         Posting, TypeOK
<1>3. /\ \A t \in Transactions, q \in Posts :
           Includes(actions[t], post[q].read) => Includes(actions'[t], post[q].read)
      /\ (Answered(p)' /\ post'[p].tx \in registry)
           => Includes(actions'[post'[p].tx], post'[p].read)
  <2>1. CASE PostAppend(p)
    <3>1. post[p].tx \in Transactions /\ post[p].read \in Seq(Action)
      BY <1>0, <2>1 DEF PostAppend, PostState, TypeOK, InPost
    <3>2. actions' = [actions EXCEPT ![post[p].tx] = actions[post[p].tx] \o post[p].read]
      BY <2>1 DEF PostAppend
    <3>3. /\ Includes(actions[post[p].tx] \o post[p].read, post[p].read)
          /\ \A other : Includes(actions[post[p].tx], other)
                          => Includes(actions[post[p].tx] \o post[p].read, other)
      <4>1. actions[post[p].tx] \in Seq(Action)
        BY <3>1 DEF TypeOK
      <4> QED BY <3>1, <4>1, ConcatIncludes
    <3>4. post'[p].tx = post[p].tx /\ post'[p].read = post[p].read
      BY <1>0, <2>1 DEF PostAppend, Posting, PostState, TypeOK
    <3>5. \A t \in Transactions :
            actions'[t] = IF t = post[p].tx THEN actions[t] \o post[p].read ELSE actions[t]
      BY <3>2 DEF TypeOK
    <3> QED BY <3>1, <3>3, <3>4, <3>5
  <2>2. CASE PostAnswer(p)
    <3>1. post'[p].tx = post[p].tx /\ post'[p].read = post[p].read /\ actions' = actions
      BY <1>0, <2>2 DEF PostAnswer, Posting, PostState, TypeOK
    <3>2. Answered(p)
      BY <2>2 DEF Answered, PostAnswer
    <3> QED BY <3>1, <3>2 DEF Kept
  <2>3. CASE PostMessage(p)
    <3>1. post'[p].at = "reading" /\ actions' = actions
      BY <1>0, <2>3 DEF PostMessage, Posting, PostState, TypeOK
    <3> QED BY <3>1 DEF Answered
  <2>4. ASSUME PostLookUp(p) \/ PostBreaks(p) \/ \E t \in Transactions : PostBegin(p, t)
        PROVE  post'[p].at \in {"found", "reading", "refused"} /\ actions' = actions
    <3>1. ASSUME NEW next, Posting(p, next) PROVE post'[p] = next
      BY <3>1 DEF Posting, TypeOK
    <3>2. CASE PostLookUp(p)
      BY <1>0, <3>1, <3>2 DEF PostLookUp, PostState
    <3>3. CASE PostBreaks(p)
      BY <1>0, <3>1, <3>3 DEF PostBreaks, PostState
    <3>4. ASSUME NEW t \in Transactions, PostBegin(p, t)
          PROVE  post'[p].at \in {"found", "refused"} /\ actions' = actions
      <4>1. CASE t \in registry
        BY <1>0, <3>1, <3>4, <4>1 DEF PostBegin, PostState
      <4>2. CASE t \notin registry
        BY <1>0, <3>1, <3>4, <4>2 DEF PostBegin, PostState
      <4> QED BY <4>1, <4>2
    <3> QED BY <2>4, <3>2, <3>3, <3>4
  <2> QED BY <2>1, <2>2, <2>3, <2>4 DEF PostStep, Answered
<1>4. (\A q \in Posts : (Answered(q) /\ post[q].tx \in registry)
                          => Includes(actions[post[q].tx], post[q].read))'
  <2> SUFFICES ASSUME NEW q \in Posts, Answered(q)', post'[q].tx \in registry'
               PROVE  Includes(actions'[post'[q].tx], post'[q].read)
    OBVIOUS
  <2>1. CASE q = p
    BY <1>0, <1>3, <2>1
  <2>2. CASE q # p
    <3>1. Answered(q) /\ post[q].tx \in registry /\ post[q].tx \in Transactions
      BY <1>0, <1>2, <2>2 DEF Answered, TypeOK
    <3> QED BY <1>2, <1>3, <2>2, <3>1 DEF Kept
  <2> QED BY <2>1, <2>2
<1>5. (\A c \in Commits : commit[c].at \in InCommit =>
         \A q \in commit[c].promised :
           /\ post[q].at = "acknowledged"
           /\ Includes(IF commit[c].at \in {"removed", "resolved"} THEN actions[commit[c].tx]
                       ELSE commit[c].taken, post[q].read))'
  <2> SUFFICES ASSUME NEW c \in Commits, commit[c].at \in InCommit, NEW q \in commit[c].promised
               PROVE  /\ post'[q].at = "acknowledged"
                      /\ Includes(IF commit[c].at \in {"removed", "resolved"}
                                  THEN actions'[commit[c].tx] ELSE commit[c].taken, post'[q].read)
    BY <1>0
  <2>1. q \in Posts /\ commit[c].tx \in Transactions
    BY DEF TypeOK, CommitState
  <2>2. post[q].at = "acknowledged"
    BY DEF Kept
  <2>3. post'[q] = post[q]
    BY <1>1, <1>2, <2>1, <2>2
  <2>4. Includes(IF commit[c].at \in {"removed", "resolved"}
                 THEN actions[commit[c].tx] ELSE commit[c].taken, post[q].read)
    BY DEF Kept
  <2> QED BY <1>3, <2>1, <2>2, <2>3, <2>4
<1> QED BY <1>4, <1>5 DEF Kept

(* A commit collects what is promised to it and carries it to the end. *)
LEMMA CommitKept ==
  ASSUME TypeOK, OneOwner, Kept, NEW c \in Commits, CommitStep(c)
  PROVE  Kept'
<1>0. commit[c] \in CommitState /\ post' = post
  BY DEF TypeOK, CommitStep, CommitBegin, CommitLookUp, CommitTake, CommitApply
<1>1. \A d \in Commits : d # c => commit'[d] = commit[d]
  BY DEF CommitStep, CommitBegin, CommitLookUp, CommitTake, CommitApply, Committing, TypeOK
<1>2. CASE CommitTake(c)
  <2> DEFINE t == commit[c].tx
  <2>1. /\ commit[c].at = "resolved" /\ commit'[c].at = "taken" /\ commit'[c].tx = t
        /\ commit'[c].taken = actions[t] /\ commit'[c].promised = commit[c].promised
    BY <1>0, <1>2 DEF CommitTake, Committing, CommitState, TypeOK
  <2>2. t \in Transactions /\ Holds(c, t)
    BY <2>1 DEF TypeOK, InCommit, Holds
  <2>3. t \notin registry /\ registry' = registry
    BY <1>2, <2>2 DEF OneOwner, CommitTake
  <2>4. \A u \in Transactions : u # t => actions'[u] = actions[u]
    BY <1>2 DEF CommitTake, TypeOK
  <2>5. \A d \in Commits : (d # c /\ commit[d].at \in InCommit) => commit[d].tx # t
    BY <2>2 DEF OneOwner, Holds
  <2>6. \A d \in Commits : commit[d].at \in InCommit => commit[d].tx \in Transactions
    BY DEF TypeOK
  <2>7. (\A p \in Posts : (Answered(p) /\ post[p].tx \in registry)
                            => Includes(actions[post[p].tx], post[p].read))'
    BY <1>0, <2>3, <2>4 DEF Kept, Answered, TypeOK
  <2>8. ASSUME NEW d \in Commits, commit'[d].at \in InCommit, NEW p \in commit'[d].promised
        PROVE  /\ post'[p].at = "acknowledged"
               /\ Includes(IF commit'[d].at \in {"removed", "resolved"}
                           THEN actions'[commit'[d].tx] ELSE commit'[d].taken, post'[p].read)
    <3>1. CASE d = c
      <4>1. Includes(actions[t], post[p].read) /\ post[p].at = "acknowledged"
        BY <2>1, <2>8, <3>1 DEF Kept, InCommit
      <4> QED BY <1>0, <2>1, <3>1, <4>1
    <3>2. CASE d # c
      <4>1. commit'[d] = commit[d] /\ commit[d].tx # t /\ commit[d].tx \in Transactions
        BY <1>1, <2>5, <2>6, <2>8, <3>2
      <4>2. /\ post[p].at = "acknowledged"
            /\ Includes(IF commit[d].at \in {"removed", "resolved"}
                        THEN actions[commit[d].tx] ELSE commit[d].taken, post[p].read)
        BY <2>8, <4>1 DEF Kept
      <4> QED BY <1>0, <2>4, <4>1, <4>2
    <3> QED BY <3>1, <3>2
  <2> QED BY <2>7, <2>8 DEF Kept
<1>3. CASE CommitLookUp(c) \/ CommitApply(c) \/ \E t \in Transactions : CommitBegin(c, t)
  <2>1. actions' = actions /\ registry' \subseteq registry
    BY <1>3 DEF CommitLookUp, CommitApply, CommitBegin
  <2>2. (\A p \in Posts : (Answered(p) /\ post[p].tx \in registry)
                            => Includes(actions[post[p].tx], post[p].read))'
    BY <1>0, <2>1 DEF Kept, Answered
  <2>3. ASSUME NEW p \in commit'[c].promised, commit'[c].at \in InCommit
        PROVE  /\ post[p].at = "acknowledged"
               /\ Includes(IF commit'[c].at \in {"removed", "resolved"}
                           THEN actions[commit'[c].tx] ELSE commit'[c].taken, post[p].read)
    <3>1. CASE CommitLookUp(c)
      <4>1. /\ commit[c].at = "removed" /\ commit'[c].at \in {"resolved", "failed"}
            /\ commit'[c].tx = commit[c].tx /\ commit'[c].promised = commit[c].promised
        BY <1>0, <3>1 DEF CommitLookUp, Committing, CommitState, TypeOK
      <4> QED BY <2>3, <4>1 DEF Kept, InCommit
    <3>2. CASE CommitApply(c)
      <4>1. /\ commit[c].at = "taken" /\ commit'[c].at = "done"
            /\ commit'[c].taken = commit[c].taken /\ commit'[c].promised = commit[c].promised
        BY <1>0, <3>2 DEF CommitApply, Committing, CommitState, TypeOK
      <4> QED BY <2>3, <4>1 DEF Kept, InCommit
    <3>3. ASSUME NEW t \in Transactions, CommitBegin(c, t)
          PROVE  /\ post[p].at = "acknowledged"
                 /\ Includes(IF commit'[c].at \in {"removed", "resolved"}
                             THEN actions[commit'[c].tx] ELSE commit'[c].taken, post[p].read)
      <4>1. t \in registry
        <5> SUFFICES ASSUME t \notin registry PROVE commit'[c].at = "unknown"
          BY <2>3 DEF InCommit
        <5> QED BY <1>0, <3>3 DEF CommitBegin, Committing, CommitState, TypeOK
      <4>2. commit'[c].at = "removed" /\ commit'[c].tx = t /\ commit'[c].promised = AcknowledgedTo(t)
        BY <1>0, <3>3, <4>1 DEF CommitBegin, Committing, CommitState, TypeOK
      <4>3. p \in Posts /\ post[p].at = "acknowledged" /\ post[p].tx = t
        BY <2>3, <4>2 DEF AcknowledgedTo
      <4> QED BY <4>1, <4>2, <4>3 DEF Kept, Answered
    <3> QED BY <1>3, <3>1, <3>2, <3>3
  <2>4. ASSUME NEW d \in Commits, commit'[d].at \in InCommit, NEW p \in commit'[d].promised
        PROVE  /\ post[p].at = "acknowledged"
               /\ Includes(IF commit'[d].at \in {"removed", "resolved"}
                           THEN actions[commit'[d].tx] ELSE commit'[d].taken, post[p].read)
    <3>1. CASE d = c
      BY <2>3, <2>4, <3>1
    <3>2. CASE d # c
      BY <1>1, <2>4, <3>2 DEF Kept
    <3> QED BY <3>1, <3>2
  <2> QED BY <1>0, <2>1, <2>2, <2>4 DEF Kept
<1> QED BY <1>2, <1>3 DEF CommitStep

LEMMA RestartKept ==
  ASSUME TypeOK, Kept, Restart
  PROVE  Kept'
<1>1. registry' = {}
  BY DEF Restart
<1>2. ASSUME NEW c \in Commits, commit'[c].at \in InCommit
      PROVE  commit'[c] = commit[c] /\ commit[c].at = "done"
  BY <1>2, RestartCommits DEF InCommit
<1>3. ASSUME NEW p \in Posts, post[p].at = "acknowledged"
      PROVE  post'[p] = post[p]
  BY <1>3 DEF Restart, InCall
<1>4. ASSUME NEW c \in Commits, commit'[c].at \in InCommit, NEW p \in commit'[c].promised
      PROVE  /\ post'[p].at = "acknowledged"
             /\ Includes(commit'[c].taken, post'[p].read)
  <2>1. p \in Posts
    BY <1>2, <1>4 DEF TypeOK, CommitState
  <2>2. post[p].at = "acknowledged" /\ Includes(commit[c].taken, post[p].read)
    BY <1>2, <1>4 DEF Kept, InCommit
  <2> QED BY <1>2, <1>3, <1>4, <2>1, <2>2
<1> QED BY <1>1, <1>2, <1>4 DEF Kept

LEMMA StepKept ==
  ASSUME TypeOK, OneOwner, Kept, [Next]_vars
  PROVE  Kept'
<1>1. ASSUME UNCHANGED <<post, commit, actions>>,
             \A t \in Transactions : t \in registry' => t \in registry \/ t \notin started
      PROVE  Kept'
  <2>1. \A p \in Posts : Answered(p) => post[p].tx \in started /\ post[p].tx \in Transactions
    BY DEF Answered, TypeOK, InPost
  <2> QED BY <1>1, <2>1 DEF Kept, Answered
<1>2. ASSUME NEW t \in Transactions, Start(t) \/ Cancel(t) \/ GoesQuiet(t) \/ GcRemove(t)
      PROVE  Kept'
  BY <1>1, <1>2 DEF Start, Cancel, GoesQuiet, GcRemove
<1>3. CASE GcList \/ TableComesOrGoes \/ UNCHANGED vars
  BY <1>1, <1>3 DEF GcList, TableComesOrGoes, vars
<1> QED BY <1>2, <1>3, PostKept, CommitKept, RestartKept DEF Next, PostStep, CommitStep

-----------------------------------------------------------------------------
(* The theorems. *)

LEMMA InitIInv == Init => IInv
<1> SUFFICES ASSUME Init PROVE IInv
  OBVIOUS
<1>1. TypeOK
  BY InitTypeOK
<1>2. OneOwner
  BY DEF Init, OneOwner, Holds, InCommit, NewCommit
<1>3. Kept
  BY DEF Init, Kept, Answered, InCommit, NewCommit
<1> QED BY <1>1, <1>2, <1>3 DEF IInv

(* The inductive invariant of Transactions holds. *)
THEOREM InvariantHolds == Spec => []IInv
<1>1. IInv /\ [Next]_vars => IInv'
  BY StepTypeOK, StepOneOwner, StepKept DEF IInv
<1> QED BY InitIInv, <1>1, PTL DEF Spec

(* Transactions are well typed, whatever calls are made in whatever order. *)
THEOREM TypeCorrect == Spec => []TypeOK
<1>1. IInv => TypeOK
  BY DEF IInv
<1> QED BY <1>1, InvariantHolds, PTL

(* A transaction belongs to one commit at most, is applied once at most, and *)
(* only by a commit that took it out of the registry itself.                *)
THEOREM AppliedOnce == Spec => []OneOwner
<1>1. IInv => OneOwner
  BY DEF IInv
<1> QED BY <1>1, InvariantHolds, PTL

(* A commit that succeeds has applied every post answered before it was      *)
(* called.                                                                  *)
THEOREM NothingAcknowledgedIsLost == Spec => []AppliesWhatWasAcknowledged
<1>1. IInv => AppliesWhatWasAcknowledged
  BY DEF IInv, Kept, AppliesWhatWasAcknowledged, InCommit
<1> QED BY <1>1, InvariantHolds, PTL

-----------------------------------------------------------------------------
(* The refinement of AtomicTransactions. *)

(* What a post has read is its stream so far, and a transaction nobody has   *)
(* started holds nothing.                                                    *)
Streamed ==
  /\ \A p \in Posts :
       /\ Len(post[p].read) <= MaxActions
       /\ \A n \in 1 .. Len(post[p].read) : post[p].read[n] = <<p, n>>
  /\ \A t \in Transactions \ started : actions[t] = <<>>

LEMMA PostingReads ==
  ASSUME TypeOK, NEW p \in Posts, PostStep(p)
  PROVE  /\ \A q \in Posts : q # p => post'[q] = post[q]
         /\ \/ post'[p].read = post[p].read
            \/ /\ post'[p].read = Append(post[p].read, <<p, Len(post[p].read) + 1>>)
               /\ Len(post[p].read) < MaxActions
<1>1. post[p] \in PostState
  BY DEF TypeOK
<1>2. ASSUME NEW next, Posting(p, next)
      PROVE  post'[p] = next /\ \A q \in Posts : q # p => post'[q] = post[q]
  BY <1>2 DEF Posting, TypeOK
<1>3. ASSUME NEW t \in Transactions, PostBegin(p, t)
      PROVE  /\ \A q \in Posts : q # p => post'[q] = post[q]
             /\ post'[p].read = post[p].read
  <2>1. CASE t \in registry
    <3> DEFINE next == [post[p] EXCEPT !.at = "found", !.tx = t]
    <3>1. Posting(p, next) /\ next.read = post[p].read
      BY <1>1, <1>3, <2>1 DEF PostBegin, PostState
    <3> HIDE DEF next
    <3> QED BY <1>2, <3>1
  <2>2. CASE t \notin registry
    BY <1>1, <1>2, <1>3, <2>2 DEF PostBegin, PostState
  <2> QED BY <2>1, <2>2
<1>4. CASE PostMessage(p)
  BY <1>1, <1>2, <1>4 DEF PostMessage, PostState
<1>5. CASE PostLookUp(p)
  BY <1>1, <1>2, <1>5 DEF PostLookUp, PostState
<1>6. CASE PostBreaks(p)
  BY <1>1, <1>2, <1>6 DEF PostBreaks, PostState
<1>7. CASE PostAppend(p)
  <2> DEFINE late == post[p].tx \in forgotten
             next == [post[p] EXCEPT !.at = "touching", !.late = late]
  <2>1. Posting(p, next)
    BY <1>7 DEF PostAppend
  <2> HIDE DEF late
  <2>2. next.read = post[p].read
    BY <1>1 DEF PostState
  <2> HIDE DEF next
  <2> QED BY <1>2, <2>1, <2>2
<1>8. CASE PostAnswer(p)
  BY <1>1, <1>2, <1>8 DEF PostAnswer, PostState
<1> QED BY <1>3, <1>4, <1>5, <1>6, <1>7, <1>8 DEF PostStep

LEMMA StepStreamed ==
  ASSUME TypeOK, Streamed, [Next]_vars
  PROVE  Streamed'
<1> DEFINE Reads == \A p \in Posts :
             /\ Len(post[p].read) <= MaxActions
             /\ \A n \in 1 .. Len(post[p].read) : post[p].read[n] = <<p, n>>
           Unstarted == \A t \in Transactions \ started : actions[t] = <<>>
<1>0. /\ Reads /\ Unstarted
      /\ \A p \in Posts : post[p].read \in Seq(Action)
  BY DEF Streamed, TypeOK, PostState
<1>1. ASSUME NEW p \in Posts, PostStep(p) PROVE Reads'
  <2>1. \A q \in Posts : q # p => post'[q] = post[q]
    BY <1>1, PostingReads
  <2>2. CASE post'[p].read = post[p].read
    BY <1>0, <2>1, <2>2
  <2>3. CASE /\ post'[p].read = Append(post[p].read, <<p, Len(post[p].read) + 1>>)
             /\ Len(post[p].read) < MaxActions
    <3> DEFINE old == post[p].read
               more == Append(old, <<p, Len(old) + 1>>)
    <3>1. old \in Seq(Action)
      BY <1>0
    <3> HIDE DEF old
    <3>2. Len(more) = Len(old) + 1 /\ Len(old) \in Nat
      BY <3>1
    <3>3. \A n \in 1 .. Len(more) : more[n] = IF n <= Len(old) THEN old[n] ELSE <<p, Len(old) + 1>>
      BY <3>1, <3>2
    <3>4. Len(old) < MaxActions /\ \A n \in 1 .. Len(old) : old[n] = <<p, n>>
      BY <1>0, <2>3 DEF old
    <3>5. Len(more) <= MaxActions /\ \A n \in 1 .. Len(more) : more[n] = <<p, n>>
      BY <3>2, <3>3, <3>4, MaxActionsAssumption
    <3>6. post'[p].read = more
      BY <2>3 DEF old
    <3> HIDE DEF more
    <3> QED BY <1>0, <2>1, <3>5, <3>6
  <2> QED BY <1>1, <2>2, <2>3, PostingReads
<1>2. ASSUME NEW p \in Posts, PostStep(p) PROVE Unstarted'
  <2>1. post[p].at \in {"reading"} => post[p].tx \in started
    BY DEF TypeOK, InPost
  <2>2. started' = started /\ \A t \in Transactions : t \notin started => actions'[t] = actions[t]
    BY <1>2, <2>1 DEF PostStep, PostBegin, PostLookUp, PostMessage, PostBreaks, PostAppend,
       PostAnswer, TypeOK
  <2> QED BY <1>0, <2>2
<1>3. ASSUME NEW c \in Commits, CommitStep(c) PROVE Reads' /\ Unstarted'
  <2>1. post' = post /\ started' = started
    BY <1>3 DEF CommitStep, CommitBegin, CommitLookUp, CommitTake, CommitApply
  <2>2. \A t \in Transactions : t \notin started => actions'[t] \in {actions[t], <<>>}
    BY <1>3 DEF CommitStep, CommitBegin, CommitLookUp, CommitTake, CommitApply, TypeOK
  <2> QED BY <1>0, <2>1, <2>2
<1>4. CASE Restart
  <2>1. \A p \in Posts : post'[p].read = post[p].read
    <3>1. \A p \in Posts : post[p] \in PostState
      BY DEF TypeOK
    <3> QED BY <1>4, <3>1 DEF Restart, PostState
  <2>2. \A t \in Transactions : actions'[t] = <<>>
    BY <1>4 DEF Restart
  <2> QED BY <1>0, <2>1, <2>2 DEF Streamed
<1>5. ASSUME UNCHANGED <<post, actions>>, started \subseteq started' PROVE Streamed'
  BY <1>0, <1>5 DEF Streamed
<1>6. ASSUME NEW t \in Transactions, Start(t) \/ Cancel(t) \/ GoesQuiet(t) \/ GcRemove(t)
      PROVE  Streamed'
  BY <1>5, <1>6 DEF Start, Cancel, GoesQuiet, GcRemove
<1>7. CASE GcList \/ TableComesOrGoes \/ UNCHANGED vars
  BY <1>5, <1>7 DEF GcList, TableComesOrGoes, vars
<1>8. ASSUME NEW p \in Posts, PostStep(p) PROVE Streamed'
  BY <1>1, <1>2, <1>8 DEF Streamed
<1>9. ASSUME NEW c \in Commits, CommitStep(c) PROVE Streamed'
  BY <1>3, <1>9 DEF Streamed
<1> QED BY <1>4, <1>6, <1>7, <1>8, <1>9 DEF Next, PostStep, CommitStep

(* How far a transaction is, and what it has gathered.                       *)
Stage(t) ==
  IF t \notin started THEN "none"
  ELSE IF Open(t) THEN "open"
  ELSE IF Committer(t) # {} THEN "committed" ELSE "discarded"

Gathered(t) ==
  IF ~Open(t) THEN <<>>
  ELSE IF \E c \in Committer(t) : commit[c].at = "taken"
  THEN commit[CHOOSE c \in Committer(t) : TRUE].taken
  ELSE actions[t]

Unowned(t) == t \notin registry /\ \A c \in Commits : ~Holds(c, t)

(* Both follow from where the transaction is: in the registry, with its one  *)
(* commit, or nowhere.                                                       *)
Whereabouts ==
  \A t \in Transactions :
    /\ t \notin started => Unowned(t) /\ Stage(t) = "none" /\ Gathered(t) = <<>>
    /\ t \in registry => /\ Stage(t) = "open" /\ Gathered(t) = actions[t]
                         /\ \A c \in Commits : ~Holds(c, t)
    /\ \A c \in Commits : Holds(c, t) =>
         /\ t \in started /\ t \notin registry /\ \A d \in Commits : Holds(d, t) => d = c
         /\ commit[c].at = "done" => Stage(t) = "committed" /\ Gathered(t) = <<>>
         /\ commit[c].at = "taken" => Stage(t) = "open" /\ Gathered(t) = commit[c].taken
         /\ commit[c].at \in {"removed", "resolved"} =>
              Stage(t) = "open" /\ Gathered(t) = actions[t]
    /\ t \in started /\ Unowned(t) => Stage(t) = "discarded" /\ Gathered(t) = <<>>

LEMMA WhereaboutsAlways == TypeOK /\ OneOwner => Whereabouts
<1> SUFFICES ASSUME TypeOK, OneOwner, NEW t \in Transactions
             PROVE  /\ t \notin started => Unowned(t) /\ Stage(t) = "none" /\ Gathered(t) = <<>>
                    /\ t \in registry => /\ Stage(t) = "open" /\ Gathered(t) = actions[t]
                                         /\ \A c \in Commits : ~Holds(c, t)
                    /\ \A c \in Commits : Holds(c, t) =>
                         /\ t \in started /\ t \notin registry
                         /\ \A d \in Commits : Holds(d, t) => d = c
                         /\ commit[c].at = "done" => Stage(t) = "committed" /\ Gathered(t) = <<>>
                         /\ commit[c].at = "taken" => Stage(t) = "open" /\ Gathered(t) = commit[c].taken
                         /\ commit[c].at \in {"removed", "resolved"} =>
                              Stage(t) = "open" /\ Gathered(t) = actions[t]
                    /\ t \in started /\ Unowned(t) => Stage(t) = "discarded" /\ Gathered(t) = <<>>
  BY DEF Whereabouts
<1>1. \A c \in Commits : Holds(c, t) => t \in started /\ t \notin registry
  BY DEF OneOwner, Holds, TypeOK
<1>2. registry \subseteq started
  BY DEF TypeOK
<1>3. CASE t \in registry
  <2>1. Committer(t) = {}
    BY <1>1, <1>3 DEF Committer
  <2> QED BY <1>1, <1>2, <1>3, <2>1 DEF Stage, Gathered, Open, Unowned
<1>4. CASE Unowned(t)
  <2>1. Committer(t) = {} /\ ~Open(t)
    BY <1>4 DEF Committer, Unowned, Open
  <2> QED BY <1>4, <2>1 DEF Stage, Gathered, Unowned
<1>5. ASSUME NEW c \in Commits, Holds(c, t)
      PROVE  /\ t \in started /\ t \notin registry /\ \A d \in Commits : Holds(d, t) => d = c
             /\ commit[c].at = "done" => Stage(t) = "committed" /\ Gathered(t) = <<>>
             /\ commit[c].at = "taken" => Stage(t) = "open" /\ Gathered(t) = commit[c].taken
             /\ commit[c].at \in {"removed", "resolved"} =>
                  Stage(t) = "open" /\ Gathered(t) = actions[t]
  <2>1. \A d \in Commits : Holds(d, t) => d = c
    BY <1>5 DEF OneOwner
  <2>2. Committer(t) = {c}
    BY <1>5, <2>1 DEF Committer
  <2>3. (CHOOSE d \in {c} : TRUE) = c
    OBVIOUS
  <2>4. Open(t) <=> commit[c].at # "done"
    BY <1>1, <1>5, <2>2 DEF Open
  <2> QED BY <1>1, <1>5, <2>1, <2>2, <2>3, <2>4 DEF Stage, Gathered
<1>6. CASE \E c \in Commits : Holds(c, t)
  BY <1>5, <1>6 DEF Unowned
<1> QED BY <1>1, <1>2, <1>3, <1>4, <1>5, <1>6 DEF Unowned

LEMMA WhereaboutsNext ==
  ASSUME TypeOK', OneOwner'
  PROVE  Whereabouts'
BY WhereaboutsAlways, PTL

(* What a commit is going to apply, or has applied.                          *)
InHand(c) ==
  IF commit[c].at \in {"removed", "resolved"} THEN actions[commit[c].tx] ELSE commit[c].taken

Unmoved(t) == Stage(t)' = Stage(t) /\ Gathered(t)' = Gathered(t)

LEMMA Unmoving ==
  ASSUME Whereabouts, Whereabouts', NEW t \in Transactions,
         t \in started' <=> t \in started,
         t \in registry' <=> t \in registry,
         t \in registry => actions'[t] = actions[t],
         \A c \in Commits : Holds(c, t)' <=> Holds(c, t),
         \A c \in Commits : Holds(c, t) =>
           /\ commit'[c].at = "done" <=> commit[c].at = "done"
           /\ commit[c].at # "done" => InHand(c)' = InHand(c)
  PROVE  Unmoved(t)
<1>1. CASE t \notin started
  BY <1>1 DEF Whereabouts, Unmoved
<1>2. CASE t \in registry
  BY <1>2 DEF Whereabouts, Unmoved
<1>3. CASE t \in started /\ Unowned(t)
  BY <1>3 DEF Whereabouts, Unmoved, Unowned
<1>4. ASSUME NEW c \in Commits, Holds(c, t) PROVE Unmoved(t)
  <2>1. Holds(c, t)'
    BY <1>4
  <2>2. CASE commit[c].at = "done"
    BY <1>4, <2>1, <2>2 DEF Whereabouts, Unmoved
  <2>3. CASE commit[c].at # "done"
    <3>1. commit[c].at \in {"removed", "resolved", "taken"} /\ commit[c].tx = t
      BY <1>4, <2>3 DEF Holds, InCommit
    <3>2. commit'[c].at \in {"removed", "resolved", "taken"} /\ commit'[c].tx = t
      BY <1>4, <2>1, <2>3 DEF Holds, InCommit
    <3>3. Stage(t) = "open" /\ Gathered(t) = InHand(c)
      BY <1>4, <3>1 DEF Whereabouts, InHand
    <3>4. Stage(t)' = "open" /\ Gathered(t)' = InHand(c)'
      BY <2>1, <3>2 DEF Whereabouts, InHand
    <3> QED BY <1>4, <2>3, <3>3, <3>4 DEF Unmoved
  <2> QED BY <2>2, <2>3
<1> QED BY <1>1, <1>2, <1>3, <1>4 DEF Unowned

(* Nobody else moves when one transaction enters or leaves the registry.     *)
LEMMA UnmovedElsewhere ==
  ASSUME Whereabouts, Whereabouts', NEW t \in Transactions, UNCHANGED <<commit, actions>>,
         t \in started' <=> t \in started, t \in registry' <=> t \in registry
  PROVE  Unmoved(t)
<1>1. \A c \in Commits : (Holds(c, t)' <=> Holds(c, t)) /\ InHand(c)' = InHand(c)
  BY DEF Holds, InHand
<1> QED BY <1>1, Unmoving

(* The steps of the promise, told by how far each transaction is.            *)
LEMMA PromiseStutters ==
  ASSUME \A t \in Transactions : Unmoved(t), applied' = applied
  PROVE  [Promise!Next]_(Promise!vars)
BY DEF Promise!vars, Unmoved, Stage, Gathered

LEMMA PromiseStarts ==
  ASSUME NEW t \in Transactions, applied' = applied,
         \A u \in Transactions : u # t => Unmoved(u),
         Stage(t) = "none", Stage(t)' = "open", Gathered(t)' = Gathered(t)
  PROVE  [Promise!Next]_(Promise!vars)
<1>1. Promise!Start(t)
  BY DEF Promise!Start, Unmoved, Stage, Gathered
<1> QED BY <1>1 DEF Promise!Next

LEMMA PromisePosts ==
  ASSUME NEW t \in Transactions, NEW p \in Posts, NEW size \in 1 .. MaxActions,
         applied' = applied, \A u \in Transactions : u # t => Unmoved(u),
         Stage(t) = "open", Stage(t)' = "open",
         Gathered(t)' = Gathered(t) \o [n \in 1 .. size |-> <<p, n>>]
  PROVE  [Promise!Next]_(Promise!vars)
<1> DEFINE stages == [u \in Transactions |-> Stage(u)]
           lists == [u \in Transactions |-> Gathered(u)]
           stream == [n \in 1 .. size |-> <<p, n>>]
<1>1. stages' = stages /\ stages[t] = "open"
  BY DEF Unmoved
<1>2. lists' = [lists EXCEPT ![t] = @ \o stream]
  BY DEF Unmoved
<1>3. stream \in [q \in Posts |-> {[n \in 1 .. k |-> <<q, n>>] : k \in 1 .. MaxActions}][p]
  OBVIOUS
<1> HIDE DEF stream
<1>4. Promise!Post(t, p)
  BY <1>1, <1>2, <1>3 DEF Promise!Post, Stage, Gathered
<1> QED BY <1>4 DEF Promise!Next

LEMMA PromiseCommits ==
  ASSUME NEW t \in Transactions, \A u \in Transactions : u # t => Unmoved(u),
         Stage(t) = "open", Stage(t)' = "committed", Gathered(t)' = <<>>,
         applied' = Append(applied, [tx |-> t, actions |-> Gathered(t)])
  PROVE  [Promise!Next]_(Promise!vars)
<1> DEFINE stages == [u \in Transactions |-> Stage(u)]
           lists == [u \in Transactions |-> Gathered(u)]
<1>1. /\ stages[t] = "open"
      /\ stages' = [stages EXCEPT ![t] = "committed"]
      /\ lists' = [lists EXCEPT ![t] = <<>>]
  BY DEF Unmoved
<1>2. applied' = Append(applied, [tx |-> t, actions |-> lists[t]])
  OBVIOUS
<1>3. Promise!Commit(t)
  BY <1>1, <1>2 DEF Promise!Commit, Stage, Gathered
<1> QED BY <1>3 DEF Promise!Next

LEMMA PromiseDiscards ==
  ASSUME NEW ts \in SUBSET Transactions, applied' = applied,
         \A t \in ts : Stage(t) = "open" /\ Stage(t)' = "discarded" /\ Gathered(t)' = <<>>,
         \A u \in Transactions : u \notin ts => Unmoved(u)
  PROVE  [Promise!Next]_(Promise!vars)
<1>1. Promise!Discard(ts)
  BY DEF Promise!Discard, Unmoved, Stage, Gathered
<1> QED BY <1>1 DEF Promise!Next

(* The view of both ends of a step.                                          *)
Seen == TypeOK /\ Whereabouts

LEMMA RegistryImplements ==
  ASSUME Seen, Seen', Streamed, NEW t \in Transactions,
         Start(t) \/ Cancel(t) \/ GoesQuiet(t) \/ GcRemove(t)
  PROVE  [Promise!Next]_(Promise!vars)
<1>1. UNCHANGED <<commit, actions, applied>>
  BY DEF Start, Cancel, GoesQuiet, GcRemove
<1>2. \A c \in Commits : Holds(c, t)' <=> Holds(c, t)
  BY <1>1 DEF Holds
<1>3. ASSUME NEW u \in Transactions, u # t PROVE Unmoved(u)
  <2>1. (u \in started' <=> u \in started) /\ (u \in registry' <=> u \in registry)
    BY <1>3 DEF Start, Cancel, GoesQuiet, GcRemove
  <2> QED BY <1>1, <2>1, UnmovedElsewhere DEF Seen
<1>4. CASE Start(t)
  <2>1. t \notin started /\ t \in registry'
    BY <1>4 DEF Start
  <2>2. Stage(t) = "none" /\ Gathered(t) = <<>> /\ Stage(t)' = "open" /\ Gathered(t)' = actions'[t]
    BY <2>1 DEF Seen, Whereabouts
  <2>3. actions'[t] = <<>>
    BY <1>1, <2>1 DEF Streamed
  <2> QED BY <1>1, <1>3, <2>2, <2>3, PromiseStarts
<1>5. CASE ~Start(t)
  <2>1. started' = started /\ (t \in registry' => t \in registry)
    BY <1>5 DEF Cancel, GoesQuiet, GcRemove
  <2>2. CASE t \in registry /\ t \notin registry'
    <3>1. t \in started' /\ Unowned(t)' /\ Stage(t) = "open"
      BY <1>2, <2>1, <2>2 DEF Seen, TypeOK, Whereabouts, Unowned
    <3>2. Stage(t)' = "discarded" /\ Gathered(t)' = <<>>
      BY <3>1 DEF Seen, Whereabouts
    <3>3. PICK ts \in SUBSET Transactions : ts = {t}
      OBVIOUS
    <3> QED BY <1>1, <1>3, <3>1, <3>2, <3>3, PromiseDiscards
  <2>3. CASE t \in registry <=> t \in registry'
    <3>1. Unmoved(t)
      BY <1>1, <2>1, <2>3, UnmovedElsewhere DEF Seen
    <3> QED BY <1>1, <1>3, <3>1, PromiseStutters
  <2> QED BY <2>1, <2>2, <2>3
<1> QED BY <1>4, <1>5

LEMMA AppendImplements ==
  ASSUME Seen, Seen', Streamed, NEW p \in Posts, PostAppend(p)
  PROVE  [Promise!Next]_(Promise!vars)
<1>1. /\ post[p] \in PostState /\ post[p].tx \in Transactions /\ post[p].tx \in started
      /\ post[p].read # <<>>
      /\ actions' = [actions EXCEPT ![post[p].tx] = @ \o post[p].read]
      /\ UNCHANGED <<started, registry, commit, applied>>
  BY DEF Seen, PostAppend, TypeOK, InPost
<1>2. PICK t \in Transactions : t = post[p].tx
  BY <1>1
<1>3. PICK size \in 1 .. MaxActions : post[p].read = [n \in 1 .. size |-> <<p, n>>]
  <2>1. /\ post[p].read \in Seq(Action) /\ post[p].read # <<>> /\ Len(post[p].read) <= MaxActions
        /\ \A n \in 1 .. Len(post[p].read) : post[p].read[n] = <<p, n>>
    BY <1>1 DEF PostState, Streamed
  <2>2. Len(post[p].read) \in 1 .. MaxActions
    BY <2>1, MaxActionsAssumption
  <2>3. post[p].read = [n \in 1 .. Len(post[p].read) |-> <<p, n>>]
    <3>1. \A read \in Seq(Action) : read = [n \in 1 .. Len(read) |-> read[n]]
      OBVIOUS
    <3>2. post[p].read = [n \in 1 .. Len(post[p].read) |-> post[p].read[n]]
      BY <2>1, <3>1, Zenon
    <3> QED BY <2>1, <3>2
  <2> QED BY <2>2, <2>3
<1> DEFINE stream == [n \in 1 .. size |-> <<p, n>>]
<1>4. /\ actions'[t] = actions[t] \o stream
      /\ \A u \in Transactions : u # t => actions'[u] = actions[u]
  BY <1>1, <1>2, <1>3 DEF Seen, TypeOK
<1> HIDE DEF stream
<1>5. \A c \in Commits, u \in Transactions : Holds(c, u)' <=> Holds(c, u)
  BY <1>1 DEF Holds
<1>6. ASSUME NEW u \in Transactions, u # t PROVE Unmoved(u)
  <2>1. \A c \in Commits : Holds(c, u) => InHand(c)' = InHand(c)
    BY <1>1, <1>4, <1>6 DEF Holds, InHand
  <2> QED BY <1>1, <1>4, <1>5, <1>6, <2>1, Unmoving DEF Seen
<1>7. CASE Stage(t) = "open" /\ Stage(t)' = "open" /\ Gathered(t)' = Gathered(t) \o stream
  BY <1>1, <1>6, <1>7, PromisePosts DEF stream
<1>8. CASE Unmoved(t)
  BY <1>1, <1>6, <1>8, PromiseStutters
<1>9. CASE t \in registry
  <2>1. t \in registry'
    BY <1>1, <1>9
  <2> QED BY <1>4, <1>7, <1>9, <2>1 DEF Seen, Whereabouts
<1>10. ASSUME NEW c \in Commits, Holds(c, t)
       PROVE  [Promise!Next]_(Promise!vars)
  <2>1. Holds(c, t)' /\ commit' = commit
    BY <1>1, <1>5, <1>10
  <2>2. CASE commit[c].at \in {"removed", "resolved"}
    BY <1>4, <1>7, <1>10, <2>1, <2>2 DEF Seen, Whereabouts
  <2>3. CASE commit[c].at \in {"taken", "done"}
    BY <1>8, <1>10, <2>1, <2>3 DEF Seen, Whereabouts, Unmoved
  <2> QED BY <1>10, <2>2, <2>3 DEF Holds, InCommit
<1>11. CASE Unowned(t)
  <2>1. Unowned(t)' /\ t \in started' /\ t \in started
    BY <1>1, <1>2, <1>5, <1>11 DEF Unowned
  <2> QED BY <1>8, <1>11, <2>1 DEF Seen, Whereabouts, Unmoved
<1> QED BY <1>9, <1>10, <1>11 DEF Unowned

(* A restart discards everything that was open.                              *)
LEMMA RestartImplements ==
  ASSUME Seen, Seen', Restart
  PROVE  [Promise!Next]_(Promise!vars)
<1>1. registry' = {} /\ UNCHANGED <<started, applied>>
  BY DEF Restart
<1>2. \A c \in Commits : \/ commit'[c] = commit[c] /\ commit[c].at \notin InCommit \ {"done"}
                         \/ commit[c].at \in InCommit \ {"done"} /\ commit'[c].at = "broken"
  BY RestartCommits DEF Seen
<1>3. \A c \in Commits, t \in Transactions :
        Holds(c, t)' <=> Holds(c, t) /\ commit[c].at = "done"
  BY <1>2 DEF Holds, InCommit
<1>4. PICK ts \in SUBSET Transactions : ts = {t \in Transactions : Stage(t) = "open"}
  OBVIOUS
<1>5. ASSUME NEW t \in ts
      PROVE  Stage(t) = "open" /\ Stage(t)' = "discarded" /\ Gathered(t)' = <<>>
  <2>1. t \in Transactions /\ Stage(t) = "open"
    BY <1>4
  <2>2. t \in started'
    BY <1>1, <2>1 DEF Seen, Whereabouts
  <2>3. Unowned(t)'
    BY <1>1, <1>3, <2>1 DEF Seen, Whereabouts, Unowned
  <2> QED BY <2>1, <2>2, <2>3 DEF Seen, Whereabouts
<1>6. ASSUME NEW t \in Transactions, t \notin ts PROVE Unmoved(t)
  <2>1. Stage(t) # "open"
    BY <1>4, <1>6
  <2>2. t \notin registry /\ \A c \in Commits : Holds(c, t) => commit[c].at = "done"
    BY <2>1 DEF Seen, Whereabouts, Holds, InCommit
  <2>3. \A c \in Commits : Holds(c, t) => commit'[c].at = "done"
    BY <1>2, <2>2 DEF InCommit
  <2> QED BY <1>1, <1>3, <2>2, <2>3, Unmoving DEF Seen
<1> QED BY <1>1, <1>5, <1>6, PromiseDiscards

LEMMA CommitImplements ==
  ASSUME Seen, Seen', OneOwner, NEW c \in Commits, CommitStep(c)
  PROVE  [Promise!Next]_(Promise!vars)
<1>0. commit[c] \in CommitState /\ commit \in [Commits -> CommitState]
  BY DEF Seen, TypeOK
<1>1. \A d \in Commits : d # c => commit'[d] = commit[d]
  BY DEF Seen, CommitStep, CommitBegin, CommitLookUp, CommitTake, CommitApply, Committing, TypeOK
<1>2. started' = started
  BY DEF CommitStep, CommitBegin, CommitLookUp, CommitTake, CommitApply
<1>3. ASSUME NEW u \in Transactions, ~Holds(c, u), ~Holds(c, u)',
             u \in registry' <=> u \in registry, actions'[u] = actions[u]
      PROVE  Unmoved(u)
  <2>1. \A d \in Commits : (Holds(d, u)' <=> Holds(d, u))
    BY <1>1, <1>3 DEF Holds
  <2>2. ASSUME NEW d \in Commits, Holds(d, u)
        PROVE  commit'[d] = commit[d] /\ InHand(d)' = InHand(d)
    BY <1>1, <1>3, <2>2 DEF Holds, InHand
  <2> QED BY <1>2, <1>3, <2>1, <2>2, Unmoving DEF Seen
<1>4. ASSUME NEW t \in Transactions, CommitBegin(c, t)
      PROVE  [Promise!Next]_(Promise!vars)
  <2>1. /\ registry' = registry \ {t} /\ UNCHANGED <<actions, applied>>
        /\ commit[c].at = "idle" /\ \A u \in Transactions : ~Holds(c, u)
    BY <1>4 DEF CommitBegin, Holds, InCommit
  <2>2. CASE t \notin registry
    <3>1. commit'[c].at = "unknown"
      BY <1>0, <1>4, <2>2 DEF CommitBegin, Committing, CommitState
    <3>2. \A u \in Transactions : Unmoved(u)
      BY <1>3, <2>1, <2>2, <3>1 DEF Holds, InCommit
    <3> QED BY <2>1, <3>2, PromiseStutters
  <2>3. CASE t \in registry
    <3>1. commit'[c].at = "removed" /\ commit'[c].tx = t
      BY <1>0, <1>4, <2>3 DEF CommitBegin, Committing, CommitState
    <3>2. \A u \in Transactions : u # t => Unmoved(u)
      BY <1>3, <2>1, <3>1 DEF Holds
    <3>3. Holds(c, t)'
      BY <3>1 DEF Holds, InCommit
    <3>4. Unmoved(t)
      BY <2>1, <2>3, <3>1, <3>3 DEF Seen, Whereabouts, Unmoved
    <3> QED BY <2>1, <3>2, <3>4, PromiseStutters
  <2> QED BY <2>2, <2>3
<1>5. ASSUME commit[c].at \in {"removed", "resolved", "taken"}
      PROVE  \E t \in Transactions : t = commit[c].tx /\ t \in started /\ Holds(c, t)
  BY <1>5 DEF Seen, TypeOK, Holds, InCommit
<1>6. CASE CommitLookUp(c)
  <2>1. /\ UNCHANGED <<registry, actions, applied>>
        /\ commit[c].at = "removed" /\ commit'[c].tx = commit[c].tx
        /\ commit'[c].at = IF table THEN "resolved" ELSE "failed"
    BY <1>0, <1>6 DEF CommitLookUp, Committing, CommitState
  <2>2. PICK t \in Transactions : t = commit[c].tx /\ t \in started /\ Holds(c, t)
    BY <1>5, <2>1
  <2>3. \A u \in Transactions : u # t => Unmoved(u)
    BY <1>3, <2>1, <2>2 DEF Holds
  <2>4. CASE commit'[c].at = "resolved"
    <3>1. Holds(c, t)'
      BY <2>1, <2>2, <2>4 DEF Holds, InCommit
    <3>2. Unmoved(t)
      BY <2>1, <2>2, <2>4, <3>1 DEF Seen, Whereabouts, Unmoved
    <3> QED BY <2>1, <2>3, <3>2, PromiseStutters
  <2>5. CASE commit'[c].at = "failed"
    <3>1. Stage(t) = "open" /\ t \notin registry' /\ t \in started'
      BY <1>2, <2>1, <2>2 DEF Seen, Whereabouts
    <3>2. Unowned(t)'
      BY <1>1, <2>2, <2>5, <3>1 DEF Unowned, Holds, InCommit, OneOwner
    <3>3. Stage(t)' = "discarded" /\ Gathered(t)' = <<>>
      BY <3>1, <3>2 DEF Seen, Whereabouts
    <3>4. PICK ts \in SUBSET Transactions : ts = {t}
      OBVIOUS
    <3> QED BY <2>1, <2>3, <3>1, <3>3, <3>4, PromiseDiscards
  <2> QED BY <2>1, <2>4, <2>5
<1>7. CASE CommitTake(c)
  <2>1. /\ UNCHANGED <<registry, applied>>
        /\ actions' = [actions EXCEPT ![commit[c].tx] = <<>>]
        /\ commit[c].at = "resolved" /\ commit'[c].tx = commit[c].tx
        /\ commit'[c].at = "taken" /\ commit'[c].taken = actions[commit[c].tx]
    BY <1>0, <1>7 DEF CommitTake, Committing, CommitState
  <2>2. PICK t \in Transactions : t = commit[c].tx /\ t \in started /\ Holds(c, t)
    BY <1>5, <2>1
  <2>3. \A u \in Transactions : u # t => Unmoved(u)
    BY <1>3, <2>1, <2>2 DEF Holds, Seen, TypeOK
  <2>4. Holds(c, t)'
    BY <2>1, <2>2 DEF Holds, InCommit
  <2>5. Unmoved(t)
    BY <2>1, <2>2, <2>4 DEF Seen, Whereabouts, Unmoved
  <2> QED BY <2>1, <2>3, <2>5, PromiseStutters
<1>8. CASE CommitApply(c)
  <2>1. /\ UNCHANGED <<registry, actions>>
        /\ applied' = Append(applied, [tx |-> commit[c].tx, actions |-> commit[c].taken])
        /\ commit[c].at = "taken" /\ commit'[c].tx = commit[c].tx /\ commit'[c].at = "done"
    BY <1>0, <1>8 DEF CommitApply, Committing, CommitState
  <2>2. PICK t \in Transactions : t = commit[c].tx /\ t \in started /\ Holds(c, t)
    BY <1>5, <2>1
  <2>3. \A u \in Transactions : u # t => Unmoved(u)
    BY <1>3, <2>1, <2>2 DEF Holds
  <2>4. Holds(c, t)'
    BY <2>1, <2>2 DEF Holds, InCommit
  <2>5. Stage(t) = "open" /\ Gathered(t) = commit[c].taken
    BY <2>1, <2>2 DEF Seen, Whereabouts
  <2>6. Stage(t)' = "committed" /\ Gathered(t)' = <<>>
    BY <2>1, <2>4 DEF Seen, Whereabouts
  <2> QED BY <2>1, <2>2, <2>3, <2>5, <2>6, PromiseCommits
<1> QED BY <1>4, <1>6, <1>7, <1>8 DEF CommitStep

LEMMA StepImplements ==
  ASSUME IInv, IInv', Streamed, [Next]_vars
  PROVE  [Promise!Next]_(Promise!vars)
<1>1. Seen /\ Seen' /\ OneOwner
  BY WhereaboutsAlways, WhereaboutsNext DEF IInv, Seen
<1>2. ASSUME UNCHANGED <<started, registry, actions, commit, applied>>
      PROVE  [Promise!Next]_(Promise!vars)
  BY <1>1, <1>2, UnmovedElsewhere, PromiseStutters DEF Seen
<1>3. ASSUME NEW p \in Posts, PostStep(p), ~PostAppend(p)
      PROVE  [Promise!Next]_(Promise!vars)
  BY <1>2, <1>3 DEF PostStep, PostBegin, PostLookUp, PostMessage, PostBreaks, PostAnswer
<1>4. CASE GcList \/ TableComesOrGoes \/ UNCHANGED vars
  BY <1>2, <1>4 DEF GcList, TableComesOrGoes, vars
<1> QED BY <1>1, <1>3, <1>4, RegistryImplements, AppendImplements, CommitImplements,
           RestartImplements DEF Next, PostStep, CommitStep

(* Posts gather whole, a commit applies all that was gathered, at once and   *)
(* once, and what was cancelled, forgotten, refused or lost to a restart     *)
(* never reaches the table: Transactions implements AtomicTransactions.      *)
THEOREM TransactionsImplementAtomicTransactions == Spec => ImplementsAtomicTransactions
<1>1. Init => Streamed
  BY MaxActionsAssumption DEF Init, Streamed, NewPost
<1>2. Init => Promise!Init
  <2> SUFFICES ASSUME Init PROVE Promise!Init
    OBVIOUS
  <2>1. Whereabouts /\ started = {} /\ applied = <<>>
    BY InitIInv, WhereaboutsAlways DEF Init, IInv
  <2>2. \A t \in Transactions : Stage(t) = "none" /\ Gathered(t) = <<>>
    BY <2>1 DEF Whereabouts
  <2> QED BY <2>1, <2>2 DEF Promise!Init, Stage, Gathered
<1>3. IInv /\ Streamed /\ [Next]_vars => Streamed'
  BY StepStreamed DEF IInv
<1>4. IInv /\ IInv' /\ Streamed /\ [Next]_vars => [Promise!Next]_(Promise!vars)
  BY StepImplements
<1>5. Spec => []Streamed
  BY <1>1, <1>3, InvariantHolds, PTL DEF Spec
<1>6. Spec => Promise!Spec
  BY <1>2, <1>4, <1>5, InvariantHolds, PTL DEF Spec, Promise!Spec
<1> QED BY <1>6 DEF ImplementsAtomicTransactions

-----------------------------------------------------------------------------
(* The tools of an agent: places in the order of the keys.                   *)

LEMMA AheadCounts ==
  ASSUME Keys \subseteq DOMAIN Rank, NEW key \in Keys
  PROVE  /\ IsFiniteSet(Keys)
         /\ IsFiniteSet({k \in Keys : Rank[k] < Rank[key]})
         /\ Ahead(key) \in Nat
<1>1. IsFiniteSet(Keys)
  BY FS_Subset, RankAssumption
<1>2. IsFiniteSet({k \in Keys : Rank[k] < Rank[key]})
  BY <1>1, FS_Subset
<1> QED BY <1>1, <1>2, FS_CardinalityType DEF Ahead

LEMMA AheadIsMonotone ==
  ASSUME Keys \subseteq DOMAIN Rank, NEW j \in Keys, NEW k \in Keys, Rank[j] < Rank[k]
  PROVE  Ahead(j) < Ahead(k)
<1> DEFINE A == {i \in Keys : Rank[i] < Rank[j]}
           B == {i \in Keys : Rank[i] < Rank[k]}
<1>1. IsFiniteSet(A) /\ IsFiniteSet(B) /\ Cardinality(A) \in Nat /\ Cardinality(B) \in Nat
  BY AheadCounts, FS_CardinalityType
<1>2. j \notin A /\ A \cup {j} \subseteq B
  BY RankAssumption
<1>3. Cardinality(A \cup {j}) = Cardinality(A) + 1
  BY <1>1, <1>2, FS_AddElement
<1>4. Cardinality(A \cup {j}) <= Cardinality(B)
  BY <1>1, <1>2, FS_Subset
<1> HIDE DEF A, B
<1>5. Cardinality(A) < Cardinality(B)
  BY <1>1, <1>3, <1>4
<1> QED BY <1>5 DEF Ahead, A, B

LEMMA AheadTellsKeys ==
  ASSUME Keys \subseteq DOMAIN Rank, NEW j \in Keys, NEW k \in Keys, Ahead(j) = Ahead(k)
  PROVE  j = k
<1>1. Rank[j] \in Nat /\ Rank[k] \in Nat /\ (Rank[j] = Rank[k] => j = k)
  BY RankAssumption
<1>2. Ahead(j) \in Nat /\ Ahead(k) \in Nat
  BY AheadCounts
<1>3. Rank[j] < Rank[k] => Ahead(j) < Ahead(k)
  BY AheadIsMonotone
<1>4. Rank[k] < Rank[j] => Ahead(k) < Ahead(j)
  BY AheadIsMonotone
<1> QED BY <1>1, <1>2, <1>3, <1>4

(* Up to the place of a key there is a key at every place.                   *)
LEMMA NoPlaceIsEmpty ==
  ASSUME Keys \subseteq DOMAIN Rank, NEW key \in Keys, NEW m \in 0..Ahead(key)
  PROVE  \E k \in Keys : Ahead(k) = m
<1> DEFINE B(k) == {i \in Keys : Rank[i] < Rank[k]}
           S == {k \in Keys : m <= Ahead(k)}
           T == {B(k) : k \in S}
<1>1. T # {} /\ T \subseteq FiniteSubsetsOf(Keys)
  <2>1. key \in S
    BY AheadCounts
  <2>2. \A k \in S : IsFiniteSet(B(k)) /\ B(k) \subseteq Keys
    BY AheadCounts
  <2> HIDE DEF B, S
  <2> QED BY <2>1, <2>2 DEF FiniteSubsetsOf
<1>2. PICK least \in T : \A other \in T : <<other, least>> \notin StrictSubsetOrdering(Keys)
  <2> HIDE DEF T
  <2> QED BY <1>1, FS_StrictSubsetOrderingWellFounded, WFMin
<1>3. PICK k \in S : least = B(k)
  OBVIOUS
<1>4. \A i \in B(k) : i \in Keys /\ Ahead(i) \in 0..(m - 1)
  <2> SUFFICES ASSUME NEW i \in B(k) PROVE Ahead(i) \in 0..(m - 1)
    OBVIOUS
  <2>1. i \in Keys /\ k \in Keys /\ Rank[i] < Rank[k] /\ Rank[i] \in Nat /\ Rank[k] \in Nat
    BY RankAssumption
  <2>2. Ahead(i) \in Nat
    BY AheadCounts
  <2>3. ~ (m <= Ahead(i))
    <3> SUFFICES ASSUME i \in S PROVE FALSE
      BY <2>1
    <3>1. B(i) \in T
      OBVIOUS
    <3>2. B(i) \subseteq B(k)
      BY <2>1, RankAssumption
    <3>3. i \in B(k) /\ i \notin B(i)
      BY <2>1
    <3>4. B(i) \subseteq Keys /\ B(k) \subseteq Keys
      OBVIOUS
    <3> HIDE DEF B, T, S
    <3>5. <<B(i), B(k)>> \in StrictSubsetOrdering(Keys)
      BY <3>2, <3>3, <3>4 DEF StrictSubsetOrdering
    <3> QED BY <1>2, <1>3, <3>1, <3>5
  <2> HIDE DEF B, S, T
  <2> QED BY <2>2, <2>3
<1>5. Cardinality(B(k)) <= m
  <2> DEFINE f == [i \in B(k) |-> Ahead(i)]
  <2>1. f \in Injection(B(k), 0..(m - 1))
    <3>1. f \in [B(k) -> 0..(m - 1)]
      BY <1>4
    <3>2. \A a, b \in B(k) : f[a] = f[b] => a = b
      BY AheadTellsKeys
    <3> HIDE DEF B, f
    <3> QED BY <3>1, <3>2 DEF Injection, IsInjective
  <2>2. m \in Nat /\ m - 1 \in Int
    BY AheadCounts
  <2>3. IsFiniteSet(0..(m - 1)) /\ Cardinality(0..(m - 1)) = m
    BY <2>2, FS_Interval
  <2> HIDE DEF f, B
  <2> QED BY <2>1, <2>3, FS_Injection
<1>6. k \in Keys /\ m <= Ahead(k) /\ Ahead(k) = Cardinality(B(k)) /\ Ahead(k) \in Nat
  BY AheadCounts DEF Ahead
<1> HIDE DEF B, S, T
<1> QED BY <1>5, <1>6

(* A slice has as many keys as were asked for when there is one beyond.      *)
LEMMA SlicesAreFull ==
  ASSUME Keys \subseteq DOMAIN Rank, NEW skip \in Nat, NEW n \in Nat,
         NEW key \in Keys, skip + n <= Ahead(key)
  PROVE  Cardinality(Slice(skip, n + 1)) > n
<1> DEFINE f == [m \in skip..(skip + n) |-> CHOOSE k \in Keys : Ahead(k) = m]
<1>1. \A m \in skip..(skip + n) : f[m] \in Keys /\ Ahead(f[m]) = m
  <2> SUFFICES ASSUME NEW m \in skip..(skip + n)
               PROVE  f[m] \in Keys /\ Ahead(f[m]) = m
    OBVIOUS
  <2>0. Ahead(key) \in Nat
    BY AheadCounts
  <2>1. m \in 0..Ahead(key)
    BY <2>0
  <2>2. \E k \in Keys : Ahead(k) = m
    BY <2>1, NoPlaceIsEmpty
  <2> QED BY <2>2
<1>2. f \in Injection(skip..(skip + n), Slice(skip, n + 1))
  <2>1. f = [m \in skip..(skip + n) |-> f[m]]
    OBVIOUS
  <2> HIDE DEF f
  <2>2. \A m \in skip..(skip + n) : f[m] \in Slice(skip, n + 1)
    BY <1>1 DEF Slice
  <2> QED BY <1>1, <2>1, <2>2 DEF Injection, IsInjective
<1>3. Cardinality(skip..(skip + n)) = n + 1
  BY FS_Interval
<1>4. IsFiniteSet(Slice(skip, n + 1))
  BY FS_Subset, AheadCounts DEF Slice
<1>5. Cardinality(Slice(skip, n + 1)) \in Nat
  BY <1>4, FS_CardinalityType
<1> HIDE DEF f
<1>6. Cardinality(skip..(skip + n)) <= Cardinality(Slice(skip, n + 1))
  BY <1>2, <1>4, FS_Injection
<1> QED BY <1>3, <1>5, <1>6

(* Rows that come put others further behind, and none further ahead.         *)
LEMMA GrowthKeepsPlaces ==
  ASSUME Keys \subseteq Keys', Keys' \subseteq DOMAIN Rank, NEW key \in Keys
  PROVE  Ahead(key) \in Nat /\ Ahead(key)' \in Nat /\ Ahead(key) <= Ahead(key)'
<1> DEFINE A == {k \in Keys : Rank[k] < Rank[key]}
           B == {k \in Keys' : Rank[k] < Rank[key]}
<1>1. IsFiniteSet(Keys')
  BY FS_Subset, RankAssumption
<1>2. IsFiniteSet(B) /\ A \subseteq B
  BY <1>1, FS_Subset
<1>3. IsFiniteSet(A) /\ Cardinality(A) <= Cardinality(B)
  BY <1>2, FS_Subset
<1>4. Cardinality(A) \in Nat /\ Cardinality(B) \in Nat
  BY <1>2, <1>3, FS_CardinalityType
<1> QED BY <1>3, <1>4 DEF Ahead

-----------------------------------------------------------------------------
(* The tools of an agent: rows.                                              *)

(* What becomes of a row's keys when it is stored.                           *)
LEMMA RowsAreRows ==
  ASSUME NEW id, NEW item, NEW r \in RowsOf(id, item), NEW b
  PROVE  /\ r.id = id /\ r.json = item[2]
         /\ [r EXCEPT !.stray = b].id = id
         /\ [r EXCEPT !.stray = b].json = item[2]
         /\ KeyOf([r EXCEPT !.stray = b]) = KeyOf(r)
<1>1. PICK fields : r \in Parsed(id, fields, item[2])
  BY DEF RowsOf
<1>2. \E p, q, f, e : r = [id |-> id, partition |-> p, row |-> q, json |-> item[2],
                           fields |-> f, expires |-> e, stray |-> FALSE]
  BY <1>1 DEF Parsed
<1> QED BY <1>2 DEF KeyOf

(* Of one key a batch has its last row, and no other.                        *)
LEMMA LastsAreApart ==
  ASSUME NEW id \in Ids, NEW items, DOMAIN items = 1..Len(items), Len(items) \in Nat,
         \A i \in DOMAIN items : items[i] \in Writable
  PROVE  /\ \A r \in Lasts(id, items) : \E i \in DOMAIN items : r \in RowsOf(id, items[i])
         /\ \A r \in Lasts(id, items) : KeyOf(r) \in DOMAIN Rank
         /\ \A r, s \in Lasts(id, items) : KeyOf(r) = KeyOf(s) => r = s
<1>1. \A r \in Lasts(id, items) :
        \E i \in DOMAIN items :
          /\ r \in RowsOf(id, items[i])
          /\ \A j \in (i + 1)..Len(items) : \A l \in RowsOf(id, items[j]) : KeyOf(l) # KeyOf(r)
  BY DEF Lasts
<1>2. \A r \in Lasts(id, items) : KeyOf(r) \in DOMAIN Rank
  BY <1>1, RowsAssumption
<1>3. ASSUME NEW r \in Lasts(id, items), NEW s \in Lasts(id, items), KeyOf(r) = KeyOf(s)
      PROVE  r = s
  <2>1. PICK i \in DOMAIN items :
          /\ r \in RowsOf(id, items[i])
          /\ \A n \in (i + 1)..Len(items) : \A l \in RowsOf(id, items[n]) : KeyOf(l) # KeyOf(r)
    BY <1>1
  <2>2. PICK j \in DOMAIN items :
          /\ s \in RowsOf(id, items[j])
          /\ \A n \in (j + 1)..Len(items) : \A l \in RowsOf(id, items[n]) : KeyOf(l) # KeyOf(s)
    BY <1>1
  <2>3. ~ (i < j)
    BY <1>3, <2>1, <2>2
  <2>4. ~ (j < i)
    BY <1>3, <2>1, <2>2
  <2>5. i = j
    BY <2>3, <2>4
  <2> QED BY <2>1, <2>2, <2>5, RowsAssumption
<1> QED BY <1>1, <1>2, <1>3

(* Rows that replace others leave one to a key, and take no key away.        *)
LEMMA ReplacedIsHeld ==
  ASSUME NEW new,
         \A r, s \in rows : KeyOf(r) = KeyOf(s) => r = s,
         \A r, s \in new : KeyOf(r) = KeyOf(s) => r = s
  PROVE  /\ \A r, s \in Replaced(rows, new) : KeyOf(r) = KeyOf(s) => r = s
         /\ {KeyOf(r) : r \in Replaced(rows, new)} = Keys \cup {KeyOf(r) : r \in new}
BY DEF Replaced, Keys

-----------------------------------------------------------------------------
(* The tools of an agent: calls.                                             *)

LEMMA ItemsAreWritable ==
  ASSUME NEW c, c.tool \in Inserts,
         c.tool = "insert_or_replace_row" => c.json \in Documents,
         c.tool = "bulk_insert_or_replace_rows" => c.json \in Batches
  PROVE  /\ Len(Items(c)) \in Nat /\ DOMAIN Items(c) = 1..Len(Items(c))
         /\ \A i \in DOMAIN Items(c) : Items(c)[i] \in Writable
<1>1. CASE c.tool = "insert_or_replace_row"
  BY <1>1 DEF Items, Writable
<1>2. CASE c.tool = "bulk_insert_or_replace_rows"
  <2>1. c.json \in Seq(ToSet(c.json)) /\ Items(c) = c.json
    BY <1>2, BatchesAssumption DEF Items
  <2>2. \A i \in DOMAIN c.json : c.json[i] \in ToSet(c.json)
    BY DEF ToSet
  <2>3. \A i \in DOMAIN c.json : c.json[i] \in Writable
    BY <1>2, <2>2 DEF Writable
  <2> QED BY <2>1, <2>3
<1> QED BY <1>1, <1>2 DEF Inserts

(* The rows of a call that is about to insert.                               *)
LEMMA RowsCarried ==
  ASSUME NEW c, Carries(c), c.at = "apply", c.tool \in Inserts
  PROVE  /\ c.id \in Ids /\ c.rows = Lasts(c.id, Items(c))
         /\ \A i \in DOMAIN Items(c) : RowsOf(c.id, Items(c)[i]) # {}
         /\ \A r \in c.rows : \E i \in DOMAIN Items(c) : r \in RowsOf(c.id, Items(c)[i])
         /\ \A r \in c.rows : KeyOf(r) \in DOMAIN Rank
         /\ \A r, s \in c.rows : KeyOf(r) = KeyOf(s) => r = s
<1>1. c.id \in Ids /\ c.rows \in Batch(c.id, Items(c))
  BY DEF Carries
<1>2. /\ c.rows = Lasts(c.id, Items(c))
      /\ \A i \in DOMAIN Items(c) : RowsOf(c.id, Items(c)[i]) # {}
  BY <1>1 DEF Batch
<1>3. /\ Len(Items(c)) \in Nat /\ DOMAIN Items(c) = 1..Len(Items(c))
      /\ \A i \in DOMAIN Items(c) : Items(c)[i] \in Writable
  BY ItemsAreWritable DEF Carries
<1> QED BY <1>1, <1>2, <1>3, LastsAreApart

LEMMA IdleCarries ==
  /\ Carries(Idle) /\ Idle.at = "idle"
  /\ Invited(Idle) /\ Invited(Idle)'
BY DEF Carries, Invited, Idle

(* A step of one call, in every way a call can be.                           *)
LEMMA CallSteps ==
  ASSUME CallsHold, NEW q \in Calls, NEW c, call' = [call EXCEPT ![q] = c],
         Carries(c), left' = left, Invited(c)
  PROVE  CallsHold'
<1>1. \A p \in Calls : call'[p] = IF p = q THEN c ELSE call[p]
  BY DEF CallsHold
<1>2. \A d : Invited(d) => /\ d.at \in {"pick", "apply"} => d.invited
                           /\ d.at = "gate" /\ left' > 0 => d.invited
  BY DEF Invited
<1> QED BY <1>1, <1>2 DEF CallsHold, Invited

LEMMA CallsStay ==
  ASSUME CallsHold, call' = call, left' > 0 => left > 0
  PROVE  CallsHold'
BY DEF CallsHold, Invited

(* The table and who reads it, when neither moves; when the reader follows   *)
(* the table, or stays while it grows.                                       *)
LEMMA TableStays ==
  ASSUME Held, Paging, UNCHANGED stored, UNCHANGED reader
  PROVE  Held' /\ Paging'
BY DEF Held, Paging, stored, Keys, Ahead

LEMMA StoredStays ==
  ASSUME Held, UNCHANGED stored
  PROVE  Held' /\ Keys' = Keys /\ \A key : Ahead(key)' = Ahead(key)
<1>1. rows' = rows /\ schemas' = schemas
  BY DEF stored
<1>2. Keys' = Keys
  BY <1>1 DEF Keys
<1> QED BY <1>1, <1>2 DEF Held, Ahead

LEMMA ReaderStays ==
  ASSUME Held, Held', Paging, Keys \subseteq Keys', UNCHANGED reader
  PROVE  Paging'
<1>1. \A key \in Keys : Ahead(key) \in Nat /\ Ahead(key)' \in Nat /\ Ahead(key) <= Ahead(key)'
  BY GrowthKeepsPlaces DEF Held
<1>2. \A key \in reader.owed : key \in Keys
  BY DEF Paging
<1> QED BY <1>1, <1>2 DEF Paging

LEMMA NotReadingIsPaging ==
  ASSUME reader' = NotReading
  PROVE  Paging'
BY LimitAssumption DEF Paging, NotReading

LEMMA ReaderFollows ==
  ASSUME Held, Held', Paging, reader' = Follows(reader)
  PROVE  Paging'
<1>1. CASE Keys \subseteq Keys'
  BY <1>1, ReaderStays DEF Follows, Keys
<1>2. CASE ~ (Keys \subseteq Keys')
  BY <1>2, NotReadingIsPaging DEF Follows, Keys
<1> QED BY <1>1, <1>2

-----------------------------------------------------------------------------
(* The tools of an agent: the steps.                                         *)

(* A call that arrives knows whether the window is open.                     *)
LEMMA AnArrival ==
  ASSUME NEW q, NEW tool, NEW json, InFlight(q, tool, json, "gate")
  PROVE  \E open \in BOOLEAN :
           /\ left > 0 => open
           /\ call' = [call EXCEPT ![q] = [at |-> "gate", tool |-> tool, json |-> json,
                                          id |-> Absent, rows |-> {}, invited |-> open]]
<1>1. CASE left > 0
  <2>1. (left > 0) = TRUE
    BY <1>1
  <2>2. call' = [call EXCEPT ![q] = [at |-> "gate", tool |-> tool, json |-> json,
                                     id |-> Absent, rows |-> {}, invited |-> TRUE]]
    BY <2>1, Zenon DEF InFlight
  <2> QED BY <2>2, <1>1
<1>2. CASE ~ (left > 0)
  <2>1. (left > 0) = FALSE
    BY <1>2
  <2>2. call' = [call EXCEPT ![q] = [at |-> "gate", tool |-> tool, json |-> json,
                                     id |-> Absent, rows |-> {}, invited |-> FALSE]]
    BY <2>1, Zenon DEF InFlight
  <2> QED BY <2>2, <1>2
<1> QED BY <1>1, <1>2

LEMMA APick ==
  ASSUME NEW c, Carries(c), NEW id, NEW made
  PROVE  [[[c EXCEPT !.at = "apply"] EXCEPT !.id = id] EXCEPT !.rows = made]
         = [at |-> "apply", tool |-> c.tool, json |-> c.json, id |-> id, rows |-> made,
            invited |-> c.invited]
<1>1. c = [at |-> c.at, tool |-> c.tool, json |-> c.json, id |-> c.id, rows |-> c.rows,
           invited |-> c.invited]
  BY DEF Carries
<1> DEFINE c1 == [c EXCEPT !.at = "apply"]
           c2 == [c1 EXCEPT !.id = id]
<1>2. c1 = [at |-> "apply", tool |-> c.tool, json |-> c.json, id |-> c.id, rows |-> c.rows,
            invited |-> c.invited]
  BY <1>1
<1> HIDE DEF c1
<1>3. c2 = [at |-> "apply", tool |-> c.tool, json |-> c.json, id |-> id, rows |-> c.rows,
            invited |-> c.invited]
  BY <1>2
<1> HIDE DEF c2
<1>4. [c2 EXCEPT !.rows = made]
      = [at |-> "apply", tool |-> c.tool, json |-> c.json, id |-> id, rows |-> made,
         invited |-> c.invited]
  BY <1>3
<1> QED BY <1>4, Zenon DEF c1, c2

LEMMA ArriveStep ==
  ASSUME ToolsIInv, NEW q \in Calls, Arrive(q)
  PROVE  ToolsIInv'
<1>1. ASSUME NEW tool, NEW json, InFlight(q, tool, json, "gate"),
             tool = "insert_or_replace_row" => json \in Documents,
             tool = "bulk_insert_or_replace_rows" => json \in Batches,
             UNCHANGED <<stored, left, reader>>
      PROVE  ToolsIInv'
  <2>1. PICK open \in BOOLEAN :
          /\ left > 0 => open
          /\ call' = [call EXCEPT ![q] = [at |-> "gate", tool |-> tool, json |-> json,
                                         id |-> Absent, rows |-> {}, invited |-> open]]
    BY <1>1, AnArrival
  <2> DEFINE c == [at |-> "gate", tool |-> tool, json |-> json, id |-> Absent, rows |-> {},
                   invited |-> open]
  <2>4. Carries(c)
    BY <1>1 DEF Carries
  <2>5. Invited(c)
    BY <2>1 DEF Invited
  <2> HIDE DEF c
  <2>6. CallsHold'
    BY <1>1, <2>1, <2>4, <2>5, CallSteps DEF ToolsIInv, c
  <2> QED BY <1>1, <2>6, TableStays DEF ToolsIInv
<1>2. CASE \E json \in Documents : InFlight(q, "insert_or_replace_row", json, "gate")
  BY <1>1, <1>2 DEF Arrive
<1>3. CASE \E json \in Batches : InFlight(q, "bulk_insert_or_replace_rows", json, "gate")
  BY <1>1, <1>3 DEF Arrive
<1>4. CASE \E r \in rows : InFlight(q, "delete_row", KeyOf(r), "gate")
  BY <1>1, <1>4 DEF Arrive
<1>5. CASE \E json \in KeyLists : InFlight(q, "bulk_delete_rows", json, "gate")
  BY <1>1, <1>5 DEF Arrive
<1>6. CASE \E p \in SUBSET {r.partition : r \in rows} :
             InFlight(q, "delete_partitions", p, "gate")
  BY <1>1, <1>6 DEF Arrive
<1>7. CASE InFlight(q, "clean_table", Absent, "gate")
  BY <1>1, <1>7 DEF Arrive
<1>8. CASE \E only \in {{}} \cup {{r.partition} : r \in Archive} :
             InFlight(q, "restore_backup", only, "gate")
  BY <1>1, <1>8 DEF Arrive
<1> QED BY <1>2, <1>3, <1>4, <1>5, <1>6, <1>7, <1>8 DEF Arrive

LEMMA EndsStep ==
  ASSUME ToolsIInv, NEW q \in Calls, Ends(q), UNCHANGED left
  PROVE  CallsHold'
BY CallSteps, IdleCarries DEF Ends, ToolsIInv

LEMMA GateStep ==
  ASSUME ToolsIInv, NEW q \in Calls, Gate(q)
  PROVE  ToolsIInv'
<1>1. CallsHold'
  <2>1. CASE Ends(q)
    BY <2>1, EndsStep DEF Gate
  <2>2. CASE ~ Ends(q)
    <3> DEFINE c == call[q]
               d == [c EXCEPT !.at = IF c.tool \in Inserts THEN "pick" ELSE "apply"]
    <3>1. call' = [call EXCEPT ![q] = d] /\ left > 0 /\ c.at = "gate" /\ left' = left
      BY <2>2 DEF Gate, WritesAreOpen, ToolsIInv, CallsHold
    <3>2. Carries(c) /\ Invited(c)
      BY DEF ToolsIInv, CallsHold
    <3> HIDE DEF c
    <3>3. d = [at |-> IF c.tool \in Inserts THEN "pick" ELSE "apply", tool |-> c.tool,
               json |-> c.json, id |-> c.id, rows |-> c.rows, invited |-> c.invited]
      BY <3>2 DEF Carries
    <3>4. c.invited
      BY <3>1, <3>2 DEF Invited
    <3> HIDE DEF d
    <3>5. Carries(d)
      BY <3>1, <3>2, <3>3 DEF Carries
    <3>6. Invited(d)
      BY <3>3, <3>4 DEF Invited
    <3> QED BY <3>1, <3>5, <3>6, CallSteps DEF ToolsIInv
  <2> QED BY <2>1, <2>2
<1> QED BY <1>1, TableStays DEF Gate, ToolsIInv

LEMMA PickStep ==
  ASSUME ToolsIInv, NEW q \in Calls, Pick(q)
  PROVE  ToolsIInv'
<1>1. CallsHold'
  <2>1. CASE Ends(q)
    BY <2>1, EndsStep DEF Pick
  <2>2. CASE ~ Ends(q)
    <3> DEFINE c == call[q]
    <3>1. PICK id, made : /\ id \in schemas /\ made \in Batch(id, Items(c))
                          /\ call' = [call EXCEPT ![q].at = "apply", ![q].id = id,
                                                  ![q].rows = made]
      BY <2>2 DEF Pick, Pickable
    <3> DEFINE d == [at |-> "apply", tool |-> c.tool, json |-> c.json, id |-> id,
                     rows |-> made, invited |-> c.invited]
    <3>2. Carries(c) /\ Invited(c) /\ c.at = "pick" /\ id \in Ids
      BY <3>1 DEF ToolsIInv, CallsHold, Pick, Held
    <3>3. call' = [call EXCEPT ![q] = d]
      <4>1. d = [[[c EXCEPT !.at = "apply"] EXCEPT !.id = id] EXCEPT !.rows = made]
        BY <3>2, APick
      <4> QED BY <3>1, <4>1
    <3>4. Items(d) = Items(c)
      BY DEF Items
    <3> HIDE DEF c
    <3>5. Carries(d)
      BY <3>1, <3>2, <3>4 DEF Carries
    <3>6. Invited(d)
      BY <3>2 DEF Invited
    <3> HIDE DEF d
    <3>7. left' = left
      BY DEF Pick
    <3> QED BY <3>3, <3>5, <3>6, <3>7, CallSteps DEF ToolsIInv
  <2> QED BY <2>1, <2>2
<1> QED BY <1>1, TableStays DEF Pick, ToolsIInv

LEMMA InsertStep ==
  ASSUME ToolsIInv, NEW q \in Calls, call[q].at = "apply", Insert(q)
  PROVE  Held'
<1> DEFINE c == call[q]
           Stored(r) == [r EXCEPT !.stray = r.id \notin schemas]
           new == {Stored(r) : r \in c.rows}
<1>1. Carries(c) /\ c.at = "apply" /\ c.tool \in Inserts
  BY DEF ToolsIInv, CallsHold, Insert
<1>2. /\ \A r \in c.rows : KeyOf(Stored(r)) = KeyOf(r) /\ KeyOf(r) \in DOMAIN Rank
      /\ \A r, s \in c.rows : KeyOf(r) = KeyOf(s) => r = s
  <2> HIDE DEF c
  <2>1. /\ \A r \in c.rows : \E i \in DOMAIN Items(c) : r \in RowsOf(c.id, Items(c)[i])
        /\ \A r \in c.rows : KeyOf(r) \in DOMAIN Rank
        /\ \A r, s \in c.rows : KeyOf(r) = KeyOf(s) => r = s
    BY <1>1, RowsCarried
  <2>2. ASSUME NEW r \in c.rows
        PROVE  KeyOf(Stored(r)) = KeyOf(r)
    <3>1. PICK i \in DOMAIN Items(c) : r \in RowsOf(c.id, Items(c)[i])
      BY <2>1
    <3> QED BY <3>1, RowsAreRows
  <2> HIDE DEF Stored
  <2> QED BY <2>1, <2>2
<1>3. rows' = Replaced(rows, new) /\ schemas' = schemas
  BY DEF Insert
<1> HIDE DEF c, Stored
<1>4. /\ \A r, s \in new : KeyOf(r) = KeyOf(s) => r = s
      /\ \A r \in new : KeyOf(r) \in DOMAIN Rank
  BY <1>2
<1> HIDE DEF new
<1>5. /\ \A r, s \in rows' : KeyOf(r) = KeyOf(s) => r = s
      /\ {KeyOf(r) : r \in rows'} = Keys \cup {KeyOf(r) : r \in new}
  BY <1>3, <1>4, ReplacedIsHeld DEF ToolsIInv, Held
<1>6. Keys' \subseteq DOMAIN Rank
  BY <1>4, <1>5 DEF Keys, ToolsIInv, Held
<1> QED BY <1>3, <1>5, <1>6 DEF ToolsIInv, Held

LEMMA ApplyStep ==
  ASSUME ToolsIInv, NEW q \in Calls, Apply(q)
  PROVE  ToolsIInv'
<1>1. CallsHold' /\ left' = left
  BY EndsStep DEF Apply
<1>2. ASSUME Delete(q) PROVE Held'
  <2>1. rows' \subseteq rows /\ schemas' = schemas
    BY <1>2 DEF Delete
  <2> QED BY <2>1 DEF ToolsIInv, Held, Keys
<1>3. ASSUME Restore(q) PROVE Held'
  <2> DEFINE back == {r \in Archive : call[q].json = {} \/ r.partition \in call[q].json}
             over == {r.partition : r \in back}
             stay == {r \in rows : r.partition \notin over}
  <2>1. rows' = stay \cup back /\ schemas' = schemas \cup {r.id : r \in Archive}
    BY <1>3 DEF Restore
  <2>2. schemas' \subseteq Ids
    BY <2>1, RowsAssumption DEF ToolsIInv, Held
  <2>3. \A r \in rows' : KeyOf(r) \in DOMAIN Rank
    BY <2>1, RowsAssumption DEF ToolsIInv, Held, Keys
  <2>4. \A r \in stay, s \in back : KeyOf(r) # KeyOf(s)
    BY DEF KeyOf
  <2>5. back \subseteq Archive /\ stay \subseteq rows
    OBVIOUS
  <2> HIDE DEF back, stay
  <2>6. \A r, s \in rows' : KeyOf(r) = KeyOf(s) => r = s
    BY <2>1, <2>4, <2>5, RowsAssumption DEF ToolsIInv, Held
  <2> QED BY <2>2, <2>3, <2>6 DEF Held, Keys
<1>4. Held'
  BY <1>2, <1>3, InsertStep DEF Apply
<1> QED BY <1>1, <1>4, ReaderFollows DEF Apply, ToolsIInv

LEMMA StartReadingStep ==
  ASSUME ToolsIInv, StartReading
  PROVE  ToolsIInv'
<1>1. PICK limit \in 1..MaxLimit :
        reader' = [at |-> "reading", skip |-> 0, limit |-> limit, owed |-> Keys]
  BY DEF StartReading
<1>2. Held' /\ Keys' = Keys /\ \A key : Ahead(key)' = Ahead(key)
  BY StoredStays DEF StartReading, ToolsIInv
<1>3. CallsHold' /\ left' = left
  <2>1. call' = call /\ left' = left
    BY DEF StartReading
  <2> QED BY <2>1, CallsStay DEF ToolsIInv
<1>4. \A key \in Keys : 0 <= Ahead(key)
  <2>1. \A key \in Keys : Ahead(key) \in Nat
    BY AheadCounts DEF ToolsIInv, Held
  <2> QED BY <2>1
<1>5. Paging'
  BY <1>1, <1>2, <1>4 DEF Paging
<1> QED BY <1>2, <1>3, <1>5 DEF ToolsIInv

LEMMA GetRowsStep ==
  ASSUME ToolsIInv, GetRows
  PROVE  ToolsIInv'
<1> DEFINE skip == reader.skip
           limit == reader.limit
           matched == Slice(skip, Wanted(limit))
           page == {key \in matched : Ahead(key) < skip + limit}
<1>a. Keys \subseteq DOMAIN Rank /\ \A key \in Keys : Ahead(key) \in Nat
  BY AheadCounts DEF ToolsIInv, Held
<1>b. reader.at = "reading" /\ skip \in Nat /\ limit \in 1..MaxLimit /\ limit \in Nat
  BY LimitAssumption DEF ToolsIInv, Paging, GetRows
<1>c. reader.owed \subseteq Keys /\ \A key \in reader.owed : skip <= Ahead(key)
  BY <1>b DEF ToolsIInv, Paging
<1>1. /\ skip \in Nat /\ limit \in Nat /\ limit \in 1..MaxLimit
      /\ reader.owed \subseteq Keys /\ \A key \in reader.owed : skip <= Ahead(key)
      /\ Keys \subseteq DOMAIN Rank
      /\ \A key \in Keys : Ahead(key) \in Nat
  BY <1>a, <1>b, <1>c
<1>2. Held' /\ Keys' = Keys /\ \A key : Ahead(key)' = Ahead(key)
  BY StoredStays DEF GetRows, ToolsIInv
<1>3. CallsHold' /\ left' = left
  BY CallsStay DEF GetRows, ToolsIInv
<1>4. \A key \in reader.owed \ page : key \in Keys /\ skip + limit <= Ahead(key)
  <2> HIDE DEF skip, limit
  <2> QED BY <1>1 DEF Slice, Wanted
<1>5. CASE Cardinality(matched) > limit
  <2>1. reader' = [at |-> "reading", skip |-> skip + limit, limit |-> limit,
                   owed |-> reader.owed \ page]
    BY <1>5 DEF GetRows, ToolsIInv, Paging
  <2> HIDE DEF skip, limit, page
  <2>2. Paging'
    BY <1>1, <1>2, <1>4, <2>1 DEF Paging
  <2> QED BY <1>2, <1>3, <2>2 DEF ToolsIInv
<1>6. CASE ~ (Cardinality(matched) > limit)
  <2>1. reader' = [NotReading EXCEPT !.at = "done", !.owed = reader.owed \ page]
    BY <1>6 DEF GetRows
  <2>2. reader.owed \ page = {}
    <3> SUFFICES ASSUME NEW key \in reader.owed \ page PROVE FALSE
      OBVIOUS
    <3>1. Cardinality(Slice(skip, limit + 1)) > limit
      <4> HIDE DEF skip, limit, page
      <4> QED BY <1>1, <1>4, SlicesAreFull
    <3> QED BY <1>6, <3>1 DEF Wanted
  <2> HIDE DEF page
  <2>3. reader' = [at |-> "done", skip |-> 0, limit |-> 1, owed |-> {}]
    BY <2>1, <2>2 DEF NotReading
  <2>4. Paging'
    BY <2>3, LimitAssumption DEF Paging
  <2> QED BY <1>2, <1>3, <2>4 DEF ToolsIInv
<1> QED BY <1>5, <1>6

LEMMA ClientWritesStep ==
  ASSUME ToolsIInv, ClientWrites
  PROVE  ToolsIInv'
<1>1. PICK pair \in ClientRows : \E row \in Parsed(pair[1], pair[2], Absent) :
         rows' = Replaced(rows, {row}) /\ schemas' = schemas \cup {pair[1]}
  BY DEF ClientWrites
<1>2. PICK row \in Parsed(pair[1], pair[2], Absent) :
         rows' = Replaced(rows, {row}) /\ schemas' = schemas \cup {pair[1]}
  BY <1>1
<1>3. pair[1] \in Ids /\ KeyOf(row) \in DOMAIN Rank
  BY RowsAssumption
<1>4. /\ \A r, s \in rows' : KeyOf(r) = KeyOf(s) => r = s
      /\ {KeyOf(r) : r \in rows'} = Keys \cup {KeyOf(r) : r \in {row}}
  BY <1>2, ReplacedIsHeld DEF ToolsIInv, Held
<1>5. Held' /\ Keys \subseteq Keys'
  BY <1>2, <1>3, <1>4 DEF ToolsIInv, Held, Keys
<1>6. CallsHold' /\ UNCHANGED <<left, reader>>
  BY CallsStay DEF ClientWrites, ToolsIInv
<1> QED BY <1>5, <1>6, ReaderStays DEF ToolsIInv

LEMMA CollectStep ==
  ASSUME ToolsIInv, Collect
  PROVE  ToolsIInv'
<1>1. schemas' \subseteq schemas /\ UNCHANGED <<rows, left, call, reader>>
  BY DEF Collect
<1>2. Held' /\ Keys' = Keys
  BY <1>1 DEF ToolsIInv, Held, Keys
<1>3. CallsHold'
  BY <1>1, CallsStay DEF ToolsIInv
<1> QED BY <1>1, <1>2, <1>3, ReaderStays DEF ToolsIInv

LEMMA OpenWritesStep ==
  ASSUME ToolsIInv, OpenWrites
  PROVE  ToolsIInv'
<1>1. left' \in 0..WindowLength /\ UNCHANGED <<stored, reader>>
  BY LimitAssumption DEF OpenWrites, FromNow
<1>2. CallsHold'
  <2>1. \A q \in Calls : call'[q] = IF call[q].at = "idle" THEN Idle
                                    ELSE [call[q] EXCEPT !.invited = TRUE]
    BY DEF OpenWrites
  <2>2. DOMAIN call' = Calls
    BY DEF OpenWrites
  <2>3. ASSUME NEW q \in Calls
        PROVE  /\ Carries(call'[q])
               /\ call'[q].at = "idle" \/ call'[q].invited
    <3> DEFINE c == call[q]
    <3>1. CASE c.at = "idle"
      <4>1. call'[q] = Idle
        BY <2>1, <3>1
      <4> QED BY <4>1, IdleCarries
    <3>2. CASE c.at # "idle"
      <4>1. Carries(c)
        BY DEF ToolsIInv, CallsHold
      <4>2. call'[q] = [c EXCEPT !.invited = TRUE]
        BY <2>1, <3>2
      <4> HIDE DEF c
      <4> DEFINE d == [at |-> c.at, tool |-> c.tool, json |-> c.json, id |-> c.id,
                       rows |-> c.rows, invited |-> TRUE]
      <4>3. call'[q] = d
        BY <4>1, <4>2 DEF Carries
      <4>4. Items(d) = Items(c)
        BY DEF Items
      <4>5. Carries(d) /\ d.invited
        BY <4>1, <4>4 DEF Carries
      <4> HIDE DEF d
      <4> QED BY <4>3, <4>5
    <3> QED BY <3>1, <3>2
  <2> QED BY <2>2, <2>3 DEF CallsHold, Invited
<1> QED BY <1>1, <1>2, TableStays DEF ToolsIInv

LEMMA WindowStep ==
  ASSUME ToolsIInv, CloseWrites \/ Tick
  PROVE  ToolsIInv'
<1>1. /\ left' \in 0..WindowLength /\ (left' > 0 => left > 0)
      /\ UNCHANGED <<stored, call, reader>>
  BY LimitAssumption DEF CloseWrites, Tick, ToolsIInv
<1>2. CallsHold'
  BY <1>1, CallsStay DEF ToolsIInv
<1> QED BY <1>1, <1>2, TableStays DEF ToolsIInv

LEMMA RestartServerStep ==
  ASSUME ToolsIInv, RestartServer
  PROVE  ToolsIInv'
<1>1. CallsHold'
  BY IdleCarries DEF RestartServer, CallsHold, Invited, Idle
<1>2. Held' /\ Keys' = Keys /\ left' \in 0..WindowLength
  BY LimitAssumption DEF RestartServer, stored, ToolsIInv, Held, Keys
<1>3. Paging'
  BY NotReadingIsPaging DEF RestartServer
<1> QED BY <1>1, <1>2, <1>3 DEF ToolsIInv


LEMMA ToolsIInvInit ==
  ASSUME ToolsInit
  PROVE  ToolsIInv
<1>1. left \in 0..WindowLength
  BY LimitAssumption DEF ToolsInit
<1>2. Held
  BY DEF ToolsInit, Held, Keys
<1>3. CallsHold
  <2>1. DOMAIN call = Calls /\ \A q \in Calls : call[q] = Idle
    BY DEF ToolsInit
  <2> QED BY <2>1, IdleCarries DEF CallsHold
<1>4. Paging
  BY LimitAssumption DEF ToolsInit, Paging, NotReading
<1> QED BY <1>1, <1>2, <1>3, <1>4 DEF ToolsIInv

LEMMA ToolsStutters ==
  ASSUME ToolsIInv, UNCHANGED toolsVars
  PROVE  ToolsIInv'
<1>1. UNCHANGED stored /\ UNCHANGED <<left, call, reader>>
  BY DEF toolsVars, stored
<1>2. CallsHold'
  BY <1>1, CallsStay DEF ToolsIInv
<1> QED BY <1>1, <1>2, TableStays DEF ToolsIInv

LEMMA ToolsIInvNext ==
  ASSUME ToolsIInv, [ToolsNext]_toolsVars
  PROVE  ToolsIInv'
<1>1. CASE \E q \in Calls : Tool(q)
  BY <1>1, ArriveStep, GateStep, PickStep, ApplyStep DEF Tool
<1>2. CASE StartReading
  BY <1>2, StartReadingStep
<1>3. CASE GetRows
  BY <1>3, GetRowsStep
<1>4. CASE OpenWrites
  BY <1>4, OpenWritesStep
<1>5. CASE CloseWrites \/ Tick
  BY <1>5, WindowStep
<1>6. CASE ClientWrites
  BY <1>6, ClientWritesStep
<1>7. CASE Collect
  BY <1>7, CollectStep
<1>8. CASE RestartServer
  BY <1>8, RestartServerStep
<1>9. CASE UNCHANGED toolsVars
  BY <1>9, ToolsStutters
<1> QED BY <1>1, <1>2, <1>3, <1>4, <1>5, <1>6, <1>7, <1>8, <1>9 DEF ToolsNext

LEMMA ToolsIInvHolds == ToolsSpec => []ToolsIInv
BY ToolsIInvInit, ToolsIInvNext, PTL DEF ToolsSpec

(* For any number of calls, schemas, clients, bodies and keys, and whatever  *)
(* the encoder makes of an object as long as it is one row or none: a table  *)
(* has one row to a key through every tool, and an agent that pages to the   *)
(* end was shown each row that was there all along (get_rows_tool_call.rs).  *)
THEOREM AgentsMissNothing == ToolsSpec => []ToolsInv
<1>1. ToolsIInv => ToolsTypeOK
  BY DEF ToolsIInv, ToolsTypeOK, Held, CallsHold, Carries, Paging
<1>2. ToolsIInv => PagesMissNothing
  BY DEF ToolsIInv, Paging, PagesMissNothing
<1> QED BY <1>1, <1>2, ToolsIInvHolds, PTL DEF ToolsInv

(* What a call changed, it changed through the tool it came for.             *)
LEMMA OnlyApplyReturns ==
  ASSUME ToolsIInv, [ToolsNext]_toolsVars, NEW q \in Calls, Returns(q)
  PROVE  Apply(q)
<1>1. stored' # stored /\ call[q].at = "apply" /\ call'[q].at = "idle"
  BY DEF Returns
<1>2. ~ (UNCHANGED stored)
  BY <1>1
<1>3. call' # call
  BY <1>1
<1>4. \E p \in Calls : Apply(p)
  BY <1>2, <1>3 DEF ToolsNext, Tool, Arrive, Gate, Pick, StartReading, GetRows, OpenWrites,
                    CloseWrites, Tick, ClientWrites, Collect, RestartServer, toolsVars, stored
<1>5. ASSUME NEW p \in Calls, Apply(p), p # q
      PROVE  call'[q] = call[q]
  BY <1>5 DEF Apply, Ends, ToolsIInv, CallsHold
<1> QED BY <1>1, <1>4, <1>5

(* The window (context.rs:72-90), whoever opens and shuts it and whenever    *)
(* its time runs out, for any number of calls.                               *)
THEOREM ToolsAreInvited == ToolsSpec => NothingUninvited
<1>1. ASSUME ToolsIInv, NEW q \in Calls, Returns(q)
      PROVE  call[q].invited
  BY <1>1 DEF ToolsIInv, CallsHold, Invited, Returns
<1>2. ToolsIInv => \A q \in Calls : Returns(q) => call[q].invited
  BY <1>1
<1> QED BY <1>2, ToolsIInvHolds, PTL DEF NothingUninvited

(* A batch in full, whatever of it repeats a key                             *)
(* (bulk_insert_or_replace_rows_tool_call.rs:85-109).                        *)
LEMMA BatchesAreWhole ==
  ASSUME ToolsIInv, [ToolsNext]_toolsVars, NEW q \in Calls, Returns(q),
         call[q].tool = "bulk_insert_or_replace_rows", NEW i \in DOMAIN call[q].json
  PROVE  LET item == call[q].json[i]
             later == {call[q].json[j] : j \in (i + 1)..Len(call[q].json)}
         IN  /\ RowsOf(call[q].id, item) # {}
             /\ \A made \in RowsOf(call[q].id, item) :
                  \/ \E n \in rows' : n.json = item[2] /\ KeyOf(n) = KeyOf(made)
                  \/ \E l \in later : \E m \in RowsOf(call[q].id, l) : KeyOf(m) = KeyOf(made)
<1> DEFINE c == call[q]
           item == c.json[i]
           later == {c.json[j] : j \in (i + 1)..Len(c.json)}
           Stored(r) == [r EXCEPT !.stray = r.id \notin schemas]
<1>1. Insert(q)
  BY OnlyApplyReturns DEF Apply, Delete, Restore
<1>2. rows' = Replaced(rows, {Stored(r) : r \in c.rows})
  BY <1>1 DEF Insert
<1>3. Carries(c) /\ c.at = "apply" /\ c.tool \in Inserts
  BY <1>1 DEF ToolsIInv, CallsHold, Insert, Returns
<1>4. Items(c) = c.json
  BY DEF Items
<1> HIDE DEF c
<1>5. /\ c.rows = Lasts(c.id, c.json)
      /\ \A j \in DOMAIN c.json : RowsOf(c.id, c.json[j]) # {}
  BY <1>3, <1>4, RowsCarried
<1>6. ASSUME NEW made \in RowsOf(c.id, item),
             ~ \E l \in later : \E m \in RowsOf(c.id, l) : KeyOf(m) = KeyOf(made)
      PROVE  \E n \in rows' : n.json = item[2] /\ KeyOf(n) = KeyOf(made)
  <2>1. made \in c.rows
    BY <1>5, <1>6 DEF Lasts, c
  <2>2. Stored(made) \in rows'
    BY <1>2, <2>1 DEF Replaced
  <2>3. Stored(made).json = item[2] /\ KeyOf(Stored(made)) = KeyOf(made)
    BY RowsAreRows
  <2> HIDE DEF Stored
  <2> QED BY <2>2, <2>3
<1> QED BY <1>5, <1>6 DEF c

THEOREM BatchesAllOrNothing == ToolsSpec => WholeBatches
<1> DEFINE Whole ==
      \A q \in Calls :
        Returns(q) /\ call[q].tool = "bulk_insert_or_replace_rows" =>
          \A i \in DOMAIN call[q].json :
            LET item == call[q].json[i]
                later == {call[q].json[j] : j \in (i + 1)..Len(call[q].json)}
            IN  /\ RowsOf(call[q].id, item) # {}
                /\ \A made \in RowsOf(call[q].id, item) :
                     \/ \E n \in rows' : n.json = item[2] /\ KeyOf(n) = KeyOf(made)
                     \/ \E l \in later : \E m \in RowsOf(call[q].id, l) : KeyOf(m) = KeyOf(made)
<1>1. ToolsIInv /\ [ToolsNext]_toolsVars => Whole
  BY BatchesAreWhole
<1> QED BY <1>1, ToolsIInvHolds, PTL DEF ToolsSpec, WholeBatches
=============================================================================
