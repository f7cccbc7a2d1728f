---------------------------- MODULE Transactions ----------------------------
(***************************************************************************)
(* Transactions being built (transactions/registry.rs, transaction.rs, the *)
(* transaction handlers of grpc_server/writer_grpc_service.rs and          *)
(* background/transactions_gc_timer.rs): a client starts one against a     *)
(* table, posts streams of actions into it, and commits or cancels it; one *)
(* that goes quiet is forgotten.                                           *)
(*                                                                         *)
(* Every handler looks the transaction up once and then holds on to it,    *)
(* whatever becomes of its id meanwhile.                                   *)
(*                                                                         *)
(* Abstractions.  One table, which exists or not (its namespace gone is    *)
(* the same to a transaction).  An action of a post is its post and its    *)
(* place in the stream.  Time is whether a transaction has been quiet for  *)
(* longer than TRANSACTION_TTL_SECS.  Every id is started once and every   *)
(* post and commit is one call, so their numbers bound the model.  What    *)
(* the table does with the actions is the core crate; that the visit is    *)
(* announced in one piece is ReaderSync.                                   *)
(***************************************************************************)
EXTENDS Naturals, Sequences

CONSTANTS
  Transactions,
  Posts, Commits,     \* bound: calls of either kind
  MaxActions,         \* bound: actions in one post
  NONE                \* no transaction

ASSUME MaxActionsAssumption == MaxActions \in Nat
ASSUME NoneAssumption == NONE \notin Transactions

VARIABLES
  table,      \* whether the table can be found
  started,    \* ids given out so far
  registry,   \* Transactions: the ids it still has
  quiet,      \* ids not touched for longer than the time to live
  actions,    \* transaction -> Transaction.actions
  post,       \* post -> where it is, its transaction, what it has read so far
  commit,     \* commit -> where it is, its transaction, what it took out
  expired,    \* what a collection in progress has left to remove
  applied,    \* what was applied, in order: [tx, actions]
  forgotten   \* history: what the collector removed

vars == <<table, started, registry, quiet, actions, post, commit, expired, applied, forgotten>>

NewPost == [at |-> "idle", tx |-> NONE, read |-> <<>>, late |-> FALSE]
NewCommit == [at |-> "idle", tx |-> NONE, taken |-> <<>>, promised |-> {}]

Init ==
  /\ table = TRUE
  /\ started = {} /\ registry = {} /\ quiet = {} /\ expired = {} /\ forgotten = {}
  /\ actions = [t \in Transactions |-> <<>>]
  /\ post = [p \in Posts |-> NewPost]
  /\ commit = [c \in Commits |-> NewCommit]
  /\ applied = <<>>

(* start_transaction: refused when the table is missing. *)
Start(t) ==
  /\ t \notin started /\ table
  /\ started' = started \cup {t}
  /\ registry' = registry \cup {t}
  /\ UNCHANGED <<table, quiet, actions, post, commit, expired, applied, forgotten>>

-----------------------------------------------------------------------------
(* post_transaction_actions *)

Posting(p, next) == post' = [post EXCEPT ![p] = next]

(* The first message names the transaction; looking it up touches it. *)
PostBegin(p, t) ==
  /\ post[p].at = "idle" /\ t \in started
  /\ IF t \in registry
     THEN /\ Posting(p, [post[p] EXCEPT !.at = "found", !.tx = t])
          /\ quiet' = quiet \ {t}
     ELSE /\ Posting(p, [post[p] EXCEPT !.at = "refused"])
          /\ UNCHANGED quiet
  /\ UNCHANGED <<table, started, registry, actions, commit, expired, applied, forgotten>>

(* The table as it is now, for the rows to be parsed against. *)
PostLookUp(p) ==
  /\ post[p].at = "found"
  /\ Posting(p, [post[p] EXCEPT !.at = IF table THEN "reading" ELSE "refused"])
  /\ UNCHANGED <<table, started, registry, quiet, actions, commit, expired, applied, forgotten>>

(* Slip: every action goes straight into the transaction. *)
PostMessageThrough(p) ==
  /\ post[p].at = "reading" /\ Len(post[p].read) < MaxActions
  /\ LET action == <<p, Len(post[p].read) + 1>> IN
     /\ Posting(p, [post[p] EXCEPT !.read = Append(@, action)])
     /\ actions' = [actions EXCEPT ![post[p].tx] = Append(@, action)]
  /\ UNCHANGED <<table, started, registry, quiet, commit, expired, applied, forgotten>>

PostMessage(p) ==
  /\ post[p].at = "reading" /\ Len(post[p].read) < MaxActions
  /\ Posting(p, [post[p] EXCEPT !.read = Append(@, <<p, Len(@) + 1>>)])
  /\ UNCHANGED <<table, started, registry, quiet, actions, commit, expired, applied, forgotten>>

(* The stream breaks, or a message is refused. *)
PostBreaks(p) ==
  /\ post[p].at = "reading"
  /\ Posting(p, [post[p] EXCEPT !.at = "refused"])
  /\ UNCHANGED <<table, started, registry, quiet, actions, commit, expired, applied, forgotten>>

(* Slip: the last post wins. *)
PostReplaces(p) ==
  /\ post[p].at = "reading" /\ post[p].read # <<>>
  /\ actions' = [actions EXCEPT ![post[p].tx] = post[p].read]
  /\ Posting(p, [post[p] EXCEPT !.at = "touching", !.late = post[p].tx \in forgotten])
  /\ UNCHANGED <<table, started, registry, quiet, commit, expired, applied, forgotten>>

(* The stream has ended cleanly: append... *)
PostAppend(p) ==
  /\ post[p].at = "reading" /\ post[p].read # <<>>
  /\ actions' = [actions EXCEPT ![post[p].tx] = @ \o post[p].read]
  /\ Posting(p, [post[p] EXCEPT !.at = "touching", !.late = post[p].tx \in forgotten])
  /\ UNCHANGED <<table, started, registry, quiet, commit, expired, applied, forgotten>>

(* ... touch, and answer. *)
PostAnswer(p) ==
  /\ post[p].at = "touching"
  /\ quiet' = quiet \ {post[p].tx}
  /\ Posting(p, [post[p] EXCEPT !.at = "acknowledged"])
  /\ UNCHANGED <<table, started, registry, actions, commit, expired, applied, forgotten>>

-----------------------------------------------------------------------------
(* commit_transaction *)

Committing(c, next) == commit' = [commit EXCEPT ![c] = next]
AcknowledgedTo(t) == {p \in Posts : post[p].at = "acknowledged" /\ post[p].tx = t}

(* Slip: looked up, and left where it is. *)
CommitBeginByGet(c, t) ==
  /\ commit[c].at = "idle" /\ t \in started
  /\ Committing(c, IF t \in registry
                   THEN [commit[c] EXCEPT !.at = "removed", !.tx = t,
                                          !.promised = AcknowledgedTo(t)]
                   ELSE [commit[c] EXCEPT !.at = "unknown"])
  /\ UNCHANGED <<table, started, registry, quiet, actions, post, expired, applied, forgotten>>

(* Out of the registry first. *)
CommitBegin(c, t) ==
  /\ commit[c].at = "idle" /\ t \in started
  /\ registry' = registry \ {t}
  /\ Committing(c, IF t \in registry
                   THEN [commit[c] EXCEPT !.at = "removed", !.tx = t,
                                          !.promised = AcknowledgedTo(t)]
                   ELSE [commit[c] EXCEPT !.at = "unknown"])
  /\ UNCHANGED <<table, started, quiet, actions, post, expired, applied, forgotten>>

CommitLookUp(c) ==
  /\ commit[c].at = "removed"
  /\ Committing(c, [commit[c] EXCEPT !.at = IF table THEN "resolved" ELSE "failed"])
  /\ UNCHANGED <<table, started, registry, quiet, actions, post, expired, applied, forgotten>>

CommitTake(c) ==
  LET t == commit[c].tx IN
  /\ commit[c].at = "resolved"
  /\ Committing(c, [commit[c] EXCEPT !.at = "taken", !.taken = actions[t]])
  /\ actions' = [actions EXCEPT ![t] = <<>>]
  /\ UNCHANGED <<table, started, registry, quiet, post, expired, applied, forgotten>>

CommitApply(c) ==
  /\ commit[c].at = "taken"
  /\ applied' = Append(applied, [tx |-> commit[c].tx, actions |-> commit[c].taken])
  /\ Committing(c, [commit[c] EXCEPT !.at = "done"])
  /\ UNCHANGED <<table, started, registry, quiet, actions, post, expired, forgotten>>

-----------------------------------------------------------------------------
(* cancel_transaction, whether the id is known or not. *)
Cancel(t) ==
  /\ t \in started
  /\ registry' = registry \ {t}
  /\ UNCHANGED <<table, started, quiet, actions, post, commit, expired, applied, forgotten>>

GoesQuiet(t) ==
  /\ t \in registry
  /\ quiet' = quiet \cup {t}
  /\ UNCHANGED <<table, started, registry, actions, post, commit, expired, applied, forgotten>>

(* Slip: what holds actions is spared. *)
GcListEmpty ==
  /\ expired = {}
  /\ expired' = {t \in registry \cap quiet : actions[t] = <<>>}
  /\ UNCHANGED <<table, started, registry, quiet, actions, post, commit, applied, forgotten>>

(* gc: the list first... *)
GcList ==
  /\ expired = {}
  /\ expired' = registry \cap quiet
  /\ UNCHANGED <<table, started, registry, quiet, actions, post, commit, applied, forgotten>>

(* ... then its members one by one, whatever they did since. *)
GcRemove(t) ==
  /\ t \in expired
  /\ registry' = registry \ {t}
  /\ expired' = expired \ {t}
  /\ forgotten' = forgotten \cup (registry \cap {t})
  /\ UNCHANGED <<table, started, quiet, actions, post, commit, applied>>

(* The table (or its namespace) is deleted, or created again, by others. *)
TableComesOrGoes ==
  /\ table' = ~table
  /\ UNCHANGED <<started, registry, quiet, actions, post, commit, expired, applied, forgotten>>

(* The registry is never written down: a restart forgets every transaction  *)
(* and breaks every call.                                                   *)
InCall(at) ==
  at \in {"found", "reading", "touching", "removed", "resolved", "taken"}

Restart ==
  /\ registry' = {} /\ quiet' = {} /\ expired' = {}
  /\ actions' = [t \in Transactions |-> <<>>]
  /\ post' = [p \in Posts |-> IF InCall(post[p].at)
                              THEN [post[p] EXCEPT !.at = "broken"] ELSE post[p]]
  /\ commit' = [c \in Commits |-> IF InCall(commit[c].at)
                                  THEN [commit[c] EXCEPT !.at = "broken"] ELSE commit[c]]
  /\ UNCHANGED <<table, started, applied, forgotten>>

Next ==
  \/ \E t \in Transactions : Start(t) \/ Cancel(t) \/ GoesQuiet(t) \/ GcRemove(t)
  \/ \E p \in Posts :
       \/ \E t \in Transactions : PostBegin(p, t)
       \/ PostLookUp(p) \/ PostMessage(p) \/ PostBreaks(p) \/ PostAppend(p) \/ PostAnswer(p)
  \/ \E c \in Commits :
       \/ \E t \in Transactions : CommitBegin(c, t)
       \/ CommitLookUp(c) \/ CommitTake(c) \/ CommitApply(c)
  \/ GcList \/ TableComesOrGoes \/ Restart

(* Time passes and the collector's timer ticks; clients and everything else  *)
(* may stop at any point.                                                   *)
Fairness ==
  /\ WF_vars(GcList)
  /\ \A t \in Transactions : WF_vars(GoesQuiet(t)) /\ WF_vars(GcRemove(t))

Spec == Init /\ [][Next]_vars
FairSpec == Spec /\ Fairness

-----------------------------------------------------------------------------
Action == Posts \X (1 .. MaxActions)

InPost == {"found", "reading", "touching", "acknowledged"}
InCommit == {"removed", "resolved", "taken", "done"}

PostState == [at : InPost \cup {"idle", "refused", "broken"},
              tx : Transactions \cup {NONE}, read : Seq(Action), late : BOOLEAN]
CommitState == [at : InCommit \cup {"idle", "failed", "unknown", "broken"},
                tx : Transactions \cup {NONE}, taken : Seq(Action), promised : SUBSET Posts]

(* The types of the variables; who has found its transaction has one.        *)
TypeOK ==
  /\ table \in BOOLEAN
  /\ started \subseteq Transactions
  /\ registry \subseteq started /\ quiet \subseteq started /\ expired \subseteq started
  /\ forgotten \subseteq started
  /\ actions \in [Transactions -> Seq(Action)]
  /\ post \in [Posts -> PostState]
  /\ \A p \in Posts : post[p].at \in InPost => post[p].tx \in started
  /\ commit \in [Commits -> CommitState]
  /\ \A c \in Commits : commit[c].at \in InCommit => commit[c].tx \in started
  /\ applied \in Seq([tx : Transactions, actions : Seq(Action)])

(* What a successful commit applied holds every post that had been answered   *)
(* before the commit was called, whatever else was posted, collected or      *)
(* cancelled around it.                                                      *)
Includes(list, part) == \A n \in DOMAIN part : \E m \in DOMAIN list : list[m] = part[n]

AppliesWhatWasAcknowledged ==
  \A c \in Commits : commit[c].at = "done" =>
    \A p \in commit[c].promised : Includes(commit[c].taken, post[p].read)

(* A transaction is applied once at most, and never when it was cancelled,   *)
(* forgotten, lost to a restart or is still open: one commit has it, alone.  *)
Holds(c, t) == commit[c].tx = t /\ commit[c].at \in InCommit

OneOwner ==
  /\ \A t \in Transactions : \A c, d \in Commits :
       Holds(c, t) => t \notin registry /\ (Holds(d, t) => c = d)
  /\ \A n, m \in DOMAIN applied : applied[n].tx = applied[m].tx => n = m
  /\ \A n \in DOMAIN applied : \E c \in Commits :
       commit[c].tx = applied[n].tx /\ commit[c].at = "done"

(* Where the posts of a transaction are until it is applied: in its list     *)
(* while it is registered or on its way to the table, then with its commit.  *)
Answered(p) == post[p].at \in {"touching", "acknowledged"}

Kept ==
  /\ \A p \in Posts :
       (Answered(p) /\ post[p].tx \in registry) => Includes(actions[post[p].tx], post[p].read)
  /\ \A c \in Commits : commit[c].at \in InCommit =>
       \A p \in commit[c].promised :
         /\ post[p].at = "acknowledged"
         /\ Includes(IF commit[c].at \in {"removed", "resolved"} THEN actions[commit[c].tx]
                     ELSE commit[c].taken, post[p].read)

(* What every step keeps, and what the properties above follow from.         *)
IInv == TypeOK /\ OneOwner /\ Kept

(* Posts gather whole, a commit applies all of what was gathered in one step, *)
(* and what was cancelled, forgotten or refused never reaches the table.     *)
Committer(t) == {c \in Commits : Holds(c, t)}
Open(t) == t \in registry \/ \E c \in Committer(t) : commit[c].at # "done"

Promise == INSTANCE AtomicTransactions WITH
  Streams <- [p \in Posts |-> {[n \in 1 .. size |-> <<p, n>>] : size \in 1 .. MaxActions}],
  status <- [t \in Transactions |->
               IF t \notin started THEN "none"
               ELSE IF Open(t) THEN "open"
               ELSE IF Committer(t) # {} THEN "committed" ELSE "discarded"],
  gathered <- [t \in Transactions |->
                 IF ~Open(t) THEN <<>>
                 ELSE IF \E c \in Committer(t) : commit[c].at = "taken"
                 THEN commit[CHOOSE c \in Committer(t) : TRUE].taken
                 ELSE actions[t]]

ImplementsAtomicTransactions == Promise!Spec

(* An abandoned transaction is forgotten in the end: the collection that      *)
(* missed it is followed by one that does not.                               *)
AbandonedIsForgotten == \A t \in Transactions : []<>(t \notin registry)

-----------------------------------------------------------------------------
(* The handler of commit says that once the transaction is out of the        *)
(* registry "nothing can post to it": what was acknowledged was applied.     *)
NothingPostedAfterRemoval ==
  \A c \in Commits, p \in Posts :
    (commit[c].at = "done" /\ post[p].at = "acknowledged" /\ post[p].tx = commit[c].tx)
      => \E m \in DOMAIN commit[c].taken : commit[c].taken[m][1] = p

(* The API says that posting to a forgotten transaction is answered with     *)
(* unknown.                                                                  *)
PostToForgottenIsUnknown == \A p \in Posts : post[p].at = "acknowledged" => ~post[p].late

(* The client keeps its handle over a failed commit because "the server keeps *)
(* the transaction open".                                                    *)
FailedCommitStaysOpen ==
  \A c \in Commits : commit[c].at = "failed" => commit[c].tx \in registry
=============================================================================
