------------------------ MODULE WriteBehindInvariant ------------------------
(***************************************************************************)
(* Why WriteBehind forgets no change: the inductive invariant, checked by  *)
(* TLC here and proved in WriteBehindProofs.                               *)
(*                                                                         *)
(* OwedOrDurable alone is not inductive: a pass about to write must be     *)
(* known to hold what the server wants on disk, unless the task is owed    *)
(* again; and that stays true only because no other pass can take the new  *)
(* mark while this one holds persist_lock, and because a request that      *)
(* changes a table object marks the table the object was created for.      *)
(***************************************************************************)
EXTENDS WriteBehind

InHand == {"found", "persisted", "read"}
Holding == {"locked", "working"} \cup InHand

(* What the locals of requests and passes are at each stage. *)
RequestsReady ==
  \A r \in Requests :
    request[r].at # "idle" => request[r].table \in Tables /\ request[r].inst \in Instances

Ready(a, p) ==
  /\ a # Timer => p.now = NONE
  /\ p.at \in {"idle", "waiting", "locked"} => p.tasks = {}
  /\ p.at \in InHand => p.task \in Task
  /\ p.at = "persisted" => p.inst \in Instances /\ p.task[2] # META
  /\ p.at = "read" =>
       p.found \in IF p.task[2] = META THEN BOOLEAN \cup {NONE} ELSE Content

PassesReady == \A a \in Passes : Ready(a, pass[a])

(* persist_lock: one pass at a time is past it. *)
SingleFlight == \A a \in Passes : pass[a].at \in Holding => persistLock = a

(* A table object is only ever known under the name it was created for. *)
KnownAs(i, t) ==
  \/ tables[t] = i
  \/ \E r \in Requests :
       request[r].at # "idle" /\ request[r].inst = i /\ request[r].table = t
  \/ \E a \in Passes :
       pass[a].at \in InHand /\ pass[a].inst = i /\ TableOf(pass[a].task) = t

OneName ==
  \A i \in Instances : \A t, u \in Tables : KnownAs(i, t) /\ KnownAs(i, u) => t = u

(* What a pass is about to write is what the disk should hold, unless the   *)
(* task is owed again or was never settled.                                 *)
AboutToWrite(a) ==
  CASE pass[a].at = "found"     -> ToWrite(pass[a].inst, pass[a].task)
    [] pass[a].at = "persisted" -> rows[pass[a].inst][pass[a].task[2]]
    [] OTHER                    -> pass[a].found

UpToDate ==
  \A a \in Passes :
    pass[a].at \in InHand =>
      \/ Owed(pass[a].task)
      \/ pass[a].task \in unsettled
      \/ AboutToWrite(a) = Wanted(pass[a].task)

(* While a flush is under way, what is queued was marked after its snapshot. *)
QueuedIsRecent ==
  pass[Flush].at \in {"working"} \cup InHand =>
    \A task \in Task : queue[task] # NONE => task \in recent

DrainedAtStop == stopped => persistLock = NONE /\ \A task \in Task : queue[task] = NONE

(* The inductive invariant. *)
IInv ==
  /\ TypeOK
  /\ RequestsReady
  /\ PassesReady
  /\ SingleFlight
  /\ OneName
  /\ UpToDate
  /\ QueuedIsRecent
  /\ DrainedAtStop
  /\ OwedOrDurable
=============================================================================
