-------------------------- MODULE PartitionStore --------------------------
(***************************************************************************)
(* What the persistence backend of one namespace promises its callers: a   *)
(* map from partitions to payloads that outlives the process.  A call      *)
(* either takes effect as a whole or, when the process dies in the middle, *)
(* leaves the partition as it was; the one exception is a write that       *)
(* overwrites, in place, a slot larger than one disk sector: dying inside  *)
(* it may cost that partition (and no other).                              *)
(*                                                                         *)
(* PageFiles is shown to implement this specification.                     *)
(***************************************************************************)
CONSTANTS Keys, Values, NONE

VARIABLES
  content,   \* what a start of the process would load: Keys -> payload or NONE
  inflight   \* the set of at most one call that has not returned yet

vars == <<content, inflight>>

Call == [key : Keys, value : Values \cup {NONE}, fragile : BOOLEAN]

TypeOK ==
  /\ content \in [Keys -> Values \cup {NONE}]
  /\ inflight \in SUBSET Call

Init ==
  /\ content = [k \in Keys |-> NONE]
  /\ inflight = {}

(* A save (value is a payload) or a delete (value is NONE) is called. *)
Begin(call) ==
  /\ inflight = {}
  /\ inflight' = {call}
  /\ UNCHANGED content

(* The call takes effect; it returns now or has some tidying left. *)
Apply(call) ==
  /\ inflight = {call}
  /\ content' = [content EXCEPT ![call.key] = call.value]
  /\ inflight' \in {{}, inflight}

(* A call returns only when it has taken effect. *)
Return(call) ==
  /\ inflight = {call}
  /\ content[call.key] = call.value
  /\ inflight' = {}
  /\ UNCHANGED content

(* The process dies.  What had been promised stays. *)
Crash ==
  /\ inflight' = {}
  /\ \/ UNCHANGED content
     \/ \E call \in inflight :
          /\ call.fragile
          /\ content' = [content EXCEPT ![call.key] = NONE]

Next ==
  \/ \E call \in Call : Begin(call) \/ Apply(call) \/ Return(call)
  \/ Crash

Spec == Init /\ [][Next]_vars
=============================================================================
