------------------------- MODULE AtomicTransactions -------------------------
(***************************************************************************)
(* What the writer API promises of transactions (MyNoSqlWriter.proto, the  *)
(* handlers of writer_grpc_service.rs): posts gather whole, a commit       *)
(* applies what was gathered in one step and once, and what is cancelled,  *)
(* forgotten or refused never reaches the table.                           *)
(***************************************************************************)
EXTENDS Sequences

CONSTANTS Transactions, Posts,
          Streams          \* post -> the streams of actions it may carry

VARIABLES status, gathered, applied

vars == <<status, gathered, applied>>

Init ==
  /\ status = [t \in Transactions |-> "none"]
  /\ gathered = [t \in Transactions |-> <<>>]
  /\ applied = <<>>

Start(t) ==
  /\ status[t] = "none"
  /\ status' = [status EXCEPT ![t] = "open"]
  /\ UNCHANGED <<gathered, applied>>

Post(t, p) ==
  /\ status[t] = "open"
  /\ \E stream \in Streams[p] : gathered' = [gathered EXCEPT ![t] = @ \o stream]
  /\ UNCHANGED <<status, applied>>

Commit(t) ==
  /\ status[t] = "open"
  /\ applied' = Append(applied, [tx |-> t, actions |-> gathered[t]])
  /\ status' = [status EXCEPT ![t] = "committed"]
  /\ gathered' = [gathered EXCEPT ![t] = <<>>]

(* Any number at once: a restart forgets them all. *)
Discard(ts) ==
  /\ \A t \in ts : status[t] = "open"
  /\ status' = [t \in Transactions |-> IF t \in ts THEN "discarded" ELSE status[t]]
  /\ gathered' = [t \in Transactions |-> IF t \in ts THEN <<>> ELSE gathered[t]]
  /\ UNCHANGED applied

Next ==
  \/ \E t \in Transactions : Start(t) \/ Commit(t) \/ \E p \in Posts : Post(t, p)
  \/ \E ts \in SUBSET Transactions : Discard(ts)

Spec == Init /\ [][Next]_vars
=============================================================================
