---------------------------- MODULE AtomicLedger ----------------------------
(***************************************************************************)
(* What the transactions on the ledger promise: a call takes effect in one *)
(* step and as a whole, or not at all.  Its step appends one event to the  *)
(* stream of every aggregate it writes, gives the row that status, and may *)
(* do the same for the objective.  A roll-up never calls the objective     *)
(* completed or cancelled against an item the same call has written.  Only *)
(* the dequeue of a run changes a row without an event.                    *)
(***************************************************************************)
EXTENDS Integers, Sequences

CONSTANTS Items, Runs, Objective, Handlers, Writes, Initial, ObjectiveStatus

VARIABLES
  row,      \* the status of every aggregate
  history,  \* the statuses its events gave it, in order
  outcome   \* of every call: "pending", "committed" or "aborted"

Aggregates == Items \cup Runs \cup {Objective}

Init ==
  /\ row = Initial
  /\ history = [a \in Aggregates |-> <<Initial[a]>>]
  /\ outcome = [h \in Handlers |-> "pending"]

Written(h) == {Writes[h][i] : i \in 1 .. Len(Writes[h])}
Agrees(h, status) ==
  status \in {"completed", "cancelled"} =>
    \A s \in Written(h) : s.on \in Items => s.status = status

Commit(h, S) ==
  LET On(a) == {s \in S : s.on = a}
      StatusOn(a) == (CHOOSE s \in On(a) : TRUE).status
  IN  /\ outcome[h] = "pending"
      /\ row' = [a \in Aggregates |-> IF On(a) = {} THEN row[a] ELSE StatusOn(a)]
      /\ history' = [a \in Aggregates |->
                       IF On(a) = {} THEN history[a] ELSE Append(history[a], StatusOn(a))]
      /\ outcome' = [outcome EXCEPT ![h] = "committed"]

CommitRolledUp(h, status) ==
  /\ Agrees(h, status)
  /\ Commit(h, Written(h) \cup {[on |-> Objective, status |-> status]})

Abort(h) ==
  /\ outcome[h] = "pending"
  /\ outcome' = [outcome EXCEPT ![h] = "aborted"]
  /\ UNCHANGED <<row, history>>

Dequeue(r) ==
  /\ row[r] = "queued"
  /\ row' = [row EXCEPT ![r] = "running"]
  /\ UNCHANGED <<history, outcome>>

Next ==
  \/ \E h \in Handlers :
       \/ Abort(h)
       \/ Commit(h, Written(h))
       \/ \E status \in ObjectiveStatus : CommitRolledUp(h, status)
  \/ \E r \in Runs : Dequeue(r)

Spec == Init /\ [][Next]_<<row, history, outcome>>
=============================================================================
