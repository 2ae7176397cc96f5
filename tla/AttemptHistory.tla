--------------------------- MODULE AttemptHistory ---------------------------
(***************************************************************************)
(* What a work item goes through: one attempt after the other, each queued *)
(* once, taken from the queue once, and another only when the one before   *)
(* is recorded as a transient failure and the budget has room.  The result *)
(* of an attempt may be overwritten, also that of an earlier one; but      *)
(* nothing queues or starts an attempt again.                              *)
(***************************************************************************)
EXTENDS Naturals, Sequences

CONSTANTS WorkItems, AttemptBudget, TaskResult

VARIABLE attempts  \* the status of every attempt of each work item, in order

Latest(w) == attempts[w][Len(attempts[w])]
Given(w, n, status) == [attempts[w] EXCEPT ![n] = status]

Init == attempts = [w \in WorkItems |-> << >>]

Dispatch(w) ==
  /\ attempts[w] = << >>
  /\ AttemptBudget[w] > 0
  /\ attempts' = [attempts EXCEPT ![w] = <<"queued">>]

Dequeue(w) ==
  /\ attempts[w] # << >>
  /\ Latest(w) = "queued"
  /\ attempts' = [attempts EXCEPT ![w] = Given(w, Len(attempts[w]), "running")]

Settle(w, n, result) ==
  /\ n \in 1 .. Len(attempts[w])
  /\ attempts' = [attempts EXCEPT ![w] = Given(w, n, result)]

Retry(w) ==
  /\ attempts[w] # << >>
  /\ Latest(w) # "queued"
  /\ Len(attempts[w]) < AttemptBudget[w]
  /\ attempts' = [attempts EXCEPT ![w] =
       Append(Given(w, Len(attempts[w]), "transient_failure"), "queued")]

Next ==
  \E w \in WorkItems :
    \/ Dispatch(w)
    \/ Dequeue(w)
    \/ \E n \in 1 .. Len(attempts[w]), result \in TaskResult : Settle(w, n, result)
    \/ Retry(w)

Spec == Init /\ [][Next]_attempts
=============================================================================
