------------------------ MODULE MCLedgerTransactions ------------------------
(* Instances of LedgerTransactions for TLC. *)
EXTENDS LedgerTransactions, TLC

CONSTANTS a, b, ra, rb, o

Settle(run, item) ==
  <<[on |-> run, status |-> "valid_success"], [on |-> item, status |-> "completed"]>>
Cancel(run, item) ==
  <<[on |-> item, status |-> "cancelled"], [on |-> run, status |-> "cancelled"]>>
Replan(first, second) ==
  <<[on |-> first, status |-> "ready"], [on |-> second, status |-> "ready"]>>

CONSTANTS settleA, settleB, cancelA, replan

\* A worker settles each of the two runs, an operator cancels the first item and
\* one replans both, each writing in the order of its handler.
AllWrites ==
  [h \in Handlers |-> CASE h = settleA -> Settle(ra, a)
                        [] h = settleB -> Settle(rb, b)
                        [] h = cancelA -> Cancel(ra, a)
                        [] h = replan -> Replan(a, b)]
InitialRows ==
  [s \in Streams |-> CASE s \in Items -> "running"
                       [] s \in Runs -> "queued"
                       [] s = o -> "in_progress"]
=============================================================================
