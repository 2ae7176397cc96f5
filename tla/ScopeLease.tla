----------------------------- MODULE ScopeLease -----------------------------
(***************************************************************************)
(* What the claim leases promise (docs/orchestration, "one exclusive lease *)
(* per protected scope"): a scope has at most one owner, is taken only     *)
(* while it is free and by one work item at a time, and an owner is never  *)
(* replaced without the scope being free in between.  A retry that hands   *)
(* the lease to the next attempt of the same item is a stutter.            *)
(***************************************************************************)
CONSTANTS Scopes, WorkItems

VARIABLE owners  \* the work items holding each scope

Init == owners = [s \in Scopes |-> {}]

Acquire(s, w) ==
  /\ owners[s] = {}
  /\ owners' = [owners EXCEPT ![s] = {w}]

Release(s) ==
  /\ owners[s] # {}
  /\ owners' = [owners EXCEPT ![s] = {}]

Next == \E s \in Scopes : Release(s) \/ \E w \in WorkItems : Acquire(s, w)

Spec == Init /\ [][Next]_owners
=============================================================================
