--------------------------- MODULE MCRunLifecycle ---------------------------
(* Instances of RunLifecycle for TLC. *)
EXTENDS RunLifecycle, TLC

CONSTANTS o1, s1, s2

OneObjective == [w \in WorkItems |-> o1]
SharedScope == [w \in WorkItems |-> s1]
Budget2 == [w \in WorkItems |-> 2]
Backoff1 == <<1>>

\* No definition tells two operators apart; one of two items is gated.
OperatorSymmetry == Permutations(Operators)

\* The liveness properties, for every run and every work item of the instance.
AllRunsSettle == \A r \in 1 .. 2 : RunSettles(r)
AllLeasesEnd == \A w \in WorkItems : LeaseEnds(w)
=============================================================================
