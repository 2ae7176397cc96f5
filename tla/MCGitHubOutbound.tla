-------------------------- MODULE MCGitHubOutbound --------------------------
(* The issue of a work item and the comment of its run, in one repository. *)
EXTENDS GitHubOutbound, TLC

CONSTANTS c1, c2

MCAggregates == {"item", "run"}
MCSurfaces == {"issue", "comment"}
MCAggregateOf == [issue |-> "item", comment |-> "run"]
MCCommented == [comment |-> "issue"]
MCFallback == [issue |-> <<"issue">>, comment |-> <<"comment", "issue">>]
MCPosition == [issue |-> 1, comment |-> 2]
MCRepositories == {"r1"}
MCTarget == [s \in MCSurfaces |-> "none"]
MCSymmetry == Permutations({c1, c2})
=============================================================================
