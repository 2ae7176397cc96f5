----------------------------- MODULE MCIdentity -----------------------------
(* Three people, one company, two invitations and two requests at a time. *)
EXTENDS Identity, TLC

CONSTANTS e1, e2, e3, r1, r2, i1, i2
MCSymmetry == Permutations({e1, e2, e3}) \cup Permutations({r1, r2}) \cup Permutations({i1, i2})
=============================================================================
