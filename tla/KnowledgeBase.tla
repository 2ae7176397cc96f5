---------------------------- MODULE KnowledgeBase -----------------------------
(***************************************************************************)
(* What is known, and by whose word: things are proposed, reviewers take   *)
(* them up, and what a reviewer approves is known until it is retired.     *)
(* An approval stands for good, and a thing that was retired is known      *)
(* again only by an approval.  Approving one thing may retire another.     *)
(***************************************************************************)

CONSTANTS Ids, Reviewers

VARIABLES
  proposed,    \* the things there are to review
  reviewed,    \* those that were approved
  knowledge,   \* of each thing: "none", "active" or "retired"
  review       \* what each reviewer has taken up: nothing, or one thing

Init ==
  /\ proposed = {}
  /\ reviewed = {}
  /\ knowledge = [i \in Ids |-> "none"]
  /\ review = [r \in Reviewers |-> {}]

Propose ==
  /\ proposed' \in SUBSET Ids
  /\ proposed \subseteq proposed'
  /\ UNCHANGED <<reviewed, knowledge, review>>

TakeUp(r, i) ==
  /\ review[r] = {}
  /\ review' = [review EXCEPT ![r] = {i}]
  /\ UNCHANGED <<proposed, reviewed, knowledge>>

PutDown(r) ==
  /\ review' = [review EXCEPT ![r] = {}]
  /\ UNCHANGED <<proposed, reviewed, knowledge>>

\* What is replaced need not be active, but must be known of.
Replaceable(i) == {j \in Ids \ {i} : knowledge[j] # "none"}

Approve(r, i) ==
  /\ reviewed' = reviewed \cup {i}
  /\ \E over \in {{}} \cup {{j} : j \in Replaceable(i)} :
       knowledge' = [j \in Ids |-> CASE j = i -> "active"
                                     [] j \in over -> "retired"
                                     [] OTHER -> knowledge[j]]
  /\ review' = [review EXCEPT ![r] = {}]
  /\ UNCHANGED proposed

Retire(i) ==
  /\ knowledge[i] # "none"
  /\ knowledge' = [knowledge EXCEPT ![i] = "retired"]
  /\ UNCHANGED <<proposed, reviewed, review>>

Next ==
  \/ Propose
  \/ \E r \in Reviewers :
       \/ \E i \in proposed : TakeUp(r, i)
       \/ \E i \in review[r] : Approve(r, i)
       \/ PutDown(r)
  \/ \E i \in Ids : Retire(i)

Spec == Init /\ [][Next]_<<proposed, reviewed, knowledge, review>>
=============================================================================
