---------------------------- MODULE AccessControl ----------------------------
(***************************************************************************)
(* Who may be in a company, and as what: the account that founds it, as    *)
(* its owner for good, and those who take up an offer made to them.        *)
(* Members make offers, the owner alone those to be an admin, and nobody   *)
(* is offered to be an owner, nor the owner to be anything else.  An offer *)
(* may be taken up more than once.                                         *)
(***************************************************************************)

CONSTANTS Emails, Companies, CompanyRole

VARIABLES
  role,    \* of every account in every company, or "none"
  offers   \* the offers ever made

Init ==
  /\ role = [c \in Companies |-> [e \in Emails |-> "none"]]
  /\ offers = {}

Found(c, e) ==
  /\ \A f \in Emails : role[c][f] = "none"
  /\ \A o \in offers : o.company # c
  /\ role' = [role EXCEPT ![c][e] = "owner"]
  /\ UNCHANGED offers

Offer(by, o) ==
  /\ role[o.company][by] # "none"
  /\ role[o.company][o.email] # "owner"
  /\ o.role = "admin" => role[o.company][by] = "owner"
  /\ offers' = offers \cup {o}
  /\ UNCHANGED role

Join(o) ==
  /\ role[o.company][o.email] # "owner"
  /\ role' = [role EXCEPT ![o.company][o.email] = o.role]
  /\ UNCHANGED offers

Next ==
  \/ \E c \in Companies, e \in Emails : Found(c, e)
  \/ \E by \in Emails,
        o \in [company : Companies, email : Emails, role : CompanyRole \ {"owner"}] :
       Offer(by, o)
  \/ \E o \in offers : Join(o)

Spec == Init /\ [][Next]_<<role, offers>>
=============================================================================
