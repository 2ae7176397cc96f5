--------------------------- MODULE IdentityProofs ---------------------------
(***************************************************************************)
(* OnlyOwnersMakeAdmins and MembersWereInvited for any number of accounts, *)
(* companies, invitations and requests.                                    *)
(*                                                                         *)
(* An acceptance overwrites a role, so an owner stays one only because no  *)
(* invitation is ever addressed to the owner of its company.  That is      *)
(* decided statements before the invitation is stored; it still holds then *)
(* since a company has its owner from the transaction that creates it.     *)
(***************************************************************************)
EXTENDS Identity, TLAPS

\* The reads and writes of single rows are seen through everywhere.
USE DEF getUserByEmail, createUserSession, deleteUserSession, addCompanyMembership,
        getRequestAuthContext, requireCompanyAccess

\* The owner of a company is the account that created it.
FounderIsOwner ==
  \A c \in Companies, e \in Emails : member[c][e] = "owner" <=> founder[c] = e

\* Nobody is a member of a company that is not there.
MembersOfCompanies ==
  \A c \in Companies, e \in Emails : member[c][e] # "none" => founder[c] # "none"

\* An invitation is by the owner, or offers less than an admin's role, and is not to the
\* owner.
InvitationsFit ==
  \A i \in Invitations : invitation[i].status # "none" =>
    /\ invitation[i].company \in Companies
    /\ invitation[i].email \in Emails
    /\ invitation[i].invitedBy \in Emails
    /\ invitation[i].role \in CompanyRole \ {"owner"}
    /\ invitation[i].acceptedBy \in {"none", invitation[i].email}
    /\ founder[invitation[i].company] \notin {"none", invitation[i].email}
    /\ invitation[i].role = "admin" =>
         founder[invitation[i].company] = invitation[i].invitedBy

\* A row that is not there offers nothing and is taken up by nobody.
NothingBefore ==
  \A i \in Invitations : invitation[i].status = "none" =>
    invitation[i].role = "none" /\ invitation[i].acceptedBy = "none"

\* So does a request that is about to store one; the last check has passed from "insert"
\* on.
InvitingFits ==
  \A r \in Callers : request[r].pc \in {"findPending", "findMember", "insert"} =>
    /\ request[r].company \in Companies
    /\ request[r].email \in Emails
    /\ request[r].user \in Emails
    /\ request[r].role \in CompanyRole \ {"owner"}
    /\ founder[request[r].company] # "none"
    /\ request[r].role = "admin" => founder[request[r].company] = request[r].user
    /\ request[r].pc = "insert" => founder[request[r].company] # request[r].email

\* What an acceptance or a revocation holds is an invitation that is there.
AcceptingFits ==
  \A r \in Callers :
    /\ request[r].pc \in {"accept", "acceptNew", "acceptSession", "revoke"} =>
         /\ request[r].of \in Invitations
         /\ invitation[request[r].of].status # "none"
    /\ request[r].pc \in {"accept", "acceptNew", "acceptSession"} =>
         request[r].user = invitation[request[r].of].email
    /\ request[r].pc \in {"mail", "send", "sent", "failed"} => request[r].of \in Invitations
    /\ request[r].pc \in {"createUser", "createSession"} => request[r].user \in Emails

Inv == /\ IdentityTypeOK
       /\ FounderIsOwner
       /\ MembersOfCompanies
       /\ InvitationsFit
       /\ NothingBefore
       /\ InvitingFits
       /\ AcceptingFits

-----------------------------------------------------------------------------

\* What the steps of a request store in it is a request.
LEMMA IdleIsRequest == Idle \in Request
BY DEF Idle, Request, Pc

LEMMA GotoType ==
  ASSUME NEW r \in Callers, NEW pc \in Pc, IdentityTypeOK, Goto(r, pc)
  PROVE  request' \in [Callers -> Request]
<1>1. request \in [Callers -> Request]
  BY DEF IdentityTypeOK
<1>2. [request[r] EXCEPT !.pc = pc] \in Request
  BY <1>1 DEF Request
<1> QED
  BY <1>1, <1>2 DEF Goto

LEMMA StoreType ==
  ASSUME NEW r \in Callers, NEW q \in Request, IdentityTypeOK,
         request' = [request EXCEPT ![r] = q]
  PROVE  request' \in [Callers -> Request]
BY DEF IdentityTypeOK

LEMMA DoneType ==
  ASSUME NEW r \in Callers, IdentityTypeOK, Done(r)
  PROVE  request' \in [Callers -> Request]
BY IdleIsRequest, StoreType DEF Done

\* A request that is done holds nothing.
LEMMA DoneFits ==
  ASSUME NEW r \in Callers, Inv, Done(r), UNCHANGED <<founder, invitation>>
  PROVE  InvitingFits' /\ AcceptingFits'
<1>1. /\ request'[r] = Idle
      /\ \A s \in Callers : s # r => request'[s] = request[s]
  BY DEF Done, Inv, IdentityTypeOK
<1> QED
  BY <1>1 DEF Inv, InvitingFits, AcceptingFits, Idle

\* A request that goes to a step with the same needs, or fewer, has what it needs.
LEMMA GotoFits ==
  ASSUME NEW r \in Callers, NEW pc \in Pc, Inv, Goto(r, pc), UNCHANGED <<founder, invitation>>,
         \/ pc = "findMember" /\ request[r].pc = "findPending"
         \/ /\ pc = "insert" /\ request[r].pc = "findMember"
            /\ founder[request[r].company] # request[r].email
         \/ /\ pc \in {"send", "sent", "failed"}
            /\ request[r].pc \in {"mail", "send", "sent", "failed"}
         \/ pc = "createSession" /\ request[r].pc = "createUser"
  PROVE  InvitingFits' /\ AcceptingFits'
<1>1. request[r] \in Request
  BY DEF Inv, IdentityTypeOK
<1>2. /\ request'[r] = [request[r] EXCEPT !.pc = pc]
      /\ \A s \in Callers : s # r => request'[s] = request[s]
  BY DEF Goto, Inv, IdentityTypeOK
<1>3. /\ request'[r].pc = pc
      /\ request'[r].user = request[r].user /\ request'[r].company = request[r].company
      /\ request'[r].email = request[r].email /\ request'[r].role = request[r].role
      /\ request'[r].of = request[r].of
  BY <1>1, <1>2 DEF Request
<1>4. InvitingFits'
  <2>1. UNCHANGED founder /\ InvitingFits
    BY DEF Inv
  <2>2. pc \in {"findPending", "findMember", "insert"} =>
          /\ request[r].pc \in {"findPending", "findMember", "insert"}
          /\ pc = "insert" => founder[request[r].company] # request[r].email
    OBVIOUS
  <2> SUFFICES ASSUME NEW s \in Callers,
                      request'[s].pc \in {"findPending", "findMember", "insert"}
               PROVE  /\ request'[s].company \in Companies
                      /\ request'[s].email \in Emails
                      /\ request'[s].user \in Emails
                      /\ request'[s].role \in CompanyRole \ {"owner"}
                      /\ founder'[request'[s].company] # "none"
                      /\ request'[s].role = "admin" =>
                           founder'[request'[s].company] = request'[s].user
                      /\ request'[s].pc = "insert" =>
                           founder'[request'[s].company] # request'[s].email
    BY DEF InvitingFits
  <2>3. CASE s = r
    BY <1>3, <2>1, <2>2, <2>3 DEF InvitingFits
  <2>4. CASE s # r
    BY <1>2, <2>1, <2>4 DEF InvitingFits
  <2> QED
    BY <2>3, <2>4
<1>5. AcceptingFits'
  BY <1>2, <1>3 DEF Inv, AcceptingFits
<1> QED
  BY <1>4, <1>5

LEMMA AcceptedRow ==
  ASSUME NEW row \in InvitationRow, NEW f \in Emails
  PROVE  [row EXCEPT !.status = "accepted", !.acceptedBy = f] \in InvitationRow
BY DEF InvitationRow

\* The role and the addressee of an invitation never change once it is stored.
LEMMA SameInvitations ==
  ASSUME Inv, UNCHANGED founder,
         \A i \in Invitations :
           /\ invitation'[i].status = "none" <=> invitation[i].status = "none"
           /\ invitation'[i].company = invitation[i].company
           /\ invitation'[i].email = invitation[i].email
           /\ invitation'[i].role = invitation[i].role
           /\ invitation'[i].invitedBy = invitation[i].invitedBy
           /\ \/ invitation'[i].acceptedBy = invitation[i].acceptedBy
              \/ /\ invitation[i].status # "none"
                 /\ invitation'[i].acceptedBy = invitation[i].email
  PROVE  InvitationsFit' /\ NothingBefore'
BY DEF Inv, InvitationsFit, NothingBefore, CompanyRole

LEMMA StartBootstrap_Inv ==
  ASSUME Inv, NEW r \in Callers, NEW e \in Emails, startBootstrap(r, e)
  PROVE  Inv'
<1>1. IdentityTypeOK'
  <2>1. [Idle EXCEPT !.pc = "createUser", !.user = e] \in Request
    BY DEF Idle, Request, Pc
  <2> QED
    BY <2>1, StoreType DEF startBootstrap, Inv, IdentityTypeOK, mailVars
<1>2. FounderIsOwner'
  BY DEF startBootstrap, Inv, FounderIsOwner
<1>3. MembersOfCompanies'
  BY DEF startBootstrap, Inv, MembersOfCompanies
<1>4. InvitationsFit'
  BY DEF startBootstrap, Inv, InvitationsFit
<1>5. NothingBefore'
  BY DEF startBootstrap, Inv, NothingBefore
<1>6. InvitingFits'
  BY DEF startBootstrap, Inv, InvitingFits, IdentityTypeOK, Idle
<1>7. AcceptingFits'
  BY DEF startBootstrap, Inv, AcceptingFits, IdentityTypeOK, Idle
<1> QED
  BY <1>1, <1>2, <1>3, <1>4, <1>5, <1>6, <1>7 DEF Inv

LEMMA CreateUser_Inv ==
  ASSUME Inv, NEW r \in Callers, createUser(r)
  PROVE  Inv'
<1>1. IdentityTypeOK'
  <2>1. request' \in [Callers -> Request]
    <3>1. CASE request[r].user \in users
      BY <3>1, DoneType DEF createUser, Inv
    <3>2. CASE request[r].user \notin users
      BY <3>2, GotoType DEF createUser, Inv, Pc
    <3> QED
      BY <3>1, <3>2
  <2>2. request[r].user \in Emails
    BY DEF createUser, Inv, AcceptingFits
  <2> QED
    BY <2>1, <2>2 DEF createUser, Inv, IdentityTypeOK, mailVars
<1>2. FounderIsOwner'
  BY DEF createUser, Inv, FounderIsOwner
<1>3. MembersOfCompanies'
  BY DEF createUser, Inv, MembersOfCompanies
<1>4. InvitationsFit'
  BY DEF createUser, Inv, InvitationsFit
<1>5. NothingBefore'
  BY DEF createUser, Inv, NothingBefore
<1>6. InvitingFits' /\ AcceptingFits'
  <2>1. CASE request[r].user \in users
    BY <2>1, DoneFits DEF createUser
  <2>2. CASE request[r].user \notin users
    BY <2>2, GotoFits DEF createUser, Pc
  <2> QED
    BY <2>1, <2>2
<1> QED
  BY <1>1, <1>2, <1>3, <1>4, <1>5, <1>6 DEF Inv

LEMMA CreateAuthenticatedSession_Inv ==
  ASSUME Inv, NEW r \in Callers, createAuthenticatedSession(r)
  PROVE  Inv'
<1>1. IdentityTypeOK'
  <2>1. request[r].user \in Emails
    BY DEF createAuthenticatedSession, Inv, AcceptingFits
  <2>2. sessions' \in [Emails -> 0..MaxSessions]
    BY <2>1, IdentityAssumption DEF createAuthenticatedSession, Inv, IdentityTypeOK
  <2> QED
    BY <2>1, <2>2, DoneType DEF createAuthenticatedSession, Inv, IdentityTypeOK, mailVars
<1>2. FounderIsOwner'
  BY DEF createAuthenticatedSession, Inv, FounderIsOwner
<1>3. MembersOfCompanies'
  BY DEF createAuthenticatedSession, Inv, MembersOfCompanies
<1>4. InvitationsFit'
  BY DEF createAuthenticatedSession, Inv, InvitationsFit
<1>5. NothingBefore'
  BY DEF createAuthenticatedSession, Inv, NothingBefore
<1>6. InvitingFits' /\ AcceptingFits'
  BY DoneFits DEF createAuthenticatedSession
<1> QED
  BY <1>1, <1>2, <1>3, <1>4, <1>5, <1>6 DEF Inv

LEMMA Login_Inv ==
  ASSUME Inv, NEW e \in Emails, login(e)
  PROVE  Inv'
<1>1. IdentityTypeOK'
  BY IdentityAssumption DEF login, Inv, IdentityTypeOK, mailVars
<1>2. FounderIsOwner'
  BY DEF login, Inv, FounderIsOwner
<1>3. MembersOfCompanies'
  BY DEF login, Inv, MembersOfCompanies
<1>4. InvitationsFit'
  BY DEF login, Inv, InvitationsFit
<1>5. NothingBefore'
  BY DEF login, Inv, NothingBefore
<1>6. InvitingFits'
  BY DEF login, Inv, InvitingFits
<1>7. AcceptingFits'
  BY DEF login, Inv, AcceptingFits
<1> QED
  BY <1>1, <1>2, <1>3, <1>4, <1>5, <1>6, <1>7 DEF Inv

LEMMA Logout_Inv ==
  ASSUME Inv, NEW e \in Emails, logout(e)
  PROVE  Inv'
<1>1. IdentityTypeOK'
  BY IdentityAssumption DEF logout, Inv, IdentityTypeOK, Mishap, mailVars
<1>2. FounderIsOwner'
  BY DEF logout, Inv, FounderIsOwner
<1>3. MembersOfCompanies'
  BY DEF logout, Inv, MembersOfCompanies
<1>4. InvitationsFit'
  BY DEF logout, Inv, InvitationsFit
<1>5. NothingBefore'
  BY DEF logout, Inv, NothingBefore
<1>6. InvitingFits'
  BY DEF logout, Inv, InvitingFits
<1>7. AcceptingFits'
  BY DEF logout, Inv, AcceptingFits
<1> QED
  BY <1>1, <1>2, <1>3, <1>4, <1>5, <1>6, <1>7 DEF Inv

LEMMA CreateCompany_Inv ==
  ASSUME Inv, NEW c \in Companies, NEW by \in Emails \cup {Internal}, createCompany(c, by)
  PROVE  Inv'
<1>1. IdentityTypeOK'
  BY IdentityAssumption DEF createCompany, Inv, IdentityTypeOK, mailVars, CompanyRole
<1>2. FounderIsOwner'
  BY IdentityAssumption DEF createCompany, Inv, FounderIsOwner, IdentityTypeOK
<1>3. MembersOfCompanies'
  BY IdentityAssumption DEF createCompany, Inv, MembersOfCompanies, IdentityTypeOK
<1>4. InvitationsFit'
  BY IdentityAssumption DEF createCompany, Inv, InvitationsFit, IdentityTypeOK
<1>5. NothingBefore'
  BY IdentityAssumption DEF createCompany, Inv, NothingBefore, IdentityTypeOK
<1>6. InvitingFits'
  BY IdentityAssumption DEF createCompany, Inv, InvitingFits, IdentityTypeOK
<1>7. AcceptingFits'
  BY IdentityAssumption DEF createCompany, Inv, AcceptingFits, IdentityTypeOK
<1> QED
  BY <1>1, <1>2, <1>3, <1>4, <1>5, <1>6, <1>7 DEF Inv

LEMMA StartInvitation_Inv ==
  ASSUME Inv, NEW r \in Callers, NEW e \in Emails, NEW email \in Emails,
         NEW c \in Companies, NEW role \in InvitedRoles, startInvitation(r, e, c, email, role)
  PROVE  Inv'
<1>1. IdentityTypeOK'
  <2>1. [pc |-> "findPending", user |-> e, company |-> c, email |-> email, role |-> role,
         of |-> "none"] \in Request
    BY IdentityAssumption DEF Request, Pc
  <2> QED
    BY <2>1, StoreType DEF startInvitation, Inv, IdentityTypeOK, mailVars
<1>2. FounderIsOwner'
  BY DEF startInvitation, Inv, FounderIsOwner
<1>3. MembersOfCompanies'
  BY DEF startInvitation, Inv, MembersOfCompanies
<1>4. InvitationsFit'
  BY DEF startInvitation, Inv, InvitationsFit
<1>5. NothingBefore'
  BY DEF startInvitation, Inv, NothingBefore
<1>6. InvitingFits'
  <2>1. role \in CompanyRole \ {"owner"}
    BY DEF startInvitation, getInvitableRoles, CompanyRole
  <2>2. founder[c] # "none" /\ (role = "admin" => founder[c] = e)
    BY DEF startInvitation, getInvitableRoles, Inv, FounderIsOwner
  <2>3. /\ request'[r] = [pc |-> "findPending", user |-> e, company |-> c, email |-> email,
                          role |-> role, of |-> "none"]
        /\ \A s \in Callers : s # r => request'[s] = request[s]
    BY DEF startInvitation, Inv, IdentityTypeOK
  <2> QED
    BY <2>1, <2>2, <2>3 DEF startInvitation, Inv, InvitingFits
<1>7. AcceptingFits'
  BY DEF startInvitation, Inv, AcceptingFits, IdentityTypeOK, Idle
<1> QED
  BY <1>1, <1>2, <1>3, <1>4, <1>5, <1>6, <1>7 DEF Inv

LEMMA FindActiveCompanyInvitationByEmail_Inv ==
  ASSUME Inv, NEW r \in Callers, findActiveCompanyInvitationByEmail(r)
  PROVE  Inv'
<1>1. IdentityTypeOK'
  <2>1. Goto(r, "findMember") \/ Done(r)
    BY DEF findActiveCompanyInvitationByEmail
  <2>2. request' \in [Callers -> Request]
    BY <2>1, GotoType, DoneType DEF Inv, Pc
  <2> QED
    BY <2>2 DEF findActiveCompanyInvitationByEmail, Inv, IdentityTypeOK, mailVars
<1>2. FounderIsOwner'
  BY DEF findActiveCompanyInvitationByEmail, Inv, FounderIsOwner
<1>3. MembersOfCompanies'
  BY DEF findActiveCompanyInvitationByEmail, Inv, MembersOfCompanies
<1>4. InvitationsFit'
  BY DEF findActiveCompanyInvitationByEmail, Inv, InvitationsFit
<1>5. NothingBefore'
  BY DEF findActiveCompanyInvitationByEmail, Inv, NothingBefore
<1>6. InvitingFits' /\ AcceptingFits'
  <2>1. Goto(r, "findMember") \/ Done(r)
    BY DEF findActiveCompanyInvitationByEmail
  <2> QED
    BY <2>1, GotoFits, DoneFits DEF findActiveCompanyInvitationByEmail, Pc
<1> QED
  BY <1>1, <1>2, <1>3, <1>4, <1>5, <1>6 DEF Inv

LEMMA GetCompanyMembership_Inv ==
  ASSUME Inv, NEW r \in Callers, getCompanyMembership(r)
  PROVE  Inv'
<1>1. IdentityTypeOK'
  <2>1. Goto(r, "insert") \/ Done(r)
    BY DEF getCompanyMembership
  <2>2. request' \in [Callers -> Request]
    BY <2>1, GotoType, DoneType DEF Inv, Pc
  <2> QED
    BY <2>2 DEF getCompanyMembership, Inv, IdentityTypeOK, mailVars
<1>2. FounderIsOwner'
  BY DEF getCompanyMembership, Inv, FounderIsOwner
<1>3. MembersOfCompanies'
  BY DEF getCompanyMembership, Inv, MembersOfCompanies
<1>4. InvitationsFit'
  BY DEF getCompanyMembership, Inv, InvitationsFit
<1>5. NothingBefore'
  BY DEF getCompanyMembership, Inv, NothingBefore
<1>6. InvitingFits' /\ AcceptingFits'
  <2>1. CASE isMember(request[r].company, request[r].email)
    BY <2>1, DoneFits DEF getCompanyMembership
  <2>2. CASE ~isMember(request[r].company, request[r].email)
    <3>1. founder[request[r].company] # request[r].email
      BY <2>2 DEF getCompanyMembership, isMember, Inv, InvitingFits, FounderIsOwner
    <3> QED
      BY <2>2, <3>1, GotoFits DEF getCompanyMembership, Pc
  <2> QED
    BY <2>1, <2>2
<1> QED
  BY <1>1, <1>2, <1>3, <1>4, <1>5, <1>6 DEF Inv

LEMMA CreateCompanyInvitation_Inv ==
  ASSUME Inv, NEW r \in Callers, createCompanyInvitation(r)
  PROVE  Inv'
<1> PICK i \in Invitations :
      /\ invitation[i].status = "none"
      /\ invitation' = [invitation EXCEPT ![i] =
           [status |-> "pending", company |-> request[r].company, email |-> request[r].email,
            role |-> request[r].role, invitedBy |-> request[r].user,
            acceptedBy |-> "none", expired |-> FALSE]]
      /\ request' = [request EXCEPT ![r] = [Idle EXCEPT !.pc = "mail", !.of = i]]
  BY DEF createCompanyInvitation
<1>a. /\ request[r].company \in Companies /\ request[r].email \in Emails
      /\ request[r].user \in Emails /\ request[r].role \in CompanyRole \ {"owner"}
      /\ founder[request[r].company] \notin {"none", request[r].email}
      /\ request[r].role = "admin" => founder[request[r].company] = request[r].user
  BY DEF createCompanyInvitation, Inv, InvitingFits
<1>b. /\ invitation'[i] =
           [status |-> "pending", company |-> request[r].company, email |-> request[r].email,
            role |-> request[r].role, invitedBy |-> request[r].user,
            acceptedBy |-> "none", expired |-> FALSE]
      /\ \A j \in Invitations : j # i => invitation'[j] = invitation[j]
  BY DEF Inv, IdentityTypeOK
<1>c. /\ request'[r] = [Idle EXCEPT !.pc = "mail", !.of = i]
      /\ \A s \in Callers : s # r => request'[s] = request[s]
  BY DEF Inv, IdentityTypeOK
<1>1. IdentityTypeOK'
  <2>1. invitation'[i] \in InvitationRow
    BY <1>a, <1>b DEF InvitationRow
  <2>2. [Idle EXCEPT !.pc = "mail", !.of = i] \in Request
    BY DEF Idle, Request, Pc
  <2>3. invitation' \in [Invitations -> InvitationRow]
    BY <1>b, <2>1 DEF Inv, IdentityTypeOK
  <2> QED
    BY <2>2, <2>3, StoreType DEF createCompanyInvitation, Inv, IdentityTypeOK, mailVars
<1>2. FounderIsOwner'
  BY DEF createCompanyInvitation, Inv, FounderIsOwner
<1>3. MembersOfCompanies'
  BY DEF createCompanyInvitation, Inv, MembersOfCompanies
<1>4. InvitationsFit'
  BY <1>a, <1>b DEF createCompanyInvitation, Inv, InvitationsFit
<1>5. NothingBefore'
  BY <1>b DEF Inv, NothingBefore
<1>6. InvitingFits'
  BY <1>c DEF createCompanyInvitation, Inv, InvitingFits, Idle
<1>7. AcceptingFits'
  BY <1>b, <1>c DEF createCompanyInvitation, Inv, AcceptingFits, Idle
<1> QED
  BY <1>1, <1>2, <1>3, <1>4, <1>5, <1>6, <1>7 DEF Inv

LEMMA SendInvitationEmail_Inv ==
  ASSUME Inv, NEW r \in Callers, sendInvitationEmail(r)
  PROVE  Inv'
<1>1. IdentityTypeOK'
  <2>1. Goto(r, "send") \/ Done(r)
    BY DEF sendInvitationEmail
  <2>2. request' \in [Callers -> Request]
    BY <2>1, GotoType, DoneType DEF Inv, Pc
  <2> QED
    BY <2>2 DEF sendInvitationEmail, baseStatus, Inv, IdentityTypeOK
<1>2. FounderIsOwner'
  BY DEF sendInvitationEmail, Inv, FounderIsOwner
<1>3. MembersOfCompanies'
  BY DEF sendInvitationEmail, Inv, MembersOfCompanies
<1>4. InvitationsFit'
  BY DEF sendInvitationEmail, Inv, InvitationsFit
<1>5. NothingBefore'
  BY DEF sendInvitationEmail, Inv, NothingBefore
<1>6. InvitingFits' /\ AcceptingFits'
  <2>1. Goto(r, "send") \/ Done(r)
    BY DEF sendInvitationEmail
  <2> QED
    BY <2>1, GotoFits, DoneFits DEF sendInvitationEmail, Pc
<1> QED
  BY <1>1, <1>2, <1>3, <1>4, <1>5, <1>6 DEF Inv

LEMMA SendMail_Inv ==
  ASSUME Inv, NEW r \in Callers, sendMail(r)
  PROVE  Inv'
<1>1. IdentityTypeOK'
  <2>1. Goto(r, "sent") \/ Goto(r, "failed")
    BY DEF sendMail
  <2>2. request' \in [Callers -> Request]
    BY <2>1, GotoType DEF Inv, Pc
  <2>3. request[r].of \in Invitations
    BY DEF sendMail, Inv, AcceptingFits
  <2> QED
    BY <2>2, <2>3, IdentityAssumption DEF sendMail, Inv, IdentityTypeOK, Mishap
<1>2. FounderIsOwner'
  BY DEF sendMail, Inv, FounderIsOwner
<1>3. MembersOfCompanies'
  BY DEF sendMail, Inv, MembersOfCompanies
<1>4. InvitationsFit'
  BY DEF sendMail, Inv, InvitationsFit
<1>5. NothingBefore'
  BY DEF sendMail, Inv, NothingBefore
<1>6. InvitingFits' /\ AcceptingFits'
  <2>1. Goto(r, "sent") \/ Goto(r, "failed")
    BY DEF sendMail
  <2> QED
    BY <2>1, GotoFits DEF sendMail, Pc
<1> QED
  BY <1>1, <1>2, <1>3, <1>4, <1>5, <1>6 DEF Inv

LEMMA UpsertSentMail_Inv ==
  ASSUME Inv, NEW r \in Callers, upsertSentMail(r)
  PROVE  Inv'
<1>1. IdentityTypeOK'
  <2>1. Goto(r, "failed") \/ Done(r)
    BY DEF upsertSentMail
  <2>2. request' \in [Callers -> Request]
    BY <2>1, GotoType, DoneType DEF Inv, Pc
  <2> QED
    BY <2>2, IdentityAssumption DEF upsertSentMail, Inv, IdentityTypeOK, Mishap
<1>2. FounderIsOwner'
  BY DEF upsertSentMail, Inv, FounderIsOwner
<1>3. MembersOfCompanies'
  BY DEF upsertSentMail, Inv, MembersOfCompanies
<1>4. InvitationsFit'
  BY DEF upsertSentMail, Inv, InvitationsFit
<1>5. NothingBefore'
  BY DEF upsertSentMail, Inv, NothingBefore
<1>6. InvitingFits' /\ AcceptingFits'
  <2>1. Goto(r, "failed") \/ Done(r)
    BY DEF upsertSentMail
  <2> QED
    BY <2>1, GotoFits, DoneFits DEF upsertSentMail, Pc
<1> QED
  BY <1>1, <1>2, <1>3, <1>4, <1>5, <1>6 DEF Inv

LEMMA UpsertFailedMail_Inv ==
  ASSUME Inv, NEW r \in Callers, upsertFailedMail(r)
  PROVE  Inv'
<1>1. IdentityTypeOK'
  BY DoneType DEF upsertFailedMail, Inv, IdentityTypeOK
<1>2. FounderIsOwner'
  BY DEF upsertFailedMail, Inv, FounderIsOwner
<1>3. MembersOfCompanies'
  BY DEF upsertFailedMail, Inv, MembersOfCompanies
<1>4. InvitationsFit'
  BY DEF upsertFailedMail, Inv, InvitationsFit
<1>5. NothingBefore'
  BY DEF upsertFailedMail, Inv, NothingBefore
<1>6. InvitingFits' /\ AcceptingFits'
  BY DoneFits DEF upsertFailedMail
<1> QED
  BY <1>1, <1>2, <1>3, <1>4, <1>5, <1>6 DEF Inv

LEMMA StartAccept_Inv ==
  ASSUME Inv, NEW r \in Callers, NEW i \in Invitations, startAccept(r, i)
  PROVE  Inv'
<1> PICK pc \in {"accept", "acceptNew", "acceptSession"}, e \in Emails :
      /\ e = invitation[i].email
      /\ request' = [request EXCEPT ![r] =
           [pc |-> pc, user |-> e, company |-> "none", email |-> "none", role |-> "none",
            of |-> i]]
  BY DEF startAccept, sessionFits
<1>a. /\ request'[r] = [pc |-> pc, user |-> e, company |-> "none", email |-> "none",
                        role |-> "none", of |-> i]
      /\ \A s \in Callers : s # r => request'[s] = request[s]
  BY DEF Inv, IdentityTypeOK
<1>b. invitation[i].status # "none" /\ UNCHANGED invitation
  BY DEF startAccept, statusOf
<1>c. request'[r].pc = pc /\ request'[r].user = e /\ request'[r].of = i
  BY <1>a
<1>1. IdentityTypeOK'
  <2>1. [pc |-> pc, user |-> e, company |-> "none", email |-> "none", role |-> "none",
         of |-> i] \in Request
    BY DEF Request, Pc
  <2> QED
    BY <2>1, StoreType DEF startAccept, Inv, IdentityTypeOK, mailVars
<1>2. FounderIsOwner'
  BY DEF startAccept, Inv, FounderIsOwner
<1>3. MembersOfCompanies'
  BY DEF startAccept, Inv, MembersOfCompanies
<1>4. InvitationsFit'
  BY DEF startAccept, Inv, InvitationsFit
<1>5. NothingBefore'
  BY DEF startAccept, Inv, NothingBefore
<1>6. InvitingFits'
  BY <1>a DEF startAccept, Inv, InvitingFits, Idle
<1>7. AcceptingFits'
  BY <1>a, <1>b, <1>c DEF Inv, AcceptingFits
<1> QED
  BY <1>1, <1>2, <1>3, <1>4, <1>5, <1>6, <1>7 DEF Inv

LEMMA AcceptCompanyInvitation_Inv ==
  ASSUME Inv, NEW r \in Callers, acceptCompanyInvitation(r)
  PROVE  Inv'
<1> DEFINE i == request[r].of
           e == request[r].user
<1>a. /\ i \in Invitations /\ invitation[i].status # "none" /\ e = invitation[i].email
  BY DEF acceptCompanyInvitation, Inv, AcceptingFits
<1>b. /\ invitation[i].company \in Companies /\ e \in Emails
      /\ invitation[i].role \in CompanyRole \ {"owner"}
      /\ founder[invitation[i].company] \notin {"none", e}
  BY <1>a DEF Inv, InvitationsFit
<1>c. /\ invitation \in [Invitations -> InvitationRow]
      /\ member \in [Companies -> [Emails -> CompanyRole \cup {"none"}]]
      /\ sessions \in [Emails -> 0..MaxSessions]
  BY DEF Inv, IdentityTypeOK
<1>d. invitation' = [invitation EXCEPT ![i].status = "accepted", ![i].acceptedBy = e]
  BY DEF acceptCompanyInvitation
<1>e. member' = [member EXCEPT ![invitation[i].company][e] = invitation[i].role]
  BY DEF acceptCompanyInvitation
<1>f. \A j \in Invitations :
        /\ invitation'[j].status = "none" <=> invitation[j].status = "none"
        /\ invitation'[j].company = invitation[j].company
        /\ invitation'[j].email = invitation[j].email
        /\ invitation'[j].role = invitation[j].role
        /\ invitation'[j].invitedBy = invitation[j].invitedBy
        /\ \/ invitation'[j].acceptedBy = invitation[j].acceptedBy
           \/ /\ invitation[j].status # "none"
              /\ invitation'[j].acceptedBy = invitation[j].email
  BY <1>a, <1>c, <1>d DEF InvitationRow
<1>g. \A c \in Companies, f \in Emails :
        member'[c][f] = IF c = invitation[i].company /\ f = e THEN invitation[i].role
                        ELSE member[c][f]
  BY <1>b, <1>c, <1>e
<1>h. UNCHANGED founder
  BY DEF acceptCompanyInvitation
<1>1. IdentityTypeOK'
  <2>1. invitation' \in [Invitations -> InvitationRow]
    <3>1. [invitation[i] EXCEPT !.status = "accepted", !.acceptedBy = e] \in InvitationRow
      BY <1>a, <1>b, <1>c, AcceptedRow
    <3> QED
      BY <3>1, <1>a, <1>c, <1>d
  <2>2. member' \in [Companies -> [Emails -> CompanyRole \cup {"none"}]]
    BY <1>b, <1>c, <1>e
  <2>3. sessions' \in [Emails -> 0..MaxSessions]
    BY <1>b, <1>c, IdentityAssumption DEF acceptCompanyInvitation
  <2>4. request' \in [Callers -> Request]
    BY DoneType DEF acceptCompanyInvitation, Inv
  <2>5. users' \subseteq Emails /\ bootstrapped' \subseteq users'
    BY <1>b DEF acceptCompanyInvitation, Inv, IdentityTypeOK
  <2> QED
    BY <2>1, <2>2, <2>3, <2>4, <2>5 DEF acceptCompanyInvitation, Inv, IdentityTypeOK, mailVars
<1>2. FounderIsOwner'
  BY <1>b, <1>g, <1>h DEF Inv, FounderIsOwner
<1>3. MembersOfCompanies'
  BY <1>b, <1>g, <1>h DEF Inv, MembersOfCompanies
<1>4. InvitationsFit' /\ NothingBefore'
  BY <1>f, <1>h, SameInvitations
<1>6. InvitingFits' /\ AcceptingFits'
  <2>1. /\ request'[r] = Idle
        /\ \A s \in Callers : s # r => request'[s] = request[s]
    BY DEF acceptCompanyInvitation, Done, Inv, IdentityTypeOK
  <2>2. InvitingFits'
    BY <1>h, <2>1 DEF Inv, InvitingFits, Idle
  <2>3. AcceptingFits'
    BY <1>f, <2>1 DEF Inv, AcceptingFits, Idle
  <2> QED
    BY <2>2, <2>3
<1> QED
  BY <1>1, <1>2, <1>3, <1>4, <1>6 DEF Inv

LEMMA StartRevoke_Inv ==
  ASSUME Inv, NEW r \in Callers, NEW e \in Emails, NEW i \in Invitations, startRevoke(r, e, i)
  PROVE  Inv'
<1>1. IdentityTypeOK'
  <2>1. [Idle EXCEPT !.pc = "revoke", !.of = i] \in Request
    BY DEF Idle, Request, Pc
  <2> QED
    BY <2>1, StoreType DEF startRevoke, Inv, IdentityTypeOK, mailVars
<1>2. FounderIsOwner'
  BY DEF startRevoke, Inv, FounderIsOwner
<1>3. MembersOfCompanies'
  BY DEF startRevoke, Inv, MembersOfCompanies
<1>4. InvitationsFit'
  BY DEF startRevoke, Inv, InvitationsFit
<1>5. NothingBefore'
  BY DEF startRevoke, Inv, NothingBefore
<1>6. InvitingFits'
  BY DEF startRevoke, Inv, InvitingFits, IdentityTypeOK, Idle
<1>7. AcceptingFits'
  BY DEF startRevoke, Inv, AcceptingFits, IdentityTypeOK, Idle
<1> QED
  BY <1>1, <1>2, <1>3, <1>4, <1>5, <1>6, <1>7 DEF Inv

LEMMA RevokeCompanyInvitation_Inv ==
  ASSUME Inv, NEW r \in Callers, revokeCompanyInvitation(r)
  PROVE  Inv'
<1> DEFINE i == request[r].of
<1>a. i \in Invitations /\ invitation[i].status # "none"
  BY DEF revokeCompanyInvitation, Inv, AcceptingFits
<1>b. invitation \in [Invitations -> InvitationRow]
  BY DEF Inv, IdentityTypeOK
<1>c. invitation' = [invitation EXCEPT ![i].status = "revoked"]
  BY DEF revokeCompanyInvitation
<1>d. \A j \in Invitations :
        /\ invitation'[j].status = "none" <=> invitation[j].status = "none"
        /\ invitation'[j].company = invitation[j].company
        /\ invitation'[j].email = invitation[j].email
        /\ invitation'[j].role = invitation[j].role
        /\ invitation'[j].invitedBy = invitation[j].invitedBy
        /\ \/ invitation'[j].acceptedBy = invitation[j].acceptedBy
           \/ /\ invitation[j].status # "none"
              /\ invitation'[j].acceptedBy = invitation[j].email
  BY <1>a, <1>b, <1>c DEF InvitationRow
<1>e. UNCHANGED founder
  BY DEF revokeCompanyInvitation
<1>1. IdentityTypeOK'
  <2>1. [invitation[i] EXCEPT !.status = "revoked"] \in InvitationRow
    BY <1>a, <1>b DEF InvitationRow
  <2>2. invitation' \in [Invitations -> InvitationRow]
    BY <2>1, <1>b, <1>c
  <2>3. request' \in [Callers -> Request]
    BY DoneType DEF revokeCompanyInvitation, Inv
  <2> QED
    BY <2>2, <2>3 DEF revokeCompanyInvitation, Inv, IdentityTypeOK, mailVars
<1>2. FounderIsOwner'
  BY DEF revokeCompanyInvitation, Inv, FounderIsOwner
<1>3. MembersOfCompanies'
  BY DEF revokeCompanyInvitation, Inv, MembersOfCompanies
<1>4. InvitationsFit' /\ NothingBefore'
  BY <1>d, <1>e, SameInvitations
<1>6. InvitingFits' /\ AcceptingFits'
  <2>1. /\ request'[r] = Idle
        /\ \A s \in Callers : s # r => request'[s] = request[s]
    BY DEF revokeCompanyInvitation, Done, Inv, IdentityTypeOK
  <2>2. InvitingFits'
    BY <1>e, <2>1 DEF Inv, InvitingFits, Idle
  <2>3. AcceptingFits'
    BY <1>d, <2>1 DEF Inv, AcceptingFits, Idle
  <2> QED
    BY <2>2, <2>3
<1> QED
  BY <1>1, <1>2, <1>3, <1>4, <1>6 DEF Inv

LEMMA Expire_Inv ==
  ASSUME Inv, NEW i \in Invitations, expire(i)
  PROVE  Inv'
<1>a. invitation \in [Invitations -> InvitationRow]
  BY DEF Inv, IdentityTypeOK
<1>b. invitation' = [invitation EXCEPT ![i].expired = TRUE]
  BY DEF expire
<1>c. \A j \in Invitations :
        /\ invitation'[j].status = invitation[j].status
        /\ invitation'[j].company = invitation[j].company
        /\ invitation'[j].email = invitation[j].email
        /\ invitation'[j].role = invitation[j].role
        /\ invitation'[j].invitedBy = invitation[j].invitedBy
        /\ \/ invitation'[j].acceptedBy = invitation[j].acceptedBy
           \/ /\ invitation[j].status # "none"
              /\ invitation'[j].acceptedBy = invitation[j].email
  BY <1>a, <1>b DEF InvitationRow
<1>d. UNCHANGED <<founder, request>>
  BY DEF expire
<1>1. IdentityTypeOK'
  <2>1. [invitation[i] EXCEPT !.expired = TRUE] \in InvitationRow
    BY <1>a DEF InvitationRow
  <2>2. invitation' \in [Invitations -> InvitationRow]
    BY <2>1, <1>a, <1>b
  <2> QED
    BY <2>2, IdentityAssumption DEF expire, Mishap, Inv, IdentityTypeOK, mailVars
<1>2. FounderIsOwner'
  BY DEF expire, Inv, FounderIsOwner
<1>3. MembersOfCompanies'
  BY DEF expire, Inv, MembersOfCompanies
<1>4. InvitationsFit' /\ NothingBefore'
  BY <1>c, <1>d, SameInvitations
<1>6. InvitingFits'
  BY <1>d DEF Inv, InvitingFits
<1>7. AcceptingFits'
  BY <1>c, <1>d DEF Inv, AcceptingFits
<1> QED
  BY <1>1, <1>2, <1>3, <1>4, <1>6, <1>7 DEF Inv

LEMMA RequestDies_Inv ==
  ASSUME Inv, NEW r \in Callers, RequestDies(r)
  PROVE  Inv'
<1>1. IdentityTypeOK'
  BY DoneType, IdentityAssumption DEF RequestDies, Mishap, Inv, IdentityTypeOK, mailVars
<1>2. FounderIsOwner'
  BY DEF RequestDies, Inv, FounderIsOwner
<1>3. MembersOfCompanies'
  BY DEF RequestDies, Inv, MembersOfCompanies
<1>4. InvitationsFit'
  BY DEF RequestDies, Inv, InvitationsFit
<1>5. NothingBefore'
  BY DEF RequestDies, Inv, NothingBefore
<1>6. InvitingFits' /\ AcceptingFits'
  BY DoneFits DEF RequestDies
<1> QED
  BY <1>1, <1>2, <1>3, <1>4, <1>5, <1>6 DEF Inv

LEMMA Init_Inv == IdentityInit => Inv
BY IdentityAssumption, IdleIsRequest
   DEF IdentityInit, Inv, IdentityTypeOK, FounderIsOwner, MembersOfCompanies, InvitationsFit,
       NothingBefore, InvitingFits, AcceptingFits, NoInvitation, InvitationRow, Idle

LEMMA Next_Inv == Inv /\ [IdentityNext]_identityVars => Inv'
<1> SUFFICES ASSUME Inv, [IdentityNext]_identityVars PROVE Inv'
  OBVIOUS
<1>1. CASE UNCHANGED identityVars
  BY <1>1 DEF identityVars, Inv, IdentityTypeOK, FounderIsOwner, MembersOfCompanies,
              InvitationsFit, NothingBefore, InvitingFits, AcceptingFits
<1>2. ASSUME NEW r \in Callers,
             \/ \E e \in Emails : startBootstrap(r, e)
             \/ createUser(r)
             \/ createAuthenticatedSession(r)
             \/ \E e, email \in Emails, c \in Companies, role \in InvitedRoles :
                  startInvitation(r, e, c, email, role)
             \/ findActiveCompanyInvitationByEmail(r)
             \/ getCompanyMembership(r)
             \/ createCompanyInvitation(r)
      PROVE  Inv'
  BY <1>2, StartBootstrap_Inv, CreateUser_Inv, CreateAuthenticatedSession_Inv,
     StartInvitation_Inv, FindActiveCompanyInvitationByEmail_Inv, GetCompanyMembership_Inv,
     CreateCompanyInvitation_Inv
<1>3. ASSUME NEW r \in Callers,
             \/ sendInvitationEmail(r)
             \/ sendMail(r)
             \/ upsertSentMail(r)
             \/ upsertFailedMail(r)
             \/ \E i \in Invitations : startAccept(r, i)
             \/ acceptCompanyInvitation(r)
             \/ \E e \in Emails, i \in Invitations : startRevoke(r, e, i)
             \/ revokeCompanyInvitation(r)
             \/ RequestDies(r)
      PROVE  Inv'
  BY <1>3, SendInvitationEmail_Inv, SendMail_Inv, UpsertSentMail_Inv, UpsertFailedMail_Inv,
     StartAccept_Inv, AcceptCompanyInvitation_Inv, StartRevoke_Inv,
     RevokeCompanyInvitation_Inv, RequestDies_Inv
<1>4. CASE \E e \in Emails : login(e) \/ logout(e)
  BY <1>4, Login_Inv, Logout_Inv
<1>5. CASE \E c \in Companies, by \in Emails \cup {Internal} : createCompany(c, by)
  BY <1>5, CreateCompany_Inv
<1>6. CASE \E i \in Invitations : expire(i)
  BY <1>6, Expire_Inv
<1> QED
  BY <1>1, <1>2, <1>3, <1>4, <1>5, <1>6 DEF IdentityNext

LEMMA Inv_Owners == Inv => OnlyOwnersMakeAdmins
BY IdentityAssumption
   DEF Inv, IdentityTypeOK, FounderIsOwner, InvitationsFit, NothingBefore, OnlyOwnersMakeAdmins,
       InvitationRow, CompanyRole

\* The types of what is stored.
THEOREM IdentityTypeCorrect == IdentitySpec => []IdentityTypeOK
<1>1. Inv => IdentityTypeOK
  BY DEF Inv
<1> QED
  BY <1>1, Init_Inv, Next_Inv, PTL DEF IdentitySpec

\* Only an owner makes admins, however many requests overlap: the memberships a request
\* read statements ago still entitle it, and no acceptance takes an owner's role.
THEOREM OwnersMakeAdmins == IdentitySpec => []OnlyOwnersMakeAdmins
BY Init_Inv, Next_Inv, Inv_Owners, PTL DEF IdentitySpec

-----------------------------------------------------------------------------
(* MembersWereInvited *)

\* Where nobody joins, a row that is there stays as it is in what MembersWereInvited
\* reads of it.
LEMMA NobodyJoins ==
  ASSUME Inv, MembersWereInvited, UNCHANGED <<users, bootstrapped, founder, member>>,
         \A i \in Invitations : invitation[i].status # "none" =>
           /\ invitation'[i].company = invitation[i].company
           /\ invitation'[i].email = invitation[i].email
           /\ invitation'[i].role = invitation[i].role
           /\ invitation'[i].acceptedBy = invitation[i].acceptedBy
  PROVE  MembersWereInvited'
<1>1. ASSUME NEW c \in Companies, NEW e \in Emails, member[c][e] # "none",
             ~(founder[c] = e /\ member[c][e] = "owner")
      PROVE  \E i \in Invitations :
               /\ invitation'[i].company = c
               /\ invitation'[i].email = e
               /\ invitation'[i].role = member[c][e]
               /\ invitation'[i].acceptedBy = e
  <2>1. PICK i \in Invitations :
          /\ invitation[i].company = c
          /\ invitation[i].email = e
          /\ invitation[i].role = member[c][e]
          /\ invitation[i].acceptedBy = e
    BY <1>1 DEF MembersWereInvited
  <2>2. invitation[i].status # "none"
    BY <1>1, <2>1 DEF Inv, NothingBefore
  <2> QED
    BY <2>1, <2>2
<1>2. ASSUME NEW e \in users \ bootstrapped
      PROVE  \E i \in Invitations : invitation'[i].acceptedBy = e
  <2>1. PICK i \in Invitations : invitation[i].acceptedBy = e
    BY <1>2 DEF MembersWereInvited
  <2>2. invitation[i].status # "none"
    BY <2>1, IdentityAssumption DEF Inv, NothingBefore, IdentityTypeOK
  <2> QED
    BY <2>1, <2>2
<1> QED
  BY <1>1, <1>2 DEF MembersWereInvited

LEMMA CreateUser_Members ==
  ASSUME Inv, MembersWereInvited, NEW r \in Callers, createUser(r)
  PROVE  MembersWereInvited'
BY DEF createUser, MembersWereInvited, mailVars

LEMMA CreateCompany_Members ==
  ASSUME Inv, MembersWereInvited, NEW c \in Companies, NEW by \in Emails \cup {Internal},
         createCompany(c, by)
  PROVE  MembersWereInvited'
<1>1. \A d \in Companies, e \in Emails :
        /\ d # c => founder'[d] = founder[d] /\ member'[d][e] = member[d][e]
        /\ founder'[c] = by
        /\ member'[c][e] = IF e = by THEN "owner" ELSE "none"
  BY IdentityAssumption
     DEF createCompany, Inv, IdentityTypeOK, MembersOfCompanies
<1>2. UNCHANGED <<invitation, users, bootstrapped>>
  BY DEF createCompany
<1> QED
  BY <1>1, <1>2 DEF MembersWereInvited

LEMMA Accept_Members ==
  ASSUME Inv, MembersWereInvited, NEW r \in Callers, acceptCompanyInvitation(r)
  PROVE  MembersWereInvited'
<1> DEFINE i == request[r].of
           e == request[r].user
<1>1. /\ i \in Invitations /\ invitation[i].status # "none" /\ e = invitation[i].email
  BY DEF acceptCompanyInvitation, Inv, AcceptingFits
<1>2. invitation[i].company \in Companies /\ e \in Emails
  BY <1>1 DEF Inv, InvitationsFit
<1>3. /\ invitation \in [Invitations -> InvitationRow]
      /\ member \in [Companies -> [Emails -> CompanyRole \cup {"none"}]]
  BY DEF Inv, IdentityTypeOK
<1>4. \A j \in Invitations :
        /\ invitation'[j].company = invitation[j].company
        /\ invitation'[j].email = invitation[j].email
        /\ invitation'[j].role = invitation[j].role
        /\ invitation'[j].acceptedBy = IF j = i THEN e ELSE invitation[j].acceptedBy
  BY <1>1, <1>3 DEF acceptCompanyInvitation, InvitationRow
<1>5. \A c \in Companies, f \in Emails :
        member'[c][f] = IF c = invitation[i].company /\ f = e THEN invitation[i].role
                        ELSE member[c][f]
  BY <1>2, <1>3 DEF acceptCompanyInvitation
<1>6. users' = users \cup {e} /\ UNCHANGED <<founder, bootstrapped>>
  BY DEF acceptCompanyInvitation
<1> HIDE DEF i, e
<1>7. ASSUME NEW c \in Companies, NEW f \in Emails, member'[c][f] # "none",
             ~(founder'[c] = f /\ member'[c][f] = "owner")
      PROVE  \E j \in Invitations :
               /\ invitation'[j].company = c
               /\ invitation'[j].email = f
               /\ invitation'[j].role = member'[c][f]
               /\ invitation'[j].acceptedBy = f
  <2>1. CASE c = invitation[i].company /\ f = e
    BY <1>1, <1>4, <1>5, <2>1
  <2>2. CASE ~(c = invitation[i].company /\ f = e)
    <3>1. PICK j \in Invitations :
            /\ invitation[j].company = c
            /\ invitation[j].email = f
            /\ invitation[j].role = member[c][f]
            /\ invitation[j].acceptedBy = f
      BY <1>5, <1>6, <1>7, <2>2 DEF MembersWereInvited
    <3>2. j # i
      BY <1>1, <2>2, <3>1
    <3> QED
      BY <1>4, <1>5, <2>2, <3>1, <3>2
  <2> QED
    BY <2>1, <2>2
<1>8. ASSUME NEW f \in users' \ bootstrapped'
      PROVE  \E j \in Invitations : invitation'[j].acceptedBy = f
  <2>1. CASE f = e
    BY <1>1, <1>4, <2>1
  <2>2. CASE f # e
    <3>1. PICK j \in Invitations : invitation[j].acceptedBy = f
      BY <1>6, <1>8, <2>2 DEF MembersWereInvited
    <3>3. CASE j # i
      BY <1>4, <3>1, <3>3
    <3>4. CASE j = i
      BY <1>1, <1>6, <1>8, <2>2, <3>1, <3>4, IdentityAssumption
         DEF Inv, InvitationsFit, IdentityTypeOK
    <3> QED
      BY <3>3, <3>4
  <2> QED
    BY <2>1, <2>2
<1> QED
  BY <1>7, <1>8 DEF MembersWereInvited

LEMMA Next_Members ==
  Inv /\ MembersWereInvited /\ [IdentityNext]_identityVars => MembersWereInvited'
<1> SUFFICES ASSUME Inv, MembersWereInvited, [IdentityNext]_identityVars
             PROVE  MembersWereInvited'
  OBVIOUS
<1>1. CASE UNCHANGED identityVars
  BY <1>1, NobodyJoins DEF identityVars
<1>2. ASSUME NEW r \in Callers, createUser(r) \/ acceptCompanyInvitation(r)
      PROVE  MembersWereInvited'
  BY <1>2, CreateUser_Members, Accept_Members
<1>3. CASE \E c \in Companies, by \in Emails \cup {Internal} : createCompany(c, by)
  BY <1>3, CreateCompany_Members
<1>4. ASSUME NEW r \in Callers, createCompanyInvitation(r)
      PROVE  MembersWereInvited'
  <2>1. \A i \in Invitations : invitation[i].status # "none" => invitation'[i] = invitation[i]
    BY <1>4 DEF createCompanyInvitation, Inv, IdentityTypeOK
  <2> QED
    BY <1>4, <2>1, NobodyJoins DEF createCompanyInvitation
<1>5. ASSUME NEW r \in Callers, revokeCompanyInvitation(r)
      PROVE  MembersWereInvited'
  <2>1. request[r].of \in Invitations /\ invitation \in [Invitations -> InvitationRow]
    BY <1>5 DEF revokeCompanyInvitation, Inv, AcceptingFits, IdentityTypeOK
  <2>2. \A i \in Invitations :
          /\ invitation'[i].company = invitation[i].company
          /\ invitation'[i].email = invitation[i].email
          /\ invitation'[i].role = invitation[i].role
          /\ invitation'[i].acceptedBy = invitation[i].acceptedBy
    BY <1>5, <2>1 DEF revokeCompanyInvitation, InvitationRow
  <2> QED
    BY <1>5, <2>2, NobodyJoins DEF revokeCompanyInvitation
<1>6. ASSUME NEW j \in Invitations, expire(j)
      PROVE  MembersWereInvited'
  <2>1. invitation \in [Invitations -> InvitationRow]
    BY DEF Inv, IdentityTypeOK
  <2>2. \A i \in Invitations :
          /\ invitation'[i].company = invitation[i].company
          /\ invitation'[i].email = invitation[i].email
          /\ invitation'[i].role = invitation[i].role
          /\ invitation'[i].acceptedBy = invitation[i].acceptedBy
    BY <1>6, <2>1 DEF expire, InvitationRow
  <2> QED
    BY <1>6, <2>2, NobodyJoins DEF expire
<1>7. ASSUME NEW r \in Callers,
             \/ \E e \in Emails : startBootstrap(r, e)
             \/ createAuthenticatedSession(r)
             \/ \E e, email \in Emails, c \in Companies, role \in InvitedRoles :
                  startInvitation(r, e, c, email, role)
             \/ findActiveCompanyInvitationByEmail(r)
             \/ getCompanyMembership(r)
             \/ sendInvitationEmail(r)
             \/ sendMail(r)
             \/ upsertSentMail(r)
             \/ upsertFailedMail(r)
             \/ \E i \in Invitations : startAccept(r, i)
             \/ \E e \in Emails, i \in Invitations : startRevoke(r, e, i)
             \/ RequestDies(r)
      PROVE  MembersWereInvited'
  <2>1. UNCHANGED <<users, bootstrapped, founder, member, invitation>>
    BY <1>7 DEF startBootstrap, createAuthenticatedSession, startInvitation,
                findActiveCompanyInvitationByEmail, getCompanyMembership, sendInvitationEmail,
                sendMail, upsertSentMail, upsertFailedMail, startAccept, startRevoke, RequestDies
  <2> QED
    BY <2>1, NobodyJoins
<1>8. CASE \E e \in Emails : login(e) \/ logout(e)
  <2>1. UNCHANGED <<users, bootstrapped, founder, member, invitation>>
    BY <1>8 DEF login, logout
  <2> QED
    BY <2>1, NobodyJoins
<1> QED
  BY <1>1, <1>2, <1>3, <1>4, <1>5, <1>6, <1>7, <1>8 DEF IdentityNext

\* Nobody is in a company, or has an account, without the invitation for it.
THEOREM MembersInvited == IdentitySpec => []MembersWereInvited
<1>1. IdentityInit => MembersWereInvited
  BY DEF IdentityInit, MembersWereInvited
<1>2. (Inv /\ MembersWereInvited) /\ [IdentityNext]_identityVars =>
        (Inv /\ MembersWereInvited)'
  BY Next_Inv, Next_Members
<1> QED
  BY <1>1, <1>2, Init_Inv, PTL DEF IdentitySpec

-----------------------------------------------------------------------------
(* OutboxIsTruthful *)

\* A mail leaves only where there is a server, from a request whose row says so.
MailFits ==
  /\ OutboxIsTruthful
  /\ delivered # {} => smtp
  /\ \A r \in Callers :
       /\ request[r].pc \in {"send", "sent", "failed"} =>
            smtp /\ mail[request[r].of] \in {"queued", "sent", "failed"}
       /\ request[r].pc = "sent" => request[r].of \in delivered

\* A step that is about no mail.
LEMMA NoMail ==
  ASSUME MailFits, UNCHANGED <<smtp, mail, delivered>>,
         \A r \in Callers : \/ request'[r] = request[r]
                            \/ request'[r].pc \notin {"send", "sent", "failed"}
  PROVE  MailFits'
BY DEF MailFits, OutboxIsTruthful

LEMMA Next_Mail ==
  ASSUME Inv, MailFits, [IdentityNext]_identityVars
  PROVE  MailFits'
<1>1. /\ request \in [Callers -> Request]
      /\ mail \in [Invitations -> {"none", "queued", "skipped", "sent", "failed"}]
      /\ delivered \subseteq Invitations
  BY DEF Inv, IdentityTypeOK
<1>2. CASE UNCHANGED identityVars
  BY <1>2, NoMail DEF identityVars, mailVars
<1>3. ASSUME NEW r \in Callers, Done(r)
      PROVE  \A q \in Callers : \/ request'[q] = request[q]
                                \/ request'[q].pc \notin {"send", "sent", "failed"}
  BY <1>1, <1>3 DEF Done, Idle
<1>4. ASSUME NEW r \in Callers, NEW pc, Goto(r, pc)
      PROVE  /\ request'[r].pc = pc /\ request'[r].of = request[r].of
             /\ \A q \in Callers : q # r => request'[q] = request[q]
  <2>1. request[r] \in Request
    BY <1>1
  <2>2. /\ [request[r] EXCEPT !.pc = pc].pc = pc
        /\ [request[r] EXCEPT !.pc = pc].of = request[r].of
    BY <2>1 DEF Request
  <2> QED
    BY <1>1, <1>4, <2>2 DEF Goto
<1>5. ASSUME NEW r \in Callers, NEW q, request' = [request EXCEPT ![r] = q],
             q.pc \notin {"send", "sent", "failed"}
      PROVE  \A t \in Callers : \/ request'[t] = request[t]
                                \/ request'[t].pc \notin {"send", "sent", "failed"}
  BY <1>1, <1>5
<1>6. ASSUME NEW r \in Callers,
             \/ createUser(r)
             \/ createAuthenticatedSession(r)
             \/ findActiveCompanyInvitationByEmail(r)
             \/ getCompanyMembership(r)
             \/ acceptCompanyInvitation(r)
             \/ revokeCompanyInvitation(r)
             \/ RequestDies(r)
      PROVE  MailFits'
  <2>1. UNCHANGED <<smtp, mail, delivered>>
    BY <1>6 DEF createUser, createAuthenticatedSession, findActiveCompanyInvitationByEmail,
                getCompanyMembership, acceptCompanyInvitation, revokeCompanyInvitation,
                RequestDies, mailVars
  <2>2. Done(r) \/ Goto(r, "createSession") \/ Goto(r, "findMember") \/ Goto(r, "insert")
    BY <1>6 DEF createUser, createAuthenticatedSession, findActiveCompanyInvitationByEmail,
                getCompanyMembership, acceptCompanyInvitation, revokeCompanyInvitation,
                RequestDies
  <2> QED
    BY <1>3, <1>4, <2>1, <2>2, NoMail
<1>7. ASSUME NEW r \in Callers,
             \/ \E e \in Emails : startBootstrap(r, e)
             \/ \E e, email \in Emails, c \in Companies, role \in InvitedRoles :
                  startInvitation(r, e, c, email, role)
             \/ createCompanyInvitation(r)
             \/ \E i \in Invitations : startAccept(r, i)
             \/ \E e \in Emails, i \in Invitations : startRevoke(r, e, i)
      PROVE  MailFits'
  <2>1. UNCHANGED <<smtp, mail, delivered>>
    BY <1>7 DEF startBootstrap, startInvitation, createCompanyInvitation, startAccept,
                startRevoke, mailVars
  <2> DEFINE Fine == \A t \in Callers : \/ request'[t] = request[t]
                                        \/ request'[t].pc \notin {"send", "sent", "failed"}
  <2> SUFFICES Fine
    BY <2>1, NoMail
  <2>2. CASE \E e \in Emails : startBootstrap(r, e)
    <3>1. PICK e \in Emails : startBootstrap(r, e)
      BY <2>2
    <3> DEFINE q == [Idle EXCEPT !.pc = "createUser", !.user = e]
    <3>2. request' = [request EXCEPT ![r] = q] /\ q.pc = "createUser"
      BY <3>1 DEF startBootstrap, Idle
    <3> HIDE DEF q
    <3> QED
      BY <1>5, <3>2
  <2>3. CASE \E e, email \in Emails, c \in Companies, role \in InvitedRoles :
               startInvitation(r, e, c, email, role)
    <3>1. PICK e \in Emails, email \in Emails, c \in Companies, role \in InvitedRoles :
            startInvitation(r, e, c, email, role)
      BY <2>3
    <3> DEFINE q == [pc |-> "findPending", user |-> e, company |-> c, email |-> email,
                     role |-> role, of |-> "none"]
    <3>2. request' = [request EXCEPT ![r] = q] /\ q.pc = "findPending"
      BY <3>1 DEF startInvitation
    <3> HIDE DEF q
    <3> QED
      BY <1>5, <3>2
  <2>4. CASE createCompanyInvitation(r)
    <3>1. PICK i \in Invitations :
            request' = [request EXCEPT ![r] = [Idle EXCEPT !.pc = "mail", !.of = i]]
      BY <2>4 DEF createCompanyInvitation
    <3> DEFINE q == [Idle EXCEPT !.pc = "mail", !.of = i]
    <3>2. request' = [request EXCEPT ![r] = q] /\ q.pc = "mail"
      BY <3>1 DEF Idle
    <3> HIDE DEF q
    <3> QED
      BY <1>5, <3>2
  <2>5. CASE \E i \in Invitations : startAccept(r, i)
    <3>1. PICK i \in Invitations, pc \in {"accept", "acceptNew", "acceptSession"}, e \in Emails :
            request' = [request EXCEPT ![r] =
              [pc |-> pc, user |-> e, company |-> "none", email |-> "none", role |-> "none",
               of |-> i]]
      BY <2>5 DEF startAccept
    <3> DEFINE q == [pc |-> pc, user |-> e, company |-> "none", email |-> "none",
                     role |-> "none", of |-> i]
    <3>2. request' = [request EXCEPT ![r] = q] /\ q.pc = pc
      BY <3>1
    <3> HIDE DEF q
    <3> QED
      BY <1>5, <3>2
  <2>6. CASE \E e \in Emails, i \in Invitations : startRevoke(r, e, i)
    <3>1. PICK i \in Invitations :
            request' = [request EXCEPT ![r] = [Idle EXCEPT !.pc = "revoke", !.of = i]]
      BY <2>6 DEF startRevoke
    <3> DEFINE q == [Idle EXCEPT !.pc = "revoke", !.of = i]
    <3>2. request' = [request EXCEPT ![r] = q] /\ q.pc = "revoke"
      BY <3>1 DEF Idle
    <3> HIDE DEF q
    <3> QED
      BY <1>5, <3>2
  <2> QED
    BY <1>7, <2>2, <2>3, <2>4, <2>5, <2>6
<1>8. ASSUME NEW r \in Callers, sendInvitationEmail(r) PROVE MailFits'
  <2> DEFINE i == request[r].of
  <2>1. /\ i \in Invitations /\ mail' = [mail EXCEPT ![i] = baseStatus]
        /\ UNCHANGED <<smtp, delivered>>
    BY <1>8 DEF sendInvitationEmail, Inv, AcceptingFits
  <2>2. CASE smtp
    <3>1. mail'[i] = "queued" /\ \A j \in Invitations : j # i => mail'[j] = mail[j]
      BY <1>1, <2>1, <2>2 DEF baseStatus
    <3>2. /\ request'[r].pc = "send" /\ request'[r].of = i
          /\ \A q \in Callers : q # r => request'[q] = request[q]
      BY <1>4, <1>8, <2>2 DEF sendInvitationEmail
    <3>3. \A q \in Callers : request[q].pc \in {"send", "sent", "failed"} =>
            request[q].of \in Invitations
      BY DEF Inv, AcceptingFits
    <3> QED
      BY <2>1, <2>2, <3>1, <3>2, <3>3 DEF MailFits, OutboxIsTruthful
  <2>3. CASE ~smtp
    <3>1. mail'[i] = "skipped" /\ \A j \in Invitations : j # i => mail'[j] = mail[j]
      BY <1>1, <2>1, <2>3 DEF baseStatus
    <3>2. Done(r)
      BY <1>8, <2>3 DEF sendInvitationEmail
    <3>3. \A q \in Callers : request'[q].pc \notin {"send", "sent", "failed"}
      BY <1>3, <2>3, <3>2 DEF MailFits
    <3>4. delivered = {}
      BY <2>3 DEF MailFits
    <3> QED
      BY <2>1, <2>3, <3>1, <3>3, <3>4 DEF MailFits, OutboxIsTruthful
  <2> QED
    BY <2>2, <2>3
<1>9. ASSUME NEW r \in Callers, sendMail(r) PROVE MailFits'
  <2> DEFINE i == request[r].of
  <2>1. /\ i \in Invitations /\ UNCHANGED <<smtp, mail>>
        /\ smtp /\ mail[i] \in {"queued", "sent", "failed"}
    BY <1>9 DEF sendMail, Inv, AcceptingFits, MailFits
  <2>2. \/ delivered' = delivered \cup {i} /\ Goto(r, "sent")
        \/ (delivered' = delivered \cup {i} \/ delivered' = delivered) /\ Goto(r, "failed")
    <3>1. \A taken \in SUBSET {i} : taken = {i} \/ taken = {}
      OBVIOUS
    <3>2. delivered \cup {} = delivered
      OBVIOUS
    <3> QED
      BY <1>9, <3>1, <3>2 DEF sendMail
  <2>3. /\ request'[r].of = i
        /\ \A q \in Callers : q # r => request'[q] = request[q]
        /\ request'[r].pc = "failed" \/ (request'[r].pc = "sent" /\ i \in delivered')
        /\ delivered \subseteq delivered' /\ delivered' \subseteq delivered \cup {i}
    BY <1>4, <2>2
  <2> QED
    BY <2>1, <2>3 DEF MailFits, OutboxIsTruthful
<1>10. ASSUME NEW r \in Callers, upsertSentMail(r) PROVE MailFits'
  <2> DEFINE i == request[r].of
  <2>1. /\ i \in Invitations /\ UNCHANGED <<smtp, delivered>> /\ i \in delivered
        /\ smtp /\ mail[i] \in {"queued", "sent", "failed"}
    BY <1>10 DEF upsertSentMail, Inv, AcceptingFits, MailFits
  <2>2. CASE mail' = [mail EXCEPT ![i] = "sent"] /\ Done(r)
    <3>1. mail'[i] = "sent" /\ \A j \in Invitations : j # i => mail'[j] = mail[j]
      BY <1>1, <2>1, <2>2
    <3>2. \A q \in Callers : request[q].pc \in {"send", "sent", "failed"} =>
            request[q].of \in Invitations
      BY DEF Inv, AcceptingFits
    <3>3. \A q \in Callers : \/ request'[q] = request[q]
                             \/ request'[q].pc \notin {"send", "sent", "failed"}
      BY <1>3, <2>2
    <3> QED
      BY <2>1, <3>1, <3>2, <3>3 DEF MailFits, OutboxIsTruthful
  <2>3. CASE UNCHANGED mail /\ Goto(r, "failed")
    <3>1. /\ request'[r].pc = "failed" /\ request'[r].of = i
          /\ \A q \in Callers : q # r => request'[q] = request[q]
      BY <1>4, <2>3
    <3> QED
      BY <2>1, <2>3, <3>1 DEF MailFits, OutboxIsTruthful
  <2> QED
    BY <1>10, <2>2, <2>3 DEF upsertSentMail
<1>11. ASSUME NEW r \in Callers, upsertFailedMail(r) PROVE MailFits'
  <2> DEFINE i == request[r].of
  <2>1. /\ i \in Invitations /\ UNCHANGED <<smtp, delivered>>
        /\ mail' = [mail EXCEPT ![i] = "failed"]
    BY <1>11 DEF upsertFailedMail, Inv, AcceptingFits
  <2>2. mail'[i] = "failed" /\ \A j \in Invitations : j # i => mail'[j] = mail[j]
    BY <1>1, <2>1
  <2>3. \A q \in Callers : request[q].pc \in {"send", "sent", "failed"} =>
          request[q].of \in Invitations
    BY DEF Inv, AcceptingFits
  <2>4. \A q \in Callers : \/ request'[q] = request[q]
                           \/ request'[q].pc \notin {"send", "sent", "failed"}
    BY <1>3, <1>11 DEF upsertFailedMail
  <2> QED
    BY <2>1, <2>2, <2>3, <2>4 DEF MailFits, OutboxIsTruthful
<1>12. CASE \/ \E e \in Emails : login(e) \/ logout(e)
            \/ \E c \in Companies, by \in Emails \cup {Internal} : createCompany(c, by)
            \/ \E i \in Invitations : expire(i)
  <2>1. UNCHANGED <<smtp, mail, delivered, request>>
    BY <1>12 DEF login, logout, createCompany, expire, mailVars
  <2> QED
    BY <2>1, NoMail
<1> QED
  BY <1>2, <1>6, <1>7, <1>8, <1>9, <1>10, <1>11, <1>12 DEF IdentityNext

\* The outbox knows of every mail that left, and calls none sent that did not.
THEOREM OutboxTrue == IdentitySpec => []OutboxIsTruthful
<1>1. IdentityInit => MailFits
  BY DEF IdentityInit, MailFits, OutboxIsTruthful, Idle
<1>2. (Inv /\ MailFits) /\ [IdentityNext]_identityVars => (Inv /\ MailFits)'
  BY Next_Inv, Next_Mail
<1>3. MailFits => OutboxIsTruthful
  BY DEF MailFits
<1> QED
  BY <1>1, <1>2, <1>3, Init_Inv, PTL DEF IdentitySpec

-----------------------------------------------------------------------------
(* ImplementsAccessControl *)

\* Who is about to invite was let in, and nobody is ever put out of a company.
InvitersBelong ==
  \A r \in Callers : request[r].pc \in {"findPending", "findMember", "insert"} =>
    member[request[r].company][request[r].user] # "none"

\* A request that invites holds what it held before, or has just been let in.
LEMMA StillInvites ==
  ASSUME Inv, InvitersBelong,
         \A c \in Companies, e \in Emails : member[c][e] # "none" => member'[c][e] # "none",
         \A r \in Callers : \/ request'[r].pc \notin {"findPending", "findMember", "insert"}
                            \/ /\ request[r].pc \in {"findPending", "findMember", "insert"}
                               /\ request'[r].company = request[r].company
                               /\ request'[r].user = request[r].user
                            \/ /\ request'[r].company \in Companies
                               /\ request'[r].user \in Emails
                               /\ member[request'[r].company][request'[r].user] # "none"
  PROVE  InvitersBelong'
BY DEF Inv, InvitingFits, InvitersBelong

\* Roles are given by two transactions, and neither takes one away.
LEMMA NobodyLeaves ==
  ASSUME Inv, IdentityNext
  PROVE  \A c \in Companies, e \in Emails : member[c][e] # "none" => member'[c][e] # "none"
<1>1. member \in [Companies -> [Emails -> CompanyRole \cup {"none"}]]
  BY DEF Inv, IdentityTypeOK
<1>2. ASSUME NEW c \in Companies, NEW by \in Emails \cup {Internal}, createCompany(c, by)
      PROVE  \A d \in Companies, e \in Emails : member[d][e] # "none" => member'[d][e] # "none"
  BY <1>1, <1>2 DEF createCompany
<1>3. ASSUME NEW r \in Callers, acceptCompanyInvitation(r)
      PROVE  \A d \in Companies, e \in Emails : member[d][e] # "none" => member'[d][e] # "none"
  <2>1. request[r].of \in Invitations /\ invitation[request[r].of].role # "none"
    BY <1>3 DEF acceptCompanyInvitation, Inv, AcceptingFits, InvitationsFit, CompanyRole
  <2> QED
    BY <1>1, <1>3, <2>1 DEF acceptCompanyInvitation
<1>4. CASE UNCHANGED member
  BY <1>4
<1>5. \/ UNCHANGED member
      \/ \E c \in Companies, by \in Emails \cup {Internal} : createCompany(c, by)
      \/ \E r \in Callers : acceptCompanyInvitation(r)
  BY DEF IdentityNext, startBootstrap, createUser, createAuthenticatedSession, startInvitation,
         findActiveCompanyInvitationByEmail, getCompanyMembership, createCompanyInvitation,
         sendInvitationEmail, sendMail, upsertSentMail, upsertFailedMail, startAccept,
         startRevoke, revokeCompanyInvitation, RequestDies, login, logout, expire
<1> QED
  BY <1>2, <1>3, <1>4, <1>5

LEMMA Next_Inviters ==
  ASSUME Inv, InvitersBelong, [IdentityNext]_identityVars
  PROVE  InvitersBelong'
<1> DEFINE Kept(r) ==
      \/ request'[r].pc \notin {"findPending", "findMember", "insert"}
      \/ /\ request[r].pc \in {"findPending", "findMember", "insert"}
         /\ request'[r].company = request[r].company
         /\ request'[r].user = request[r].user
      \/ /\ request'[r].company \in Companies
         /\ request'[r].user \in Emails
         /\ member[request'[r].company][request'[r].user] # "none"
<1>1. request \in [Callers -> Request]
  BY DEF Inv, IdentityTypeOK
<1>2. CASE UNCHANGED identityVars
  BY <1>2 DEF identityVars, InvitersBelong
<1>3. CASE UNCHANGED request
  <2>1. \A r \in Callers : Kept(r)
    BY <1>3
  <2> HIDE DEF Kept
  <2>2. CASE IdentityNext
    BY <2>1, <2>2, NobodyLeaves, StillInvites DEF Kept
  <2> QED
    BY <1>2, <2>2
<1>4. ASSUME NEW r \in Callers, NEW q, request' = [request EXCEPT ![r] = q],
             \/ q.pc \notin {"findPending", "findMember", "insert"}
             \/ /\ q.company \in Companies /\ q.user \in Emails
                /\ member[q.company][q.user] # "none"
      PROVE  \A t \in Callers : Kept(t)
  BY <1>1, <1>4
<1>5. ASSUME NEW r \in Callers, Done(r)
      PROVE  \A t \in Callers : Kept(t)
  BY <1>1, <1>5 DEF Done, Idle
<1>6. ASSUME NEW r \in Callers, NEW pc, Goto(r, pc),
             \/ pc \notin {"findPending", "findMember", "insert"}
             \/ request[r].pc \in {"findPending", "findMember"}
      PROVE  \A t \in Callers : Kept(t)
  <2>1. request[r] \in Request
    BY <1>1
  <2>2. /\ [request[r] EXCEPT !.pc = pc].pc = pc
        /\ [request[r] EXCEPT !.pc = pc].company = request[r].company
        /\ [request[r] EXCEPT !.pc = pc].user = request[r].user
    BY <2>1 DEF Request
  <2> QED
    BY <1>1, <1>6, <2>2 DEF Goto
<1>7. ASSUME NEW r \in Callers,
             \/ createUser(r)
             \/ createAuthenticatedSession(r)
             \/ findActiveCompanyInvitationByEmail(r)
             \/ getCompanyMembership(r)
             \/ sendInvitationEmail(r)
             \/ sendMail(r)
             \/ upsertSentMail(r)
             \/ upsertFailedMail(r)
             \/ acceptCompanyInvitation(r)
             \/ revokeCompanyInvitation(r)
             \/ RequestDies(r)
      PROVE  \A t \in Callers : Kept(t)
  <2>1. \/ Done(r)
        \/ \E pc \in {"createSession", "send", "sent", "failed"} : Goto(r, pc)
        \/ \E pc \in {"findMember", "insert"} :
             Goto(r, pc) /\ request[r].pc \in {"findPending", "findMember"}
    BY <1>7 DEF createUser, createAuthenticatedSession, findActiveCompanyInvitationByEmail,
                getCompanyMembership, sendInvitationEmail, sendMail, upsertSentMail,
                upsertFailedMail, acceptCompanyInvitation, revokeCompanyInvitation, RequestDies
  <2> HIDE DEF Kept
  <2> QED
    BY <1>5, <1>6, <2>1
<1>8. ASSUME NEW r \in Callers, NEW e \in Emails, startBootstrap(r, e)
      PROVE  \A t \in Callers : Kept(t)
  <2> DEFINE q == [Idle EXCEPT !.pc = "createUser", !.user = e]
  <2>1. request' = [request EXCEPT ![r] = q] /\ q.pc = "createUser"
    BY <1>8 DEF startBootstrap, Idle
  <2> HIDE DEF q, Kept
  <2> QED
    BY <1>4, <2>1
<1>9. ASSUME NEW r \in Callers, NEW e \in Emails, NEW email \in Emails, NEW c \in Companies,
             NEW role \in InvitedRoles, startInvitation(r, e, c, email, role)
      PROVE  \A t \in Callers : Kept(t)
  <2> DEFINE q == [pc |-> "findPending", user |-> e, company |-> c, email |-> email,
                   role |-> role, of |-> "none"]
  <2>1. request' = [request EXCEPT ![r] = q] /\ q.company = c /\ q.user = e
    BY <1>9 DEF startInvitation
  <2>2. member[c][e] # "none"
    BY <1>9 DEF startInvitation, getInvitableRoles
  <2> HIDE DEF q, Kept
  <2> QED
    BY <1>4, <2>1, <2>2
<1>10. ASSUME NEW r \in Callers, createCompanyInvitation(r)
       PROVE  \A t \in Callers : Kept(t)
  <2>1. PICK i \in Invitations :
          request' = [request EXCEPT ![r] = [Idle EXCEPT !.pc = "mail", !.of = i]]
    BY <1>10 DEF createCompanyInvitation
  <2> DEFINE q == [Idle EXCEPT !.pc = "mail", !.of = i]
  <2>2. request' = [request EXCEPT ![r] = q] /\ q.pc = "mail"
    BY <2>1 DEF Idle
  <2> HIDE DEF q, Kept
  <2> QED
    BY <1>4, <2>2
<1>11. ASSUME NEW r \in Callers, NEW i \in Invitations, startAccept(r, i)
       PROVE  \A t \in Callers : Kept(t)
  <2>1. PICK pc \in {"accept", "acceptNew", "acceptSession"}, e \in Emails :
          request' = [request EXCEPT ![r] =
            [pc |-> pc, user |-> e, company |-> "none", email |-> "none", role |-> "none",
             of |-> i]]
    BY <1>11 DEF startAccept
  <2> DEFINE q == [pc |-> pc, user |-> e, company |-> "none", email |-> "none",
                   role |-> "none", of |-> i]
  <2>2. request' = [request EXCEPT ![r] = q] /\ q.pc = pc
    BY <2>1
  <2> HIDE DEF q, Kept
  <2> QED
    BY <1>4, <2>2
<1>12. ASSUME NEW r \in Callers, NEW e \in Emails, NEW i \in Invitations, startRevoke(r, e, i)
       PROVE  \A t \in Callers : Kept(t)
  <2> DEFINE q == [Idle EXCEPT !.pc = "revoke", !.of = i]
  <2>1. request' = [request EXCEPT ![r] = q] /\ q.pc = "revoke"
    BY <1>12 DEF startRevoke, Idle
  <2> HIDE DEF q, Kept
  <2> QED
    BY <1>4, <2>1
<1>13. CASE IdentityNext /\ \A t \in Callers : Kept(t)
  BY <1>13, NobodyLeaves, StillInvites
<1> HIDE DEF Kept
<1>14. CASE \/ \E e \in Emails : login(e) \/ logout(e)
            \/ \E c \in Companies, by \in Emails \cup {Internal} : createCompany(c, by)
            \/ \E i \in Invitations : expire(i)
  BY <1>3, <1>14 DEF login, logout, createCompany, expire
<1> QED
  BY <1>2, <1>7, <1>8, <1>9, <1>10, <1>11, <1>12, <1>13, <1>14 DEF IdentityNext

-----------------------------------------------------------------------------

\* Where no row appears and none changes what it offers, no offer is made.
LEMMA NoOffer ==
  ASSUME \A i \in Invitations :
           /\ invitation'[i].status = "none" <=> invitation[i].status = "none"
           /\ invitation[i].status # "none" =>
                /\ invitation'[i].company = invitation[i].company
                /\ invitation'[i].email = invitation[i].email
                /\ invitation'[i].role = invitation[i].role
  PROVE  UNCHANGED offersMade
BY DEF offersMade, offerOf

\* A company is founded, unless the internal token made it.
LEMMA CreateCompany_Founds ==
  ASSUME Inv, NEW c \in Companies, NEW by \in Emails \cup {Internal}, createCompany(c, by)
  PROVE  Access!Next \/ UNCHANGED <<member, offersMade>>
<1>1. founder[c] = "none" /\ UNCHANGED invitation
  BY DEF createCompany
<1>2. UNCHANGED offersMade
  BY <1>1, NoOffer
<1>3. CASE by = Internal
  BY <1>2, <1>3 DEF createCompany
<1>4. CASE by # Internal
  <2>1. by \in Emails /\ member' = [member EXCEPT ![c][by] = "owner"]
    BY <1>4 DEF createCompany
  <2>2. \A f \in Emails : member[c][f] = "none"
    BY <1>1 DEF Inv, MembersOfCompanies
  <2>3. \A o \in offersMade : o.company # c
    BY <1>1 DEF offersMade, offerOf, Inv, InvitationsFit
  <2> QED
    BY <1>2, <2>1, <2>2, <2>3 DEF Access!Next, Access!Found
<1> QED
  BY <1>3, <1>4

\* The stored invitation is an offer the member who makes it may still make.
LEMMA CreateCompanyInvitation_Offers ==
  ASSUME Inv, InvitersBelong, NEW r \in Callers, createCompanyInvitation(r)
  PROVE  Access!Next
<1>1. PICK i \in Invitations :
        /\ invitation[i].status = "none"
        /\ invitation' = [invitation EXCEPT ![i] =
             [status |-> "pending", company |-> request[r].company, email |-> request[r].email,
              role |-> request[r].role, invitedBy |-> request[r].user,
              acceptedBy |-> "none", expired |-> FALSE]]
  BY DEF createCompanyInvitation
<1> DEFINE o == [company |-> request[r].company, email |-> request[r].email,
                 role |-> request[r].role]
<1>2. /\ o.company \in Companies /\ o.email \in Emails /\ request[r].user \in Emails
      /\ o.role \in CompanyRole \ {"owner"}
      /\ founder[o.company] # o.email
      /\ o.role = "admin" => founder[o.company] = request[r].user
      /\ member[o.company][request[r].user] # "none"
  BY DEF createCompanyInvitation, Inv, InvitingFits, InvitersBelong
<1>3. /\ invitation'[i].status # "none" /\ offerOf(i)' = o
      /\ \A j \in Invitations : j # i => invitation'[j] = invitation[j]
  BY <1>1 DEF Inv, IdentityTypeOK, offerOf
<1>4. offersMade' = offersMade \cup {o}
  <2>1. ASSUME NEW p \in offersMade' PROVE p \in offersMade \cup {o}
    <3>1. PICK j \in Invitations : invitation'[j].status # "none" /\ p = offerOf(j)'
      BY <2>1 DEF offersMade
    <3>2. CASE j = i
      BY <1>3, <3>1, <3>2
    <3>3. CASE j # i
      BY <1>3, <3>1, <3>3 DEF offersMade, offerOf
    <3> QED
      BY <3>2, <3>3
  <2>2. ASSUME NEW p \in offersMade PROVE p \in offersMade'
    <3>1. PICK j \in Invitations : invitation[j].status # "none" /\ p = offerOf(j)
      BY <2>2 DEF offersMade
    <3>2. j # i /\ invitation'[j].status # "none" /\ p = offerOf(j)'
      BY <1>1, <1>3, <3>1 DEF offerOf
    <3> QED
      BY <3>2 DEF offersMade
  <2>3. o \in offersMade'
    BY <1>3 DEF offersMade
  <2> QED
    BY <2>1, <2>2, <2>3
<1>5. /\ member[o.company][o.email] # "owner"
      /\ o.role = "admin" => member[o.company][request[r].user] = "owner"
  BY <1>2 DEF Inv, FounderIsOwner
<1>6. UNCHANGED member
  BY DEF createCompanyInvitation
<1>7. o \in [company : Companies, email : Emails, role : CompanyRole \ {"owner"}]
  BY <1>2
<1> HIDE DEF o
<1>8. Access!Offer(request[r].user, o)
  BY <1>2, <1>4, <1>5, <1>6 DEF Access!Offer
<1> QED
  BY <1>2, <1>7, <1>8 DEF Access!Next

\* An acceptance gives the role of a stored invitation to the account it was made to.
LEMMA Accept_Joins ==
  ASSUME Inv, NEW r \in Callers, acceptCompanyInvitation(r)
  PROVE  Access!Next
<1> DEFINE i == request[r].of
           o == offerOf(i)
<1>1. /\ i \in Invitations /\ invitation[i].status # "none"
      /\ request[r].user = invitation[i].email
  BY DEF acceptCompanyInvitation, Inv, AcceptingFits
<1>2. /\ o.company = invitation[i].company /\ o.email = invitation[i].email
      /\ o.role = invitation[i].role
      /\ o \in offersMade
  BY <1>1 DEF offersMade, offerOf
<1>3. member[o.company][o.email] # "owner"
  BY <1>1, <1>2 DEF Inv, InvitationsFit, FounderIsOwner
<1>4. member' = [member EXCEPT ![o.company][o.email] = o.role]
  BY <1>1, <1>2 DEF acceptCompanyInvitation
<1>5. UNCHANGED offersMade
  <2>1. invitation \in [Invitations -> InvitationRow]
    BY DEF Inv, IdentityTypeOK
  <2>2. \A j \in Invitations :
          /\ invitation'[j].status = "none" <=> invitation[j].status = "none"
          /\ invitation'[j].company = invitation[j].company
          /\ invitation'[j].email = invitation[j].email
          /\ invitation'[j].role = invitation[j].role
    BY <1>1, <2>1 DEF acceptCompanyInvitation, InvitationRow
  <2> QED
    BY <2>2, NoOffer
<1> HIDE DEF i, o
<1> QED
  BY <1>2, <1>3, <1>4, <1>5 DEF Access!Next, Access!Join

LEMMA Next_Access ==
  ASSUME Inv, InvitersBelong, [IdentityNext]_identityVars
  PROVE  Access!Next \/ UNCHANGED <<member, offersMade>>
<1>1. CASE UNCHANGED identityVars
  BY <1>1, NoOffer DEF identityVars
<1>2. CASE \E c \in Companies, by \in Emails \cup {Internal} : createCompany(c, by)
  BY <1>2, CreateCompany_Founds
<1>3. CASE \E r \in Callers : createCompanyInvitation(r) \/ acceptCompanyInvitation(r)
  BY <1>3, CreateCompanyInvitation_Offers, Accept_Joins
<1>4. ASSUME NEW r \in Callers, revokeCompanyInvitation(r)
      PROVE  UNCHANGED <<member, offersMade>>
  <2>1. /\ request[r].of \in Invitations /\ invitation[request[r].of].status # "none"
        /\ invitation \in [Invitations -> InvitationRow]
    BY <1>4 DEF revokeCompanyInvitation, Inv, AcceptingFits, IdentityTypeOK
  <2>2. \A i \in Invitations :
          /\ invitation'[i].status = "none" <=> invitation[i].status = "none"
          /\ invitation'[i].company = invitation[i].company
          /\ invitation'[i].email = invitation[i].email
          /\ invitation'[i].role = invitation[i].role
    BY <1>4, <2>1 DEF revokeCompanyInvitation, InvitationRow
  <2> QED
    BY <1>4, <2>2, NoOffer DEF revokeCompanyInvitation
<1>5. ASSUME NEW j \in Invitations, expire(j)
      PROVE  UNCHANGED <<member, offersMade>>
  <2>1. invitation \in [Invitations -> InvitationRow]
    BY DEF Inv, IdentityTypeOK
  <2>2. \A i \in Invitations :
          /\ invitation'[i].status = invitation[i].status
          /\ invitation'[i].company = invitation[i].company
          /\ invitation'[i].email = invitation[i].email
          /\ invitation'[i].role = invitation[i].role
    BY <1>5, <2>1 DEF expire, InvitationRow
  <2> QED
    BY <1>5, <2>2, NoOffer DEF expire
<1>6. CASE UNCHANGED <<member, invitation>>
  BY <1>6, NoOffer
<1>7. ASSUME NEW r \in Callers,
             \/ \E e \in Emails : startBootstrap(r, e)
             \/ createUser(r)
             \/ createAuthenticatedSession(r)
             \/ \E e, email \in Emails, c \in Companies, role \in InvitedRoles :
                  startInvitation(r, e, c, email, role)
             \/ findActiveCompanyInvitationByEmail(r)
             \/ getCompanyMembership(r)
             \/ sendInvitationEmail(r)
             \/ sendMail(r)
             \/ upsertSentMail(r)
             \/ upsertFailedMail(r)
             \/ \E i \in Invitations : startAccept(r, i)
             \/ \E e \in Emails, i \in Invitations : startRevoke(r, e, i)
             \/ RequestDies(r)
      PROVE  UNCHANGED <<member, invitation>>
  BY <1>7 DEF startBootstrap, createUser, createAuthenticatedSession, startInvitation,
              findActiveCompanyInvitationByEmail, getCompanyMembership, sendInvitationEmail,
              sendMail, upsertSentMail, upsertFailedMail, startAccept, startRevoke, RequestDies
<1>8. CASE \E e \in Emails : login(e) \/ logout(e)
  BY <1>6, <1>8 DEF login, logout
<1> QED
  BY <1>1, <1>2, <1>3, <1>4, <1>5, <1>6, <1>7, <1>8 DEF IdentityNext

\* Roles come about as AccessControl says, whatever requests overlap: when an invitation
\* is stored its maker may still make it, and when one is taken up, whatever became of
\* it meanwhile, the role goes to the account it was offered to and never to the owner.
THEOREM AccessRefinement == IdentitySpec => ImplementsAccessControl
<1>1. IdentityInit => Access!Init
  BY DEF IdentityInit, Access!Init, offersMade, NoInvitation
<1>2. IdentityInit => InvitersBelong
  BY DEF IdentityInit, InvitersBelong, Idle
<1>3. (Inv /\ InvitersBelong) /\ [IdentityNext]_identityVars => (Inv /\ InvitersBelong)'
  BY Next_Inv, Next_Inviters
<1>4. (Inv /\ InvitersBelong) /\ [IdentityNext]_identityVars =>
        [Access!Next]_<<member, offersMade>>
  BY Next_Access
<1> QED
  BY <1>1, <1>2, <1>3, <1>4, Init_Inv, PTL DEF IdentitySpec, ImplementsAccessControl, Access!Spec
=============================================================================
