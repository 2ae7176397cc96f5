------------------------------ MODULE Identity ------------------------------
(***************************************************************************)
(* Accounts, sessions, memberships, invitations and invitation mail.       *)
(*                                                                         *)
(* An account is its email (users.email is unique).  A request of several  *)
(* statements is a caller that goes through them one at a time: only the   *)
(* acceptance of an invitation writes in a transaction, and that one reads *)
(* the invitation without locking it.                                      *)
(***************************************************************************)
EXTENDS Integers

CONSTANTS
  Emails,
  Companies,     \* slugs
  Invitations,   \* ids of invitations yet to be made
  Callers,       \* requests that may be in progress at once
  MaxSessions,   \* bound: live sessions of an account
  MaxMishaps     \* bound: requests that die, mails that fail, sessions and invitations that end

CompanyRole == {"owner", "admin", "operator", "reviewer", "viewer"}
Internal == "internal"   \* a caller with the internal token, which is nobody's account

CONSTANT InvitedRoles    \* bound: the roles that are asked for

ASSUME IdentityAssumption ==
  /\ InvitedRoles \subseteq CompanyRole
  /\ Internal \notin Emails
  /\ "none" \notin Emails \cup Companies \cup Invitations
  /\ MaxSessions \in Nat
  /\ MaxMishaps \in Nat

VARIABLES
  smtp,          \* whether a mail server is configured
  users,         \* the accounts
  sessions,      \* how many live sessions an account has
  founder,       \* who created a company: an account, Internal, or "none"
  member,        \* the role of an account in a company, or "none"
  invitation,    \* the rows of company_invitations
  mail,          \* the status of the outbound_mail row of an invitation
  delivered,     \* the invitations whose mail the server has taken
  request,       \* what each caller holds
  bootstrapped,  \* the accounts made by /auth/bootstrap
  mishaps        \* requests that died, mails that failed, sessions and invitations that ended

identityVars == <<smtp, users, sessions, founder, member, invitation, mail, delivered,
                  request, bootstrapped, mishaps>>

-----------------------------------------------------------------------------

rolePriority ==
  [none |-> 0, viewer |-> 1, reviewer |-> 2, operator |-> 3, admin |-> 4, owner |-> 5]
canAssumeRole(role, minimum) == rolePriority[role] >= rolePriority[minimum]

getInvitableRoles(role) ==
  CASE role = "owner" -> {"admin", "operator", "reviewer", "viewer"}
    [] role = "admin" -> {"operator", "reviewer", "viewer"}
    [] OTHER -> {}

NoInvitation == [status |-> "none", company |-> "none", email |-> "none", role |-> "none",
                 invitedBy |-> "none", acceptedBy |-> "none", expired |-> FALSE]
\* The status as every read of the row computes it.
statusOf(i) ==
  IF invitation[i].status = "pending" /\ invitation[i].expired THEN "expired"
  ELSE invitation[i].status

Idle == [pc |-> "idle", user |-> "none", company |-> "none", email |-> "none",
         role |-> "none", of |-> "none"]
Goto(r, pc) == request' = [request EXCEPT ![r].pc = pc]
Done(r) == request' = [request EXCEPT ![r] = Idle]

IdentityInit ==
  /\ smtp \in BOOLEAN
  /\ users = {}
  /\ sessions = [e \in Emails |-> 0]
  /\ founder = [c \in Companies |-> "none"]
  /\ member = [c \in Companies |-> [e \in Emails |-> "none"]]
  /\ invitation = [i \in Invitations |-> NoInvitation]
  /\ mail = [i \in Invitations |-> "none"]
  /\ delivered = {}
  /\ request = [r \in Callers |-> Idle]
  /\ bootstrapped = {}
  /\ mishaps = 0

\* Row by row: a membership that is there takes the new role.
getUserByEmail(e) == e \in users
createUserSession(e) == [sessions EXCEPT ![e] = @ + 1]
deleteUserSession(e) == [sessions EXCEPT ![e] = @ - 1]
addCompanyMembership(c, e, role) == [member EXCEPT ![c][e] = role]

\* A live session of the account; with it a role in the company.
getRequestAuthContext(e) == sessions[e] > 0
requireCompanyAccess(e, c, minimum) ==
  getRequestAuthContext(e) /\ canAssumeRole(member[c][e], minimum)

mailVars == <<mail, delivered>>
Mishap == mishaps < MaxMishaps /\ mishaps' = mishaps + 1

-----------------------------------------------------------------------------
(* Sessions *)

bootstrapRequired == users = {}

startBootstrap(r, e) ==
  /\ request[r].pc = "idle"
  /\ bootstrapRequired
  /\ request' = [request EXCEPT ![r] = [Idle EXCEPT !.pc = "createUser", !.user = e]]
  /\ UNCHANGED <<smtp, users, sessions, founder, member, invitation, mailVars, bootstrapped,
                 mishaps>>

\* Only the email is unique: bootstraps that overlap under two emails both succeed.
createUser(r) ==
  LET e == request[r].user
  IN  /\ request[r].pc = "createUser"
      /\ users' = users \cup {e}
      /\ bootstrapped' = bootstrapped \cup {e}
      /\ IF e \in users THEN Done(r) ELSE Goto(r, "createSession")
      /\ UNCHANGED <<smtp, sessions, founder, member, invitation, mailVars, mishaps>>

createAuthenticatedSession(r) ==
  LET e == request[r].user
  IN  /\ request[r].pc = "createSession"
      /\ sessions[e] < MaxSessions
      /\ sessions' = createUserSession(e)
      /\ Done(r)
      /\ UNCHANGED <<smtp, users, founder, member, invitation, mailVars, bootstrapped, mishaps>>

login(e) ==
  /\ e \in users
  /\ sessions[e] < MaxSessions
  /\ sessions' = createUserSession(e)
  /\ UNCHANGED <<smtp, users, founder, member, invitation, mailVars, request, bootstrapped,
                 mishaps>>

\* /auth/logout, or the session's expiry: no request that starts later has it.
logout(e) ==
  /\ sessions[e] > 0
  /\ Mishap
  /\ sessions' = deleteUserSession(e)
  /\ UNCHANGED <<smtp, users, founder, member, invitation, mailVars, request, bootstrapped>>

-----------------------------------------------------------------------------
(* Companies *)

\* One transaction; the slug is unique.  A company the internal token makes has no
\* member.
createCompany(c, by) ==
  /\ founder[c] = "none"
  /\ by \in Emails => getRequestAuthContext(by)
  /\ founder' = [founder EXCEPT ![c] = by]
  /\ member' = IF by = Internal THEN member ELSE addCompanyMembership(c, by, "owner")
  /\ UNCHANGED <<smtp, users, sessions, invitation, mailVars, request, bootstrapped, mishaps>>

-----------------------------------------------------------------------------
(* Invitations *)

\* requireCompanyAccess and getInvitableRoles: the memberships are read once.
startInvitation(r, e, c, email, role) ==
  /\ request[r].pc = "idle"
  /\ founder[c] # "none"
  /\ requireCompanyAccess(e, c, "admin")
  /\ role \in getInvitableRoles(member[c][e])
  /\ request' = [request EXCEPT ![r] =
       [pc |-> "findPending", user |-> e, company |-> c, email |-> email, role |-> role,
        of |-> "none"]]
  /\ UNCHANGED <<smtp, users, sessions, founder, member, invitation, mailVars, bootstrapped,
                 mishaps>>

findActiveCompanyInvitationByEmail(r) ==
  LET taken == \E i \in Invitations :
                 /\ invitation[i].company = request[r].company
                 /\ invitation[i].email = request[r].email
                 /\ statusOf(i) = "pending"
  IN  /\ request[r].pc = "findPending"
      /\ IF taken THEN Done(r) ELSE Goto(r, "findMember")
      /\ UNCHANGED <<smtp, users, sessions, founder, member, invitation, mailVars, bootstrapped,
                     mishaps>>

\* Mutant: only the pending invitations are looked at.
NobodyIsMember(c, e) == FALSE
isMember(c, e) == member[c][e] # "none"

getCompanyMembership(r) ==
  /\ request[r].pc = "findMember"
  /\ IF isMember(request[r].company, request[r].email) THEN Done(r) ELSE Goto(r, "insert")
  /\ UNCHANGED <<smtp, users, sessions, founder, member, invitation, mailVars, bootstrapped,
                 mishaps>>

createCompanyInvitation(r) ==
  /\ request[r].pc = "insert"
  /\ \E i \in Invitations :
       /\ invitation[i].status = "none"
       /\ invitation' = [invitation EXCEPT ![i] =
            [status |-> "pending", company |-> request[r].company, email |-> request[r].email,
             role |-> request[r].role, invitedBy |-> request[r].user,
             acceptedBy |-> "none", expired |-> FALSE]]
       /\ request' = [request EXCEPT ![r] = [Idle EXCEPT !.pc = "mail", !.of = i]]
  /\ UNCHANGED <<smtp, users, sessions, founder, member, mailVars, bootstrapped, mishaps>>

\* Mutants: the outcome that is hoped for is stored first; the provider is stored for
\* the status.
ProviderAsStatus == IF smtp THEN "queued" ELSE "disabled"
SentAtOnce == IF smtp THEN "sent" ELSE "skipped"
baseStatus == IF smtp THEN "queued" ELSE "skipped"

sendInvitationEmail(r) ==
  /\ request[r].pc = "mail"
  /\ mail' = [mail EXCEPT ![request[r].of] = baseStatus]
  /\ IF smtp THEN Goto(r, "send") ELSE Done(r)
  /\ UNCHANGED <<smtp, users, sessions, founder, member, invitation, delivered, bootstrapped,
                 mishaps>>

\* The server takes the mail and answers; the answer may be lost.
sendMail(r) ==
  /\ request[r].pc = "send"
  /\ \/ /\ delivered' = delivered \cup {request[r].of}
        /\ Goto(r, "sent")
        /\ UNCHANGED mishaps
     \/ /\ Mishap
        /\ \E taken \in SUBSET {request[r].of} : delivered' = delivered \cup taken
        /\ Goto(r, "failed")
  /\ UNCHANGED <<smtp, users, sessions, founder, member, invitation, mail, bootstrapped>>

\* The catch block is also entered when the row of a mail that was sent cannot be
\* stored.
upsertSentMail(r) ==
  /\ request[r].pc = "sent"
  /\ \/ mail' = [mail EXCEPT ![request[r].of] = "sent"] /\ Done(r) /\ UNCHANGED mishaps
     \/ Mishap /\ UNCHANGED mail /\ Goto(r, "failed")
  /\ UNCHANGED <<smtp, users, sessions, founder, member, invitation, delivered, bootstrapped>>

upsertFailedMail(r) ==
  /\ request[r].pc = "failed"
  /\ mail' = [mail EXCEPT ![request[r].of] = "failed"]
  /\ Done(r)
  /\ UNCHANGED <<smtp, users, sessions, founder, member, invitation, delivered, bootstrapped,
                 mishaps>>

-----------------------------------------------------------------------------
(* Answers to an invitation *)

\* Mutant: whoever has the link and a session joins.
AnySession(e, i) == sessions[e] > 0
sessionFits(e, i) == getRequestAuthContext(e) /\ e = invitation[i].email

\* The reads of /company-invitations/accept, by a session of the invited email, or by
\* anyone with the link and a password: that of the account, or a new one if there is
\* no account.
startAccept(r, i) ==
  /\ request[r].pc = "idle"
  /\ statusOf(i) = "pending"
  /\ \E pc \in {"accept", "acceptNew", "acceptSession"}, e \in Emails :
       /\ CASE pc = "accept" -> sessionFits(e, i)
            [] pc = "acceptSession" -> e = invitation[i].email /\ getUserByEmail(e)
            [] pc = "acceptNew" -> e = invitation[i].email /\ ~getUserByEmail(e)
       /\ request' = [request EXCEPT ![r] =
            [pc |-> pc, user |-> e, company |-> "none", email |-> "none", role |-> "none",
             of |-> i]]
  /\ UNCHANGED <<smtp, users, sessions, founder, member, invitation, mailVars, bootstrapped,
                 mishaps>>

\* The writes, committed at once.  The status is not looked at again.
acceptCompanyInvitation(r) ==
  LET e == request[r].user
      i == request[r].of
  IN  /\ request[r].pc \in {"accept", "acceptNew", "acceptSession"}
      /\ request[r].pc = "acceptNew" => e \notin users
      /\ request[r].pc # "accept" => sessions[e] < MaxSessions
      /\ users' = users \cup {e}
      /\ sessions' = IF request[r].pc = "accept" THEN sessions
                     ELSE createUserSession(e)
      /\ member' = addCompanyMembership(invitation[i].company, e, invitation[i].role)
      /\ invitation' = [invitation EXCEPT ![i].status = "accepted", ![i].acceptedBy = e]
      /\ Done(r)
      /\ UNCHANGED <<smtp, founder, mailVars, bootstrapped, mishaps>>

startRevoke(r, e, i) ==
  /\ request[r].pc = "idle"
  /\ invitation[i].status # "none"
  /\ requireCompanyAccess(e, invitation[i].company, "admin")
  /\ statusOf(i) = "pending"
  /\ request' = [request EXCEPT ![r] = [Idle EXCEPT !.pc = "revoke", !.of = i]]
  /\ UNCHANGED <<smtp, users, sessions, founder, member, invitation, mailVars, bootstrapped,
                 mishaps>>

revokeCompanyInvitation(r) ==
  /\ request[r].pc = "revoke"
  /\ invitation' = [invitation EXCEPT ![request[r].of].status = "revoked"]
  /\ Done(r)
  /\ UNCHANGED <<smtp, users, sessions, founder, member, mailVars, bootstrapped, mishaps>>

expire(i) ==
  /\ statusOf(i) = "pending"
  /\ Mishap
  /\ invitation' = [invitation EXCEPT ![i].expired = TRUE]
  /\ UNCHANGED <<smtp, users, sessions, founder, member, mailVars, request, bootstrapped>>

\* A request dies, or the database refuses its next statement.
RequestDies(r) ==
  /\ request[r].pc # "idle"
  /\ Mishap
  /\ Done(r)
  /\ UNCHANGED <<smtp, users, sessions, founder, member, invitation, mailVars, bootstrapped>>

IdentityNext ==
  \/ \E r \in Callers :
       \/ \E e \in Emails : startBootstrap(r, e)
       \/ createUser(r)
       \/ createAuthenticatedSession(r)
       \/ \E e, email \in Emails, c \in Companies, role \in InvitedRoles :
            startInvitation(r, e, c, email, role)
       \/ findActiveCompanyInvitationByEmail(r)
       \/ getCompanyMembership(r)
       \/ createCompanyInvitation(r)
       \/ sendInvitationEmail(r)
       \/ sendMail(r)
       \/ upsertSentMail(r)
       \/ upsertFailedMail(r)
       \/ \E i \in Invitations : startAccept(r, i)
       \/ acceptCompanyInvitation(r)
       \/ \E e \in Emails, i \in Invitations : startRevoke(r, e, i)
       \/ revokeCompanyInvitation(r)
       \/ RequestDies(r)
  \/ \E e \in Emails : login(e) \/ logout(e)
  \/ \E c \in Companies, by \in Emails \cup {Internal} : createCompany(c, by)
  \/ \E i \in Invitations : expire(i)

IdentitySpec == IdentityInit /\ [][IdentityNext]_identityVars

-----------------------------------------------------------------------------
(* Properties. *)

Pc == {"idle", "createUser", "createSession", "findPending", "findMember", "insert", "mail",
       "send", "sent", "failed", "accept", "acceptNew", "acceptSession", "revoke"}

InvitationRow ==
  [status : {"none", "pending", "accepted", "revoked"}, company : Companies \cup {"none"},
   email : Emails \cup {"none"}, role : CompanyRole \cup {"none"},
   invitedBy : Emails \cup {"none"}, acceptedBy : Emails \cup {"none"}, expired : BOOLEAN]
Request ==
  [pc : Pc, user : Emails \cup {"none"}, company : Companies \cup {"none"},
   email : Emails \cup {"none"}, role : CompanyRole \cup {"none"},
   of : Invitations \cup {"none"}]

\* Type invariant: a role is one the code has, a request holds what its step reads.
IdentityTypeOK ==
  /\ smtp \in BOOLEAN
  /\ users \subseteq Emails
  /\ bootstrapped \subseteq users
  /\ sessions \in [Emails -> 0..MaxSessions]
  /\ founder \in [Companies -> Emails \cup {Internal, "none"}]
  /\ member \in [Companies -> [Emails -> CompanyRole \cup {"none"}]]
  /\ invitation \in [Invitations -> InvitationRow]
  /\ mail \in [Invitations -> {"none", "queued", "skipped", "sent", "failed"}]
  /\ delivered \subseteq Invitations
  /\ request \in [Callers -> Request]
  /\ mishaps \in 0..MaxMishaps

\* Whoever is in a company created it or took up an invitation sent to the very email
\* of the account, and has the role that invitation offered; whoever has an account was
\* there at the bootstrap or took up an invitation.  Neither a link in other hands nor
\* requests that overlap let anyone else in.
MembersWereInvited ==
  /\ \A c \in Companies, e \in Emails : member[c][e] # "none" =>
       \/ founder[c] = e /\ member[c][e] = "owner"
       \/ \E i \in Invitations :
            /\ invitation[i].company = c
            /\ invitation[i].email = e
            /\ invitation[i].role = member[c][e]
            /\ invitation[i].acceptedBy = e
  /\ \A e \in users \ bootstrapped : \E i \in Invitations : invitation[i].acceptedBy = e

\* Only an owner makes admins, and an owner stays one: an invitation to be an admin is
\* from an account that is the owner to this day, although the role was read several
\* statements before the invitation was stored and an acceptance overwrites whatever role
\* there is.
OnlyOwnersMakeAdmins ==
  \A i \in Invitations : invitation[i].role \in {"admin", "owner"} =>
    /\ invitation[i].role = "admin"
    /\ member[invitation[i].company][invitation[i].invitedBy] = "owner"

\* Whatever requests overlap, expire or die between two statements, roles come about as
\* AccessControl says: an acceptance, which no longer looks at the invitation's status,
\* gives what was offered to whom it was offered, and never demotes the owner.
offerOf(i) ==
  [company |-> invitation[i].company, email |-> invitation[i].email,
   role |-> invitation[i].role]
offersMade == {offerOf(i) : i \in {i \in Invitations : invitation[i].status # "none"}}
Access == INSTANCE AccessControl WITH role <- member, offers <- offersMade
ImplementsAccessControl == Access!Spec

\* The outbox knows of every mail that left, whatever died on the way, and calls no mail
\* sent that did not leave.  (A mail that left may be called failed.)
OutboxIsTruthful ==
  \A i \in Invitations :
    /\ i \in delivered => mail[i] \in {"queued", "sent", "failed"}
    /\ mail[i] = "sent" => i \in delivered
=============================================================================
