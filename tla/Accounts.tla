------------------------------- MODULE Accounts -------------------------------
(***************************************************************************)
(* Accounts and invitations (routers/auth.py, routers/users.py) under        *)
(* concurrent requests, each one transaction of the panel database at read   *)
(* committed: a handler's SELECTs see what is committed when they run, and   *)
(* its writes take effect when get_session commits after it.  The database   *)
(* keeps e-mails unique and the inviter of an invitation existing.           *)
(*                                                                         *)
(* An account or invitation is named by the request that created it.        *)
(***************************************************************************)
EXTENDS FiniteSets, Naturals

CONSTANTS
  Requests,   \* requests, each handled once
  Founders,   \* accounts that may exist at the outset, all administrators
  Emails,
  Mailbox,    \* Mailbox[f]: the e-mail of founder f
  Nothing     \* no account, no invitation

ASSUME FoundersAssumption ==
  /\ Founders \cap Requests = {} /\ Nothing \notin Founders \cup Requests
  /\ Mailbox \in [Founders -> Emails]
  /\ \A f, g \in Founders : Mailbox[f] = Mailbox[g] => f = g

VARIABLES
  users,      \* the accounts that exist
  email,      \* e-mail of each account or invitation
  role,       \* role of each account or invitation
  via,        \* the invitation an account came through
  invites,    \* the invitations that exist
  accepted,   \* those whose accepted_at is set
  expired,    \* those past expires_at
  op, by, obj,\* what a request does, for whom, to what: its arguments
  pc,         \* where it is
  overtaken   \* deletions another deletion committed in front of (history variable)

tables  == <<users, email, role, via, invites, accepted>>
request == <<op, by, obj>>
vars    == <<tables, expired, request, pc, overtaken>>

-----------------------------------------------------------------------------

Ids == Requests \cup Founders
Operations == {"bootstrap", "invite", "register", "delete"}
Roles == {"admin", "user"}

TypeOK ==
  /\ users \subseteq Ids /\ invites \subseteq Requests
  /\ accepted \subseteq Requests /\ expired \subseteq Requests
  /\ email \in [Ids -> Emails] /\ role \in [Ids -> Roles]
  /\ via \in [Ids -> Requests \cup {Nothing}]
  /\ op \in [Requests -> Operations]
  /\ by \in [Requests -> Ids \cup {Nothing}]
  /\ obj \in [Requests -> Ids \cup {Nothing}]
  /\ pc \in [Requests -> {"new", "authorize", "find", "check", "write",
                           "done", "refused", "failed"}]
  /\ overtaken \subseteq Requests

Init ==
  /\ users \in SUBSET Founders
  /\ \E e \in Emails : email = [i \in Ids |-> IF i \in Founders THEN Mailbox[i] ELSE e]
  /\ role = [i \in Ids |-> "admin"]
  /\ via = [i \in Ids |-> Nothing]
  /\ invites = {} /\ accepted = {} /\ expired = {}
  /\ op = [r \in Requests |-> "bootstrap"]
  /\ by = [r \in Requests |-> Nothing] /\ obj = [r \in Requests |-> Nothing]
  /\ pc = [r \in Requests |-> "new"]
  /\ overtaken = {}

Admins  == {u \in users : role[u] = "admin"}
Taken(e) == \E u \in users : email[u] = e

Goto(r, where)     == pc' = [pc EXCEPT ![r] = where]
IfElse(r, ok, where) == Goto(r, IF ok THEN where ELSE "refused")

-----------------------------------------------------------------------------
(* A request arrives: its arguments, and the first thing its handler does.  *)

Arrive(r, o, u, x, where) ==
  /\ pc[r] = "new" /\ Goto(r, where)
  /\ op' = [op EXCEPT ![r] = o] /\ by' = [by EXCEPT ![r] = u] /\ obj' = [obj EXCEPT ![r] = x]
  /\ UNCHANGED <<users, via, invites, accepted, expired, overtaken>>

\* The e-mail of the payload, and the role of an invitation's.
Names(r, e, p) == email' = [email EXCEPT ![r] = e] /\ role' = [role EXCEPT ![r] = p]

Bootstrap(r) ==
  \E e \in Emails : Names(r, e, "admin") /\ Arrive(r, "bootstrap", Nothing, Nothing, "check")

Invite(r) ==
  \E e \in Emails, p \in Roles, u \in users :
    Names(r, e, p) /\ Arrive(r, "invite", u, Nothing, "authorize")

Register(r) ==
  \E e \in Emails, i \in invites :
    Names(r, e, role[i]) /\ Arrive(r, "register", Nothing, i, "find")

Delete(r) ==
  /\ \E u \in users, v \in Ids : Arrive(r, "delete", u, v, "authorize")
  /\ UNCHANGED <<email, role>>

-----------------------------------------------------------------------------
(* What it reads.                                                          *)

reads == <<tables, expired, request, overtaken>>

\* require_admin: the caller's account exists and is an administrator's.
Authorize(r) ==
  /\ pc[r] = "authorize"
  /\ IfElse(r, by[r] \in Admins, IF op[r] = "delete" THEN "find" ELSE "check")
  /\ UNCHANGED reads

\* Mutant of FindInvite: whoever has the link may register any e-mail.
FindAnyInvite(r) ==
  /\ pc[r] = "find" /\ op[r] = "register"
  /\ IfElse(r, obj[r] \notin accepted \cup expired, "check")
  /\ UNCHANGED reads

\* register: the invitation is unused, in time and for this e-mail.
FindInvite(r) ==
  /\ pc[r] = "find" /\ op[r] = "register"
  /\ IfElse(r, obj[r] \notin accepted \cup expired /\ email[obj[r]] = email[r], "check")
  /\ UNCHANGED reads

CheckBootstrap(r) ==
  /\ pc[r] = "check" /\ op[r] = "bootstrap"
  /\ IfElse(r, users = {}, "write")
  /\ UNCHANGED reads

CheckEmail(r) ==
  /\ pc[r] = "check" /\ op[r] \in {"invite", "register"}
  /\ IfElse(r, ~Taken(email[r]), "write")
  /\ UNCHANGED reads

\* Mutant of FindTarget: an account that is found is deleted at once.
FindAndDelete(r) ==
  /\ pc[r] = "find" /\ op[r] = "delete"
  /\ IfElse(r, obj[r] \in users, "write")
  /\ UNCHANGED reads

\* delete_user: not oneself, and someone who exists.
FindTarget(r) ==
  /\ pc[r] = "find" /\ op[r] = "delete"
  /\ IfElse(r, obj[r] # by[r] /\ obj[r] \in users, "check")
  /\ UNCHANGED reads

\* And, if the account found is an administrator's, not the last one.
CheckDelete(r) ==
  /\ pc[r] = "check" /\ op[r] = "delete"
  /\ IfElse(r, role[obj[r]] = "admin" => Cardinality(Admins) > 1, "write")
  /\ UNCHANGED reads

-----------------------------------------------------------------------------
(* What it writes, as its transaction commits.                             *)

Writes(r, o) == pc[r] = "write" /\ op[r] = o

\* bootstrap and register insert the account, unless the e-mail is taken by now.
InsertAccount(r, i) ==
  IF Taken(email[r])
  THEN Goto(r, "failed") /\ UNCHANGED <<users, via>>
  ELSE Goto(r, "done") /\ users' = users \cup {r} /\ via' = [via EXCEPT ![r] = i]

WriteBootstrap(r) ==
  /\ Writes(r, "bootstrap") /\ InsertAccount(r, Nothing)
  /\ UNCHANGED <<email, role, invites, accepted, expired, request, overtaken>>

WriteInvite(r) ==
  /\ Writes(r, "invite")
  /\ IF by[r] \in users
     THEN Goto(r, "done") /\ invites' = invites \cup {r}
     ELSE Goto(r, "failed") /\ UNCHANGED invites
  /\ UNCHANGED <<users, email, role, via, accepted, expired, request, overtaken>>

\* Mutant of WriteRegister: accepted_at is committed on its own.
AcceptThenInsert(r) ==
  /\ Writes(r, "register") /\ InsertAccount(r, obj[r])
  /\ accepted' = accepted \cup {obj[r]}
  /\ UNCHANGED <<email, role, invites, expired, request, overtaken>>

\* The account and accepted_at are flushed and committed together.
WriteRegister(r) ==
  /\ Writes(r, "register") /\ InsertAccount(r, obj[r])
  /\ accepted' = IF Taken(email[r]) THEN accepted ELSE accepted \cup {obj[r]}
  /\ UNCHANGED <<email, role, invites, expired, request, overtaken>>

WriteDelete(r) ==
  /\ Writes(r, "delete") /\ Goto(r, "done")
  /\ users' = users \ {obj[r]}
  /\ overtaken' = overtaken \cup {d \in Requests : op[d] = "delete" /\ pc[d] \in {"find", "check", "write"}}
  /\ UNCHANGED <<email, role, via, invites, accepted, expired, request>>

\* Seven days pass.
Expire ==
  /\ \E i \in invites \ expired : expired' = expired \cup {i}
  /\ UNCHANGED <<tables, request, pc, overtaken>>

Finished ==
  /\ \A r \in Requests : pc[r] \in {"done", "refused", "failed"}
  /\ UNCHANGED vars

Next ==
  \/ Expire \/ Finished
  \/ \E r \in Requests :
       \/ Bootstrap(r) \/ Invite(r) \/ Register(r) \/ Delete(r)
       \/ Authorize(r) \/ FindInvite(r) \/ FindTarget(r)
       \/ CheckBootstrap(r) \/ CheckEmail(r) \/ CheckDelete(r)
       \/ WriteBootstrap(r) \/ WriteInvite(r) \/ WriteRegister(r) \/ WriteDelete(r)

Spec == Init /\ [][Next]_vars

-----------------------------------------------------------------------------
(* Properties.                                                             *)

\* At no time do two accounts exist that came through the same invitation,
\* though nothing locks an invitation while it is being accepted.
OneAccountPerInvite ==
  \A u, v \in users : via[u] = via[v] /\ via[u] # Nothing => u = v

\* An invitation is marked accepted exactly when some registration with it went
\* through: one that lost the race for the e-mail leaves no mark.
AcceptedMeansRegistered ==
  accepted = {obj[r] : r \in {q \in Requests : op[q] = "register" /\ pc[q] = "done"}}

\* The inductive strengthening: whose e-mail and role are settled, what a
\* registration found, and whom a deletion nobody overtook still relies on.
SettledInv ==
  /\ \A r \in Requests : r \in users \cup invites => pc[r] = "done"
  /\ \A u, v \in users : email[u] = email[v] => u = v

PathInv ==
  \A r \in Requests :
    /\ pc[r] = "authorize" => op[r] # "register"
    /\ pc[r] = "find" => op[r] \in {"register", "delete"}

InvitedInv ==
  /\ \A u \in users : via[u] # Nothing => via[u] \in invites /\ email[via[u]] = email[u]
  /\ \A r \in Requests : op[r] = "register" =>
       /\ pc[r] \in {"find", "check", "write"} => obj[r] \in invites
       /\ pc[r] \in {"check", "write"} => email[obj[r]] = email[r]

DeleteInv ==
  \A r \in Requests \ overtaken : op[r] = "delete" =>
    /\ pc[r] \in {"find", "check", "write"} => by[r] \in Admins
    /\ pc[r] \in {"check", "write"} => by[r] # obj[r]

AccountsInv == SettledInv /\ PathInv /\ InvitedInv /\ DeleteInv /\ AcceptedMeansRegistered

\* Types, and what accounts, invitations and the checks made so far have in
\* common (auth.py:72-121, users.py:60-112).
AccountsOK == TypeOK /\ AccountsInv

\* The last administrator is removed only by a deletion that another deletion
\* overtook between its checks and its commit.
LastAdminFallsToRace ==
  [][ (Admins # {} /\ Admins' = {}) =>
        \E r \in overtaken : op[r] = "delete" /\ pc[r] = "write" /\ pc'[r] = "done" ]_vars

\* docs/security.md, line 110: the system refuses to delete the last
\* administrator, so one is left after every deletion.
AnAdminRemains ==
  (\E r \in Requests : op[r] = "delete" /\ pc[r] = "done") => Admins # {}

=============================================================================
