---------------------------- MODULE AccountsProofs ----------------------------
(***************************************************************************)
(* Proofs about accounts and invitations, for any number of concurrent       *)
(* requests, founders and e-mails.                                          *)
(***************************************************************************)
EXTENDS Accounts, TLAPS

\* A request that arrives has neither account nor invitation yet: only its own
\* fields are set.
Arrives(r) ==
  \E o \in Operations, u \in users \cup {Nothing}, x \in Ids \cup {Nothing}, where \in {"authorize", "find", "check"} :
    /\ Arrive(r, o, u, x, where)
    /\ \A i \in Ids \ {r} : email'[i] = email[i] /\ role'[i] = role[i]
    /\ email' \in [Ids -> Emails] /\ role' \in [Ids -> Roles]
    /\ o = "register" => x \in invites /\ where = "find"
    /\ o = "delete" => where = "authorize"
    /\ where = "authorize" => o # "register"
    /\ where = "find" => o = "register"

LEMMA ArrivesFacts ==
  ASSUME TypeOK, NEW r \in Requests, Bootstrap(r) \/ Invite(r) \/ Register(r) \/ Delete(r)
  PROVE  Arrives(r)
<1> DEFINE Named == /\ \A i \in Ids \ {r} : email'[i] = email[i] /\ role'[i] = role[i]
                    /\ email' \in [Ids -> Emails] /\ role' \in [Ids -> Roles]
<1>1. \A e \in Emails, p \in Roles : Names(r, e, p) => Named
  BY DEF Names, TypeOK, Ids
<1>2. CASE Bootstrap(r)
  <2>1. Named /\ Arrive(r, "bootstrap", Nothing, Nothing, "check")
    BY <1>1, <1>2 DEF Bootstrap, Roles
  <2> QED BY <2>1 DEF Arrives, Operations
<1>3. CASE Invite(r)
  <2>1. PICK u \in users : Named /\ Arrive(r, "invite", u, Nothing, "authorize")
    BY <1>1, <1>3 DEF Invite
  <2> QED BY <2>1 DEF Arrives, Operations
<1>4. CASE Register(r)
  <2>1. PICK i \in invites : Named /\ Arrive(r, "register", Nothing, i, "find")
    <3>1. \A i \in invites : role[i] \in Roles
      BY DEF TypeOK, Ids
    <3> QED BY <1>1, <1>4, <3>1 DEF Register
  <2>2. i \in Ids
    BY DEF TypeOK, Ids
  <2> QED BY <2>1, <2>2 DEF Arrives, Operations
<1>5. CASE Delete(r)
  <2>1. Named
    BY <1>5 DEF Delete, TypeOK
  <2>2. PICK u \in users, v \in Ids : Arrive(r, "delete", u, v, "authorize")
    BY <1>5 DEF Delete
  <2> QED BY <2>1, <2>2 DEF Arrives, Operations
<1> QED BY <1>2, <1>3, <1>4, <1>5

\* A request that only reads: it moves on or is refused.
Reads(r) ==
  /\ UNCHANGED reads
  /\ \A q \in Requests \ {r} : pc'[q] = pc[q]
  /\ pc' \in [Requests -> {"new", "authorize", "find", "check", "write", "done", "refused", "failed"}]
  /\ pc[r] \in {"authorize", "find", "check"}
  /\ \/ pc'[r] = "refused"
     \/ pc[r] = "authorize" /\ pc'[r] = "check" /\ op[r] # "delete"
     \/ pc[r] = "authorize" /\ pc'[r] = "find" /\ op[r] = "delete" /\ by[r] \in Admins
     \/ pc[r] = "find" /\ pc'[r] = "check" /\ op[r] = "register" /\ email[obj[r]] = email[r]
     \/ pc[r] = "find" /\ pc'[r] = "check" /\ op[r] = "delete" /\ by[r] # obj[r]
     \/ pc[r] = "check" /\ pc'[r] = "write"

LEMMA ReadsFacts ==
  ASSUME TypeOK, NEW r \in Requests,
         \/ Authorize(r) \/ FindInvite(r) \/ FindTarget(r)
         \/ CheckBootstrap(r) \/ CheckEmail(r) \/ CheckDelete(r)
  PROVE  Reads(r)
<1>1. \A w : Goto(r, w) => /\ \A q \in Requests \ {r} : pc'[q] = pc[q]
                          /\ pc'[r] = w
  BY DEF Goto, TypeOK
<1>2. Goto(r, "find") \/ Goto(r, "check") \/ Goto(r, "write") \/ Goto(r, "refused") =>
        pc' \in [Requests -> {"new", "authorize", "find", "check", "write", "done", "refused", "failed"}]
  BY DEF Goto, TypeOK
<1>3. CASE Authorize(r)
  BY <1>1, <1>2, <1>3 DEF Authorize, IfElse, Reads
<1>4. CASE FindInvite(r) \/ FindTarget(r)
  BY <1>1, <1>2, <1>4 DEF FindInvite, FindTarget, IfElse, Reads
<1>5. CASE CheckBootstrap(r) \/ CheckEmail(r)
  <2>1. UNCHANGED reads /\ pc[r] = "check" /\ op[r] # "delete" /\ (Goto(r, "write") \/ Goto(r, "refused"))
    BY <1>5 DEF CheckBootstrap, CheckEmail, IfElse
  <2> QED BY <1>1, <1>2, <2>1 DEF Reads
<1>6. CASE CheckDelete(r)
  BY <1>1, <1>2, <1>6 DEF CheckDelete, IfElse, Reads
<1> QED BY <1>3, <1>4, <1>5, <1>6

-----------------------------------------------------------------------------

\* An insertion either finds the e-mail taken and changes no account, or adds one.
LEMMA InsertFacts ==
  ASSUME TypeOK, NEW r \in Requests, NEW i \in Requests \cup {Nothing}, InsertAccount(r, i)
  PROVE  /\ \/ /\ Taken(email[r]) /\ pc'[r] = "failed" /\ UNCHANGED <<users, via>>
            \/ /\ ~Taken(email[r]) /\ pc'[r] = "done" /\ users' = users \cup {r}
               /\ via'[r] = i /\ \A u \in Ids \ {r} : via'[u] = via[u]
         /\ \A q \in Requests \ {r} : pc'[q] = pc[q]
         /\ pc' \in [Requests -> {"new", "authorize", "find", "check", "write", "done", "refused", "failed"}]
         /\ via' \in [Ids -> Requests \cup {Nothing}]
<1>1. r \in Ids
  BY DEF Ids
<1> QED BY <1>1 DEF InsertAccount, Goto, TypeOK

LEMMA TypeStep ==
  ASSUME TypeOK, AccountsInv, [Next]_vars
  PROVE  TypeOK'
<1>1. CASE Expire
  BY <1>1 DEF Expire, TypeOK, tables, request
<1>2. CASE Finished \/ UNCHANGED vars
  BY <1>2 DEF Finished, vars, tables, request, TypeOK
<1>3. ASSUME NEW r \in Requests, Bootstrap(r) \/ Invite(r) \/ Register(r) \/ Delete(r) PROVE TypeOK'
  <2>1. Arrives(r)
    BY <1>3, ArrivesFacts
  <2>2. PICK o \in Operations, u \in users \cup {Nothing}, x \in Ids \cup {Nothing},
             where \in {"authorize", "find", "check"} :
          /\ Arrive(r, o, u, x, where)
          /\ email' \in [Ids -> Emails] /\ role' \in [Ids -> Roles]
    BY <2>1 DEF Arrives
  <2>3. u \in Ids \cup {Nothing}
    BY DEF TypeOK
  <2> QED BY <2>2, <2>3 DEF Arrive, Goto, TypeOK
<1>4. ASSUME NEW r \in Requests,
             Authorize(r) \/ FindInvite(r) \/ FindTarget(r) \/ CheckBootstrap(r) \/ CheckEmail(r) \/ CheckDelete(r)
      PROVE  TypeOK'
  <2>1. Reads(r)
    BY <1>4, ReadsFacts
  <2> QED BY <2>1 DEF Reads, reads, tables, request, TypeOK
<1>5. ASSUME NEW r \in Requests, WriteBootstrap(r) PROVE TypeOK'
  BY <1>5, InsertFacts DEF WriteBootstrap, TypeOK, request, Ids
<1>6. ASSUME NEW r \in Requests, WriteInvite(r) PROVE TypeOK'
  BY <1>6 DEF WriteInvite, Goto, TypeOK, request
<1>7. ASSUME NEW r \in Requests, WriteRegister(r) PROVE TypeOK'
  <2>1. obj[r] \in Requests /\ InsertAccount(r, obj[r])
    BY <1>7 DEF WriteRegister, Writes, AccountsInv, InvitedInv, TypeOK
  <2> QED BY <1>7, <2>1, InsertFacts DEF WriteRegister, TypeOK, request, Ids
<1>8. ASSUME NEW r \in Requests, WriteDelete(r) PROVE TypeOK'
  BY <1>8 DEF WriteDelete, Goto, TypeOK, request
<1> QED BY <1>1, <1>2, <1>3, <1>4, <1>5, <1>6, <1>7, <1>8 DEF Next

-----------------------------------------------------------------------------

LEMMA ArrivesStep ==
  ASSUME TypeOK, AccountsInv, NEW r \in Requests, Arrives(r)
  PROVE  AccountsInv'
<1>1. PICK o \in Operations, u \in users \cup {Nothing}, x \in Ids \cup {Nothing},
           where \in {"authorize", "find", "check"} :
        /\ Arrive(r, o, u, x, where)
        /\ \A i \in Ids \ {r} : email'[i] = email[i] /\ role'[i] = role[i]
        /\ o = "register" => x \in invites /\ where = "find"
        /\ o = "delete" => where = "authorize"
        /\ where = "authorize" => o # "register"
        /\ where = "find" => o = "register"
  BY DEF Arrives
<1>2. /\ pc[r] = "new" /\ pc' = [pc EXCEPT ![r] = where] /\ op' = [op EXCEPT ![r] = o]
      /\ by' = [by EXCEPT ![r] = u] /\ obj' = [obj EXCEPT ![r] = x]
      /\ UNCHANGED <<users, via, invites, accepted, expired, overtaken>>
  BY <1>1 DEF Arrive, Goto
<1>3. r \notin users /\ r \notin invites
  BY <1>2 DEF AccountsInv, SettledInv
<1>4. /\ \A i \in users : email'[i] = email[i] /\ role'[i] = role[i]
      /\ \A i \in invites : email'[i] = email[i]
  BY <1>1, <1>3 DEF TypeOK, Ids
<1>5. SettledInv'
  BY <1>2, <1>3, <1>4 DEF AccountsInv, SettledInv, TypeOK
<1>6. InvitedInv'
  <2>1. (\A w \in users : via[w] # Nothing => via[w] \in invites /\ email[via[w]] = email[w])'
    BY <1>2, <1>4 DEF AccountsInv, InvitedInv
  <2>2. \A q \in Requests :
          /\ (op[q] = "register" /\ pc[q] \in {"find", "check", "write"} => obj[q] \in invites)'
          /\ (op[q] = "register" /\ pc[q] \in {"check", "write"} => email[obj[q]] = email[q])'
    <3> TAKE q \in Requests
    <3>1. CASE q = r
      BY <3>1, <1>1, <1>2 DEF TypeOK
    <3>2. CASE q # r
      <4>1. email'[q] = email[q]
        BY <3>2, <1>1 DEF Ids
      <4> QED BY <3>2, <4>1, <1>2, <1>4 DEF TypeOK, AccountsInv, InvitedInv
    <3> QED BY <3>1, <3>2
  <2> QED BY <2>1, <2>2 DEF InvitedInv
<1>7. DeleteInv'
  <2>1. Admins' = Admins
    BY <1>2, <1>4 DEF Admins
  <2> QED BY <2>1, <1>1, <1>2 DEF AccountsInv, DeleteInv, TypeOK
<1>8. AcceptedMeansRegistered'
  BY <1>2 DEF AccountsInv, AcceptedMeansRegistered, TypeOK
<1>9. PathInv'
  BY <1>1, <1>2 DEF AccountsInv, PathInv, TypeOK
<1> QED BY <1>5, <1>6, <1>7, <1>8, <1>9 DEF AccountsInv

LEMMA ReadsStep ==
  ASSUME TypeOK, AccountsInv, NEW r \in Requests, Reads(r)
  PROVE  AccountsInv'
<1>1. /\ UNCHANGED <<users, email, role, via, invites, accepted, expired, op, by, obj, overtaken>>
      /\ Admins' = Admins
  BY DEF Reads, reads, tables, request, Admins
<1>2. SettledInv'
  BY <1>1 DEF Reads, AccountsInv, SettledInv
<1>3. InvitedInv'
  BY <1>1 DEF Reads, AccountsInv, PathInv, InvitedInv
<1>4. DeleteInv' /\ PathInv'
  BY <1>1 DEF Reads, AccountsInv, PathInv, DeleteInv
<1>5. AcceptedMeansRegistered'
  BY <1>1 DEF Reads, AccountsInv, AcceptedMeansRegistered
<1> QED BY <1>2, <1>3, <1>4, <1>5 DEF AccountsInv

LEMMA InsertStep ==
  ASSUME TypeOK, AccountsInv, NEW r \in Requests, WriteBootstrap(r) \/ WriteRegister(r)
  PROVE  AccountsInv'
<1>1. PICK i \in Requests \cup {Nothing} :
        /\ InsertAccount(r, i) /\ pc[r] = "write"
        /\ UNCHANGED <<email, role, invites, expired, op, by, obj, overtaken>>
        /\ \/ op[r] = "bootstrap" /\ i = Nothing /\ UNCHANGED accepted
           \/ /\ op[r] = "register" /\ i = obj[r]
              /\ accepted' = IF Taken(email[r]) THEN accepted ELSE accepted \cup {obj[r]}
  <2>1. CASE WriteBootstrap(r)
    BY <2>1 DEF WriteBootstrap, Writes, request
  <2>2. CASE WriteRegister(r)
    <3>1. obj[r] \in Requests
      BY <2>2 DEF WriteRegister, Writes, AccountsInv, InvitedInv, TypeOK
    <3> QED BY <2>2, <3>1 DEF WriteRegister, Writes, request
  <2> QED BY <2>1, <2>2
<1>2. /\ \/ /\ Taken(email[r]) /\ pc'[r] = "failed" /\ UNCHANGED <<users, via>>
         \/ /\ ~Taken(email[r]) /\ pc'[r] = "done" /\ users' = users \cup {r}
            /\ via'[r] = i /\ \A u \in Ids \ {r} : via'[u] = via[u]
      /\ \A q \in Requests \ {r} : pc'[q] = pc[q]
  BY <1>1, InsertFacts
<1>3. SettledInv'
  BY <1>1, <1>2 DEF AccountsInv, SettledInv, Taken
<1>4. InvitedInv'
  <2>1. \A u \in users' : via'[u] # Nothing => via'[u] \in invites /\ email[via'[u]] = email[u]
    <3> TAKE u \in users'
    <3>1. CASE u \in users /\ u # r
      BY <3>1, <1>2 DEF AccountsInv, InvitedInv, TypeOK
    <3>2. CASE u = r
      BY <3>2, <1>1, <1>2 DEF AccountsInv, InvitedInv, SettledInv
    <3> QED BY <3>1, <3>2, <1>2
  <2> QED BY <2>1, <1>1, <1>2 DEF AccountsInv, InvitedInv
<1>5. DeleteInv'
  <2>1. Admins \subseteq Admins'
    BY <1>1, <1>2 DEF Admins
  <2> QED BY <2>1, <1>1, <1>2 DEF AccountsInv, DeleteInv
<1>6. AcceptedMeansRegistered' /\ PathInv'
  BY <1>1, <1>2 DEF PathInv, AccountsInv, AcceptedMeansRegistered
<1> QED BY <1>3, <1>4, <1>5, <1>6 DEF AccountsInv

LEMMA InviteStep ==
  ASSUME TypeOK, AccountsInv, NEW r \in Requests, WriteInvite(r)
  PROVE  AccountsInv'
<1>1. /\ pc[r] = "write" /\ op[r] = "invite"
      /\ UNCHANGED <<users, email, role, via, accepted, expired, op, by, obj, overtaken>>
      /\ \A q \in Requests \ {r} : pc'[q] = pc[q]
      /\ \/ pc'[r] = "done" /\ invites' = invites \cup {r}
         \/ pc'[r] = "failed" /\ UNCHANGED invites
  BY DEF WriteInvite, Writes, Goto, request, TypeOK
<1>2. Admins' = Admins
  BY <1>1 DEF Admins
<1>3. SettledInv' /\ PathInv'
  BY <1>1 DEF AccountsInv, SettledInv, PathInv
<1>4. InvitedInv' /\ DeleteInv'
  BY <1>1, <1>2 DEF AccountsInv, InvitedInv, DeleteInv
<1>5. AcceptedMeansRegistered'
  BY <1>1 DEF AccountsInv, AcceptedMeansRegistered
<1> QED BY <1>3, <1>4, <1>5 DEF AccountsInv

\* A deletion: whoever had already been authorised is overtaken.
LEMMA DeleteStep ==
  ASSUME TypeOK, AccountsInv, NEW r \in Requests, WriteDelete(r)
  PROVE  AccountsInv'
<1>1. /\ pc[r] = "write" /\ op[r] = "delete" /\ pc'[r] = "done"
      /\ UNCHANGED <<email, role, via, invites, accepted, expired, op, by, obj>>
      /\ \A q \in Requests \ {r} : pc'[q] = pc[q]
      /\ users' = users \ {obj[r]}
      /\ \A q \in Requests : op[q] = "delete" /\ pc[q] \in {"find", "check", "write"} => q \in overtaken'
  BY DEF WriteDelete, Writes, Goto, request, TypeOK
<1>2. SettledInv' /\ PathInv' /\ InvitedInv'
  BY <1>1 DEF AccountsInv, SettledInv, PathInv, InvitedInv
<1>3. DeleteInv'
  BY <1>1 DEF DeleteInv
<1>4. AcceptedMeansRegistered'
  BY <1>1 DEF AccountsInv, AcceptedMeansRegistered
<1> QED BY <1>2, <1>3, <1>4 DEF AccountsInv

-----------------------------------------------------------------------------

LEMMA InvInit == Init => TypeOK /\ AccountsInv
<1> SUFFICES ASSUME Init PROVE TypeOK /\ AccountsInv
  OBVIOUS
<1>1. PICK e \in Emails : email = [i \in Ids |-> IF i \in Founders THEN Mailbox[i] ELSE e]
  BY DEF Init
<1>2. email \in [Ids -> Emails] /\ \A f \in Founders : email[f] = Mailbox[f]
  BY <1>1, FoundersAssumption DEF Ids
<1>3. TypeOK
  BY <1>2 DEF Init, TypeOK, Ids, Roles, Operations
<1>4. SettledInv
  BY <1>2, FoundersAssumption DEF Init, SettledInv
<1>5. PathInv /\ InvitedInv /\ DeleteInv /\ AcceptedMeansRegistered
  BY DEF Init, PathInv, InvitedInv, DeleteInv, AcceptedMeansRegistered, Ids
<1> QED BY <1>3, <1>4, <1>5 DEF AccountsInv

LEMMA InvStep == TypeOK /\ AccountsInv /\ [Next]_vars => (TypeOK /\ AccountsInv)'
<1> SUFFICES ASSUME TypeOK, AccountsInv, [Next]_vars PROVE TypeOK' /\ AccountsInv'
  OBVIOUS
<1>1. CASE Expire \/ Finished \/ UNCHANGED vars
  <2>1. UNCHANGED <<users, email, role, via, invites, accepted, op, by, obj, pc, overtaken>>
    BY <1>1 DEF Expire, Finished, vars, tables, request
  <2>2. AccountsInv'
    BY <2>1 DEF AccountsInv, SettledInv, PathInv, InvitedInv, DeleteInv, AcceptedMeansRegistered, Admins
  <2> QED BY <2>2, TypeStep
<1>2. ASSUME NEW r \in Requests, Bootstrap(r) \/ Invite(r) \/ Register(r) \/ Delete(r)
      PROVE  AccountsInv'
  BY <1>2, ArrivesFacts, ArrivesStep
<1>3. ASSUME NEW r \in Requests,
             Authorize(r) \/ FindInvite(r) \/ FindTarget(r) \/ CheckBootstrap(r) \/ CheckEmail(r) \/ CheckDelete(r)
      PROVE  AccountsInv'
  BY <1>3, ReadsFacts, ReadsStep
<1>4. ASSUME NEW r \in Requests,
             WriteBootstrap(r) \/ WriteRegister(r) \/ WriteInvite(r) \/ WriteDelete(r)
      PROVE  AccountsInv'
  BY <1>4, InsertStep, InviteStep, DeleteStep
<1> QED BY <1>1, <1>2, <1>3, <1>4, TypeStep DEF Next

\* Type correctness, and the inductive invariant.
THEOREM TypeAndAccounts == Spec => [](TypeOK /\ AccountsInv)
BY InvInit, InvStep, PTL DEF Spec

\* One invitation never has two living accounts: they would share its e-mail
\* (auth.py, register).
THEOREM OneLivingAccount == Spec => []OneAccountPerInvite
<1>1. AccountsInv => OneAccountPerInvite
  BY DEF AccountsInv, SettledInv, InvitedInv, OneAccountPerInvite
<1> QED BY <1>1, TypeAndAccounts, PTL

\* accepted_at is set by exactly the registrations that went through.
THEOREM AcceptedIsTrue == Spec => []AcceptedMeansRegistered
BY TypeAndAccounts, PTL DEF AccountsInv

\* The administrators can only be lost to a race of two deletions: the checks of
\* delete_user suffice whenever deletions do not overlap (users.py).
THEOREM OnlyRacesLoseAdmins == Spec => LastAdminFallsToRace
<1> DEFINE Falls == (Admins # {} /\ Admins' = {}) =>
             \E r \in overtaken : op[r] = "delete" /\ pc[r] = "write" /\ pc'[r] = "done"
<1>1. TypeOK /\ AccountsInv /\ [Next]_vars => [Falls]_vars
  <2> SUFFICES ASSUME TypeOK, AccountsInv, Next, Admins # {}, Admins' = {}
               PROVE  \E r \in overtaken : op[r] = "delete" /\ pc[r] = "write" /\ pc'[r] = "done"
    OBVIOUS
  <2>1. CASE Expire \/ Finished
    BY <2>1 DEF Expire, Finished, vars, tables, Admins
  <2>2. ASSUME NEW r \in Requests, Bootstrap(r) \/ Invite(r) \/ Register(r) \/ Delete(r)
        PROVE  FALSE
    <3>1. Arrives(r)
      BY <2>2, ArrivesFacts
    <3>2. UNCHANGED users /\ r \notin users /\ \A i \in Ids \ {r} : role'[i] = role[i]
      BY <3>1 DEF Arrives, Arrive, AccountsInv, SettledInv
    <3> QED BY <3>2 DEF Admins, TypeOK
  <2>3. ASSUME NEW r \in Requests,
               Authorize(r) \/ FindInvite(r) \/ FindTarget(r) \/ CheckBootstrap(r) \/ CheckEmail(r) \/ CheckDelete(r)
        PROVE  FALSE
    BY <2>3, ReadsFacts DEF Reads, reads, tables, Admins
  <2>4. ASSUME NEW r \in Requests, WriteBootstrap(r) \/ WriteRegister(r) \/ WriteInvite(r)
        PROVE  FALSE
    <3>1. users \subseteq users' /\ UNCHANGED role
      BY <2>4 DEF WriteBootstrap, WriteRegister, WriteInvite, InsertAccount
    <3> QED BY <3>1 DEF Admins
  <2>5. ASSUME NEW r \in Requests, WriteDelete(r)
        PROVE  r \in overtaken /\ op[r] = "delete" /\ pc[r] = "write" /\ pc'[r] = "done"
    <3>1. /\ op[r] = "delete" /\ pc[r] = "write" /\ pc'[r] = "done"
          /\ users' = users \ {obj[r]} /\ UNCHANGED role
      BY <2>5 DEF WriteDelete, Writes, Goto, TypeOK
    <3>2. r \notin overtaken => by[r] \in Admins /\ by[r] # obj[r]
      BY <3>1 DEF AccountsInv, DeleteInv
    <3> QED BY <3>1, <3>2 DEF Admins
  <2> QED BY <2>1, <2>2, <2>3, <2>4, <2>5 DEF Next
<1>2. Spec => [][Falls]_vars
  BY <1>1, TypeAndAccounts, PTL DEF Spec
<1> QED BY <1>2 DEF LastAdminFallsToRace

\* Types and the inductive invariant of accounts and invitations.
THEOREM AccountsAreSound == Spec => []AccountsOK
BY TypeAndAccounts, PTL DEF AccountsOK

=============================================================================
