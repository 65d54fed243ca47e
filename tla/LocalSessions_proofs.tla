------------------------- MODULE LocalSessions_proofs -------------------------
(***************************************************************************)
(* Safety of LocalAccounts and LocalSessions, and the refinement of        *)
(* AbstractSessions, for every set of users, passwords and sessions and    *)
(* all lifetimes and bounds; in a second part, safety of PasswordThrottle. *)
(***************************************************************************)
EXTENDS LocalSessions, PasswordThrottle, FiniteSetTheorems, TLAPS

(* The calls that administrators ask for.                                   *)
Asked == createCalls \cup disableCalls \cup resetCalls

(* The entries about a revision of a user, or of a credential.              *)
userEntries(entries, u, r) ==
    {e \in entries : e.user = u /\ e.revision = r /\ e.op # "rehash"}

credentialEntries(entries, u, r) ==
    {e \in entries : e.user = u /\ e.credential = r /\ e.op # "disable"}

(* No entry is ahead of the revision it is about, and there is one for each.*)
TrailIsExact ==
    /\ \A e \in trail : /\ e.revision <= users[e.user].revision
                        /\ e.credential <= credentials[e.user].revision
    /\ \A u \in Users :
          /\ \A r \in 1..users[u].revision : \E e : userEntries(trail, u, r) = {e}
          /\ \A r \in 1..credentials[u].revision : \E e : credentialEntries(trail, u, r) = {e}

Rows == AccountsTypeOK /\ AdministratorRemains /\ TrailIsExact

AccountsIInv == Rows /\ prepared \subseteq Asked

-----------------------------------------------------------------------------
(* Accounts.                                                                *)

LEMMA CallsAreTyped == Asked \subseteq Call
  BY AccountsAssumption DEF Asked, createCalls, disableCalls, resetCalls, Call

(* One entry for one more revision of user, credential or both.             *)
LEMMA TrailGrows ==
    ASSUME AccountsTypeOK, AccountsTypeOK', TrailIsExact,
           NEW op \in {"create", "disable", "reset", "change", "rehash"},
           NEW u \in Users,
           recorded(op, u),
           \A v \in Users \ {u} : users'[v] = users[v] /\ credentials'[v] = credentials[v],
           users'[u].revision =
              IF op = "rehash" THEN users[u].revision ELSE users[u].revision + 1,
           credentials'[u].revision =
              IF op = "disable" THEN credentials[u].revision ELSE credentials[u].revision + 1
    PROVE  TrailIsExact'
  <1> DEFINE new == [op |-> op, user |-> u, revision |-> users'[u].revision,
                     credential |-> credentials'[u].revision]
  <1>1. trail' = trail \cup {new}
    BY DEF recorded
  <1>2. \A v \in Users : /\ users[v].revision \in Nat /\ users'[v].revision \in Nat
                         /\ credentials[v].revision \in Nat /\ credentials'[v].revision \in Nat
    BY AccountsAssumption DEF AccountsTypeOK, UserType, CredentialType
  <1>3. \A e \in trail : e.user \in Users /\ e.revision \in Nat /\ e.credential \in Nat
    BY AccountsAssumption DEF AccountsTypeOK, Entry
  <1>4. \A v \in Users : /\ users[v].revision <= users'[v].revision
                         /\ credentials[v].revision <= credentials'[v].revision
    BY <1>2
  <1>5. \A e \in trail' : /\ e.revision <= users'[e.user].revision
                          /\ e.credential <= credentials'[e.user].revision
    <2>1. ASSUME NEW e \in trail
          PROVE  /\ e.revision <= users'[e.user].revision
                 /\ e.credential <= credentials'[e.user].revision
      BY <1>2, <1>3, <1>4 DEF TrailIsExact
    <2>2. /\ new.revision <= users'[new.user].revision
          /\ new.credential <= credentials'[new.user].revision
      BY <1>2
    <2> QED
      BY <1>1, <2>1, <2>2
  <1>6. ASSUME NEW v \in Users, NEW r \in 1..users'[v].revision
        PROVE  \E e : userEntries(trail', v, r) = {e}
    <2>1. CASE v = u /\ op # "rehash" /\ r = users'[u].revision
      <3>1. userEntries(trail, u, r) = {}
        BY <1>2, <1>3, <2>1 DEF TrailIsExact, userEntries
      <3>2. userEntries(trail', u, r) = {new}
        BY <1>1, <2>1, <3>1 DEF userEntries
      <3> QED
        BY <2>1, <3>2
    <2>2. CASE ~(v = u /\ op # "rehash" /\ r = users'[u].revision)
      <3>1. r \in 1..users[v].revision
        BY <1>2, <2>2
      <3>2. userEntries(trail', v, r) = userEntries(trail, v, r)
        BY <1>1, <2>2 DEF userEntries
      <3>3. \E e : userEntries(trail, v, r) = {e}
        BY <3>1 DEF TrailIsExact
      <3> QED
        BY <3>2, <3>3
    <2> QED
      BY <2>1, <2>2
  <1>7. ASSUME NEW v \in Users, NEW r \in 1..credentials'[v].revision
        PROVE  \E e : credentialEntries(trail', v, r) = {e}
    <2>1. CASE v = u /\ op # "disable" /\ r = credentials'[u].revision
      <3>1. credentialEntries(trail, u, r) = {}
        BY <1>2, <1>3, <2>1 DEF TrailIsExact, credentialEntries
      <3>2. credentialEntries(trail', u, r) = {new}
        BY <1>1, <2>1, <3>1 DEF credentialEntries
      <3> QED
        BY <2>1, <3>2
    <2>2. CASE ~(v = u /\ op # "disable" /\ r = credentials'[u].revision)
      <3>1. r \in 1..credentials[v].revision
        BY <1>2, <2>2
      <3>2. credentialEntries(trail', v, r) = credentialEntries(trail, v, r)
        BY <1>1, <2>2 DEF credentialEntries
      <3>3. \E e : credentialEntries(trail, v, r) = {e}
        BY <3>1 DEF TrailIsExact
      <3> QED
        BY <3>2, <3>3
    <2> QED
      BY <2>1, <2>2
  <1> QED
    BY <1>5, <1>6, <1>7 DEF TrailIsExact

(* The entries of the audit stay exact when nothing changes.                *)
LEMMA RowsUnchanged ==
    ASSUME Rows, UNCHANGED <<users, credentials, trail>>,
           organization' \in {"active", "disabled"}, prepared' \subseteq Call
    PROVE  Rows'
  <1>1. AccountsTypeOK'
    BY DEF Rows, AccountsTypeOK
  <1>2. AdministratorRemains'
    BY DEF Rows, AdministratorRemains, active
  <1>3. TrailIsExact'
    BY DEF Rows, TrailIsExact
  <1> QED
    BY <1>1, <1>2, <1>3 DEF Rows

(* A row of the user and one of the credential, each of the next revision.  *)
LEMMA BothWritten ==
    ASSUME Rows, NEW op \in {"create", "reset", "change"}, NEW u \in Users,
           NEW password \in Passwords,
           users[u].status \in {"absent", "active"},
           users[u].revision < MaxRevision, credentials[u].revision < MaxRevision,
           users' = [users EXCEPT ![u] = [status |-> "active", revision |-> users[u].revision + 1]],
           credentials' = [credentials EXCEPT ![u] = stored(u, password)],
           recorded(op, u),
           organization' = organization, prepared' \subseteq prepared
    PROVE  Rows'
  <1> USE AccountsAssumption DEF Rows
  <1>1. /\ users[u].revision \in 0..MaxRevision /\ credentials[u].revision \in 0..MaxRevision
        /\ users'[u].revision = users[u].revision + 1
        /\ credentials'[u].revision = credentials[u].revision + 1
    BY DEF AccountsTypeOK, UserType, CredentialType, stored
  <1>2. users' \in [Users -> UserType]
    BY <1>1 DEF AccountsTypeOK, UserType
  <1>3. credentials' \in [Users -> CredentialType]
    BY <1>1 DEF AccountsTypeOK, CredentialType, stored
  <1>4. trail' \subseteq Entry
    BY <1>1 DEF AccountsTypeOK, Entry, recorded
  <1>5. AccountsTypeOK'
    BY <1>1, <1>2, <1>3, <1>4 DEF AccountsTypeOK, stored
  <1>6. AdministratorRemains'
    BY <1>1 DEF AdministratorRemains, active, AccountsTypeOK
  <1>7. TrailIsExact'
    BY <1>1, <1>5, TrailGrows DEF AccountsTypeOK
  <1> QED
    BY <1>5, <1>6, <1>7

LEMMA CreatedKeepsRows ==
    ASSUME Rows, NEW call \in createCalls, created(call),
           organization' = organization, prepared' \subseteq prepared
    PROVE  Rows'
  <1> DEFINE u == call.user
  <1>1. u \in Users /\ call.password \in Passwords
    BY DEF createCalls
  <1>2. users[u].status = "absent" /\ users[u].revision = 0 /\ credentials[u].revision = 0
    BY <1>1 DEF created, Rows, AccountsTypeOK, NoUser, CredentialType
  <1>3. users' = [users EXCEPT ![u] = [status |-> "active", revision |-> users[u].revision + 1]]
    BY <1>2 DEF created
  <1>4. /\ credentials' = [credentials EXCEPT ![u] = stored(u, call.password)]
        /\ recorded("create", u)
    BY DEF created
  <1>5. users[u].status \in {"absent", "active"}
    BY <1>2
  <1>6. users[u].revision < MaxRevision /\ credentials[u].revision < MaxRevision
    BY <1>2, AccountsAssumption
  <1> HIDE DEF u
  <1> QED
    BY <1>1, <1>3, <1>4, <1>5, <1>6, BothWritten

LEMMA ResetKeepsRows ==
    ASSUME Rows, NEW call \in resetCalls, reset(call),
           organization' = organization, prepared' \subseteq prepared
    PROVE  Rows'
  <1> DEFINE u == call.user
  <1>1. /\ u \in Users /\ call.password \in Passwords
        /\ active(u) /\ users[u].revision < MaxRevision
        /\ credentials[u].revision < MaxRevision
    BY DEF resetCalls, reset, current, matches
  <1>2. users' = [users EXCEPT ![u] = [status |-> "active", revision |-> users[u].revision + 1]]
    <2>1. users' = [users EXCEPT ![u].revision = call.revision + 1]
      BY DEF reset
    <2>2. call.revision = users[u].revision
      BY DEF reset, current
    <2>3. users[u] \in UserType
      BY <1>1 DEF Rows, AccountsTypeOK
    <2>4. [users[u] EXCEPT !.revision = call.revision + 1]
             = [status |-> "active", revision |-> users[u].revision + 1]
      BY <1>1, <2>2, <2>3 DEF UserType, active
    <2> QED
      BY <2>1, <2>4
  <1>3. /\ credentials' = [credentials EXCEPT ![u] = stored(u, call.password)]
        /\ recorded("reset", u)
    BY DEF reset
  <1> HIDE DEF u
  <1> QED
    BY <1>1, <1>2, <1>3, BothWritten DEF active

(* When the last administrator is spared, another one is left.              *)
LEMMA DisabledKeepsRows ==
    ASSUME Rows, NEW call \in disableCalls, disabled(call),
           organization' = organization, prepared' \subseteq prepared
    PROVE  Rows'
  <1> USE AccountsAssumption DEF Rows
  <1> DEFINE u == call.user
  <1>1. /\ u \in Users /\ active(u)
        /\ users[u].revision \in 0..MaxRevision /\ users[u].revision < MaxRevision
        /\ users'[u].revision = users[u].revision + 1
        /\ users' = [users EXCEPT ![u] = [status |-> "disabled", revision |-> users[u].revision + 1]]
        /\ credentials' = credentials
    BY DEF disabled, current, disableCalls, AccountsTypeOK, UserType
  <1>2. users' \in [Users -> UserType]
    BY <1>1 DEF AccountsTypeOK, UserType
  <1>3. trail' \subseteq Entry
    BY <1>1 DEF AccountsTypeOK, Entry, recorded, disabled, CredentialType
  <1>4. AccountsTypeOK'
    BY <1>1, <1>2, <1>3 DEF AccountsTypeOK
  <1>5. AdministratorRemains'
    <2>1. PICK v \in administrators : v # u
      <3>1. CASE u \in administrators
        <4>1. ~(Cardinality(administrators) <= 1)
          BY <3>1 DEF disabled, isLastAdministrator
        <4>2. Cardinality({u}) = 1
          BY FS_Singleton
        <4>3. administrators # {u}
          BY <4>1, <4>2
        <4> QED
          BY <3>1, <4>3
      <3>2. CASE u \notin administrators
        BY <3>2 DEF AdministratorRemains, administrators, active
      <3> QED
        BY <3>1, <3>2
    <2> QED
      BY <1>1, <2>1 DEF AdministratorRemains, administrators, active, AccountsTypeOK, SystemAdministrators
  <1>6. TrailIsExact'
    BY <1>1, <1>4, TrailGrows DEF AccountsTypeOK, disabled
  <1> QED
    BY <1>4, <1>5, <1>6

(* Only the row of the credential is written.                               *)
LEMMA RehashedKeepsRows ==
    ASSUME Rows, NEW u \in Users, credentials[u].revision > 0, users' = users, rehashed(u),
           organization' = organization, prepared' = prepared
    PROVE  Rows'
  <1> USE AccountsAssumption DEF Rows
  <1>1. CASE ~credentials[u].retired
    BY <1>1, RowsUnchanged DEF rehashed, AccountsTypeOK
  <1>2. CASE credentials[u].retired
    <2>1. /\ credentials[u].revision \in 0..MaxRevision /\ credentials[u].revision < MaxRevision
          /\ credentials'[u].revision = credentials[u].revision + 1
          /\ credentials' = [credentials EXCEPT ![u] = stored(u, credentials[u].password)]
          /\ recorded("rehash", u)
      BY <1>2 DEF rehashed, matches, stored, AccountsTypeOK, CredentialType
    <2>2. credentials' \in [Users -> CredentialType]
      BY <2>1 DEF AccountsTypeOK, CredentialType, stored
    <2>3. trail' \subseteq Entry
      BY <2>1 DEF AccountsTypeOK, Entry, recorded, UserType
    <2>4. AccountsTypeOK'
      BY <2>1, <2>2, <2>3 DEF AccountsTypeOK, stored
    <2>5. AdministratorRemains'
      BY DEF AdministratorRemains, active
    <2>6. TrailIsExact'
      BY <2>1, <2>4, TrailGrows DEF AccountsTypeOK
    <2> QED
      BY <2>4, <2>5, <2>6
  <1> QED
    BY <1>1, <1>2

(* A call of either kind keeps the rows in order.                           *)
LEMMA CallKeepsRows ==
    ASSUME Rows, NEW call \in Asked, created(call) \/ disabled(call) \/ reset(call),
           organization' = organization, prepared' \subseteq prepared
    PROVE  Rows'
  <1>1. CASE created(call)
    <2>1. call \in createCalls
      BY <1>1 DEF created, Asked, createCalls, disableCalls, resetCalls
    <2> QED
      BY <1>1, <2>1, CreatedKeepsRows
  <1>2. CASE disabled(call)
    <2>1. call \in disableCalls
      BY <1>2 DEF disabled, Asked, createCalls, disableCalls, resetCalls
    <2> QED
      BY <1>2, <2>1, DisabledKeepsRows
  <1>3. CASE reset(call)
    <2>1. call \in resetCalls
      BY <1>3 DEF reset, Asked, createCalls, disableCalls, resetCalls
    <2> QED
      BY <1>3, <2>1, ResetKeepsRows
  <1> QED
    BY <1>1, <1>2, <1>3

LEMMA AccountsStart == AccountsInit => AccountsIInv
  <1> SUFFICES ASSUME AccountsInit PROVE AccountsIInv
    OBVIOUS
  <1> USE AccountsAssumption DEF AccountsInit
  <1>1. /\ users \in [Users -> UserType] /\ credentials \in [Users -> CredentialType]
        /\ trail \subseteq Entry /\ prepared = {} /\ organization = "active"
    BY DEF UserType, CredentialType, Entry, NoUser, NoCredential, SystemAdministrators
  <1>2. \A u \in Users :
          /\ users[u].revision = 0 <=> users[u].status = "absent"
          /\ credentials[u].revision = 0 <=> credentials[u].password = NoPassword
          /\ credentials[u].revision > 0 => users[u].status # "absent"
    BY DEF NoUser, NoCredential
  <1>3. AccountsTypeOK
    BY <1>1, <1>2 DEF AccountsTypeOK
  <1>4. AdministratorRemains
    BY DEF AdministratorRemains, active, SystemAdministrators
  <1>5. \A e \in trail : /\ e.revision <= users[e.user].revision
                         /\ e.credential <= credentials[e.user].revision
    BY DEF SystemAdministrators
  <1>6. ASSUME NEW u \in Users, NEW r \in 1..users[u].revision
        PROVE  \E e : userEntries(trail, u, r) = {e}
    <2>1. u \in SystemAdministrators /\ r = 1
      BY <1>6 DEF NoUser
    <2>2. userEntries(trail, u, r)
            = {[op |-> "create", user |-> u, revision |-> 1, credential |-> 1]}
      BY <2>1 DEF userEntries
    <2> QED
      BY <2>2
  <1>7. ASSUME NEW u \in Users, NEW r \in 1..credentials[u].revision
        PROVE  \E e : credentialEntries(trail, u, r) = {e}
    <2>1. u \in SystemAdministrators /\ r = 1
      BY <1>7 DEF NoCredential
    <2>2. credentialEntries(trail, u, r)
            = {[op |-> "create", user |-> u, revision |-> 1, credential |-> 1]}
      BY <2>1 DEF credentialEntries
    <2> QED
      BY <2>2
  <1> QED
    BY <1>1, <1>3, <1>4, <1>5, <1>6, <1>7 DEF AccountsIInv, Rows, TrailIsExact

(* The administrators' calls, with guards that are stale when they commit.  *)
LEMMA AdministratorsKeep ==
    ASSUME AccountsIInv, [AdministratorStep]_accountVars PROVE AccountsIInv'
  <1>1. Rows /\ prepared \subseteq Asked /\ organization \in {"active", "disabled"}
    BY DEF AccountsIInv, Rows, AccountsTypeOK
  <1>2. ASSUME NEW call \in Asked, Prepare(call) PROVE AccountsIInv'
    <2>1. prepared' \subseteq Asked
      BY <1>1, <1>2 DEF Prepare
    <2>2. UNCHANGED <<users, credentials, trail, organization>>
      BY <1>2 DEF Prepare
    <2> QED
      BY <1>1, <2>1, <2>2, CallsAreTyped, RowsUnchanged DEF AccountsIInv
  <1>3. ASSUME NEW call \in prepared, CarryOut(call) PROVE AccountsIInv'
    <2>1. /\ created(call) \/ disabled(call) \/ reset(call)
          /\ organization' = organization
          /\ prepared' \subseteq prepared
      BY <1>3 DEF CarryOut
    <2>2. call \in Asked
      BY <1>1
    <2>3. Rows'
      BY <1>1, <2>1, <2>2, CallKeepsRows
    <2> QED
      BY <1>1, <2>1, <2>3 DEF AccountsIInv
  <1>4. ASSUME NEW call \in prepared, Refuse(call) PROVE AccountsIInv'
    <2>1. prepared' \subseteq Asked /\ UNCHANGED <<users, credentials, trail, organization>>
      BY <1>1, <1>4 DEF Refuse
    <2> QED
      BY <1>1, <2>1, CallsAreTyped, RowsUnchanged DEF AccountsIInv
  <1>5. ASSUME DisableOrganization PROVE AccountsIInv'
    <2>1. organization' = "disabled" /\ UNCHANGED <<users, credentials, trail, prepared>>
      BY <1>5 DEF DisableOrganization
    <2> QED
      BY <1>1, <2>1, CallsAreTyped, RowsUnchanged DEF AccountsIInv
  <1>6. ASSUME UNCHANGED accountVars PROVE AccountsIInv'
    <2>1. UNCHANGED <<users, credentials, trail, prepared, organization>>
      BY <1>6 DEF accountVars
    <2> QED
      BY <1>1, <2>1, CallsAreTyped, RowsUnchanged DEF AccountsIInv
  <1> QED
    BY <1>2, <1>3, <1>4, <1>5, <1>6 DEF AdministratorStep, Asked

(* The exact trail is what the audit is for.                                *)
LEMMA AccountsIInvImplies == AccountsIInv => AccountsInvariant
  <1> SUFFICES ASSUME AccountsIInv PROVE EveryRevisionAccounted
    BY DEF AccountsIInv, Rows, AccountsInvariant
  <1>1. ASSUME NEW u \in Users, NEW r \in 1..users[u].revision
        PROVE  Cardinality(userEntries(trail, u, r)) = 1
    <2>1. PICK e : userEntries(trail, u, r) = {e}
      BY DEF AccountsIInv, Rows, TrailIsExact
    <2> QED
      BY <2>1, FS_Singleton
  <1>2. ASSUME NEW u \in Users, NEW r \in 1..credentials[u].revision
        PROVE  Cardinality(credentialEntries(trail, u, r)) = 1
    <2>1. PICK e : credentialEntries(trail, u, r) = {e}
      BY DEF AccountsIInv, Rows, TrailIsExact
    <2> QED
      BY <2>1, FS_Singleton
  <1> QED
    BY <1>1, <1>2 DEF EveryRevisionAccounted, userEntries, credentialEntries

(* AccountsInvariant, with administrators whose guards were asked long ago. *)
THEOREM AdministratorsKeepAccounts == AccountsSpec => []AccountsInvariant
  <1>1. AccountsInit => AccountsIInv
    BY AccountsStart
  <1>2. AccountsIInv /\ [AdministratorStep]_accountVars => AccountsIInv'
    BY AdministratorsKeep
  <1> QED
    BY <1>1, <1>2, AccountsIInvImplies, PTL DEF AccountsSpec

-----------------------------------------------------------------------------
(* Accounts, under logins and changes of password, too.                     *)

LEMMA ChangedKeepsRows ==
    ASSUME Rows, NEW s \in Sessions, NEW u \in Users, NEW r \in 1..MaxRevision,
           NEW c \in 1..MaxRevision, NEW p \in Passwords, NEW new \in Passwords,
           ChangePassword(s, u, r, c, p, new)
    PROVE  Rows'
  <1>1. /\ active(u) /\ users[u].revision = r /\ r < MaxRevision
        /\ credentials[u].revision < MaxRevision
    BY DEF ChangePassword, verifies, matches
  <1>2. users' = [users EXCEPT ![u] = [status |-> "active", revision |-> users[u].revision + 1]]
    <2>1. users' = [users EXCEPT ![u].revision = r + 1]
      BY DEF ChangePassword
    <2>2. users[u] \in UserType
      BY <1>1 DEF Rows, AccountsTypeOK
    <2>3. [users[u] EXCEPT !.revision = r + 1]
             = [status |-> "active", revision |-> users[u].revision + 1]
      BY <1>1, <2>2 DEF UserType, active
    <2> QED
      BY <2>1, <2>3
  <1>3. /\ credentials' = [credentials EXCEPT ![u] = stored(u, new)]
        /\ recorded("change", u)
        /\ organization' = organization
        /\ prepared' \subseteq prepared
    BY DEF ChangePassword
  <1> QED
    BY <1>1, <1>2, <1>3, BothWritten DEF active

LEMMA AdministratedKeepsRows == Rows /\ Administrate => Rows'
  <1> SUFFICES ASSUME Rows, Administrate PROVE Rows'
    OBVIOUS
  <1>1. PICK call \in Asked : created(call) \/ disabled(call) \/ reset(call)
    BY DEF Administrate, Asked
  <1>2. organization' = organization /\ prepared' \subseteq prepared
    BY DEF Administrate
  <1> QED
    BY <1>1, <1>2, CallKeepsRows

LEMMA LoginKeepsRows ==
    ASSUME Rows, NEW s \in Sessions, NEW u \in Users, NEW p \in Passwords, Login(s, u, p)
    PROVE  Rows'
  <1>1. /\ credentials[u].revision > 0 /\ users' = users /\ rehashed(u)
        /\ organization' = organization /\ prepared' = prepared
    BY DEF Login, verifies
  <1> QED
    BY <1>1, RehashedKeepsRows

LEMMA SessionsKeepAccounts == AccountsIInv /\ [Next]_vars => AccountsIInv'
  <1> SUFFICES ASSUME AccountsIInv, [Next]_vars PROVE AccountsIInv'
    OBVIOUS
  <1>1. Rows /\ prepared \subseteq Asked /\ organization \in {"active", "disabled"}
    BY DEF AccountsIInv, Rows, AccountsTypeOK
  <1>2. CASE Administrate
    BY <1>1, <1>2, AdministratedKeepsRows DEF Administrate, AccountsIInv
  <1>3. ASSUME NEW s \in Sessions, NEW u \in Users, NEW p \in Passwords, Login(s, u, p)
        PROVE  AccountsIInv'
    BY <1>1, <1>3, LoginKeepsRows DEF Login, AccountsIInv
  <1>4. ASSUME NEW s \in Sessions, NEW u \in Users, NEW r \in 1..MaxRevision,
               NEW c \in 1..MaxRevision, NEW p \in Passwords, NEW new \in Passwords,
               ChangePassword(s, u, r, c, p, new)
        PROVE  AccountsIInv'
    BY <1>1, <1>4, ChangedKeepsRows DEF ChangePassword, AccountsIInv
  <1>5. CASE DisableOrganization \/ UNCHANGED accountVars
    <2>1. [AdministratorStep]_accountVars
      BY <1>5 DEF AdministratorStep
    <2> QED
      BY <2>1, AdministratorsKeep
  <1>6. CASE \/ \E s \in Sessions : VerifySession(s)
             \/ \E i \in issuing : Sign(i)
             \/ \E s \in Sessions, expected \in 1..2 : Logout(s, expected)
             \/ Tick
             \/ UNCHANGED vars
    <2>1. UNCHANGED accountVars
      BY <1>6 DEF VerifySession, Sign, Logout, Tick, vars
    <2> QED
      BY <2>1, <1>5
  <1> QED
    BY <1>2, <1>3, <1>4, <1>5, <1>6 DEF Next

(* AccountsInvariant, with logins, rehashes and changes of password.        *)
THEOREM SessionsKeepTheAccounts == Spec => []AccountsInvariant
  <1>1. Init => AccountsIInv
    BY AccountsStart DEF Init
  <1>2. AccountsIInv /\ [Next]_vars => AccountsIInv'
    BY SessionsKeepAccounts
  <1> QED
    BY <1>1, <1>2, AccountsIInvImplies, PTL DEF Spec

-----------------------------------------------------------------------------
(* What a step can do to a member.                                          *)

(* Nobody is forgotten, a credential changes by a later revision alone, and *)
(* nothing happens to who is disabled.                                      *)
MembersForward ==
    \A v \in Users :
        /\ users[v].status # "absent" => users'[v].status # "absent"
        /\ credentials'[v] # credentials[v]
              => credentials'[v].revision > credentials[v].revision
        /\ users[v].status = "disabled" => users'[v] = users[v] /\ credentials'[v] = credentials[v]

LEMMA WrittenForward ==
    ASSUME Rows, NEW u \in Users, users[u].status # "disabled",
           users'[u].status # "absent",
           credentials'[u] # credentials[u]
              => credentials'[u].revision = credentials[u].revision + 1,
           \A v \in Users \ {u} : users'[v] = users[v] /\ credentials'[v] = credentials[v]
    PROVE  MembersForward
  <1>1. credentials[u].revision \in Nat
    BY DEF Rows, AccountsTypeOK, CredentialType
  <1> QED
    BY <1>1 DEF MembersForward

LEMMA CallForward ==
    ASSUME Rows, NEW call \in Asked, created(call) \/ disabled(call) \/ reset(call)
    PROVE  MembersForward
  <1> DEFINE u == call.user
  <1>1. u \in Users
    BY DEF Asked, createCalls, disableCalls, resetCalls
  <1>2. users[u] \in UserType /\ credentials[u] \in CredentialType
    BY <1>1 DEF Rows, AccountsTypeOK
  <1>3. \A v \in Users \ {u} : users'[v] = users[v] /\ credentials'[v] = credentials[v]
    BY <1>1 DEF created, disabled, reset, Rows, AccountsTypeOK
  <1>4. credentials'[u] # credentials[u] => credentials'[u].revision = credentials[u].revision + 1
    BY <1>1 DEF created, disabled, reset, stored, Rows, AccountsTypeOK
  <1>5. users[u].status # "disabled" /\ users'[u].status # "absent"
    BY <1>1, <1>2 DEF created, disabled, reset, current, active, Rows, AccountsTypeOK, NoUser, UserType
  <1> HIDE DEF u
  <1> QED
    BY <1>1, <1>3, <1>4, <1>5, WrittenForward

LEMMA LoginForward ==
    ASSUME Rows, NEW s \in Sessions, NEW u \in Users, NEW p \in Passwords, Login(s, u, p)
    PROVE  MembersForward
  <1>1. /\ active(u) /\ users' = users
        /\ credentials' \in {credentials, [credentials EXCEPT ![u] = stored(u, credentials[u].password)]}
    BY DEF Login, verifies, rehashed
  <1>2. \A v \in Users \ {u} : users'[v] = users[v] /\ credentials'[v] = credentials[v]
    BY <1>1 DEF Rows, AccountsTypeOK
  <1>3. credentials'[u] # credentials[u] => credentials'[u].revision = credentials[u].revision + 1
    BY <1>1 DEF stored, Rows, AccountsTypeOK
  <1> QED
    BY <1>1, <1>2, <1>3, WrittenForward DEF active

LEMMA ChangeForward ==
    ASSUME Rows, NEW s \in Sessions, NEW u \in Users, NEW r \in 1..MaxRevision,
           NEW c \in 1..MaxRevision, NEW p \in Passwords, NEW new \in Passwords,
           ChangePassword(s, u, r, c, p, new)
    PROVE  MembersForward
  <1>1. /\ active(u)
        /\ users' = [users EXCEPT ![u].revision = r + 1]
        /\ credentials' = [credentials EXCEPT ![u] = stored(u, new)]
    BY DEF ChangePassword, verifies
  <1>2. \A v \in Users \ {u} : users'[v] = users[v] /\ credentials'[v] = credentials[v]
    BY <1>1 DEF Rows, AccountsTypeOK
  <1>3. credentials'[u].revision = credentials[u].revision + 1
    BY <1>1 DEF stored, Rows, AccountsTypeOK
  <1>4. users'[u].status = users[u].status
    BY <1>1 DEF Rows, AccountsTypeOK, UserType
  <1> QED
    BY <1>1, <1>2, <1>3, <1>4, WrittenForward DEF active

LEMMA UnchangedForward ==
    ASSUME users' = users, credentials' = credentials PROVE MembersForward
  BY DEF MembersForward

LEMMA SessionsForward == Rows /\ [Next]_vars => MembersForward
  <1> SUFFICES ASSUME Rows, [Next]_vars PROVE MembersForward
    OBVIOUS
  <1>1. CASE Administrate
    <2>1. PICK call \in Asked : created(call) \/ disabled(call) \/ reset(call)
      BY <1>1 DEF Administrate, Asked
    <2> QED
      BY <2>1, CallForward
  <1>2. ASSUME NEW s \in Sessions, NEW u \in Users, NEW p \in Passwords, Login(s, u, p)
        PROVE  MembersForward
    BY <1>2, LoginForward
  <1>3. ASSUME NEW s \in Sessions, NEW u \in Users, NEW r \in 1..MaxRevision,
               NEW c \in 1..MaxRevision, NEW p \in Passwords, NEW new \in Passwords,
               ChangePassword(s, u, r, c, p, new)
        PROVE  MembersForward
    BY <1>3, ChangeForward
  <1>4. CASE \/ DisableOrganization
             \/ \E s \in Sessions : VerifySession(s)
             \/ \E i \in issuing : Sign(i)
             \/ \E s \in Sessions, expected \in 1..2 : Logout(s, expected)
             \/ Tick
             \/ UNCHANGED vars
    <2>1. users' = users /\ credentials' = credentials
      BY <1>4 DEF DisableOrganization, VerifySession, Sign, Logout, Tick, vars, accountVars
    <2> QED
      BY <2>1, UnchangedForward
  <1> QED
    BY <1>1, <1>2, <1>3, <1>4 DEF Next

(* DisabledIsFinal: no login, rehash, reset or change of password that was  *)
(* authorized before touches a disabled member.                             *)
THEOREM DisabledStaysDisabled == Spec => DisabledIsFinal
  <1>1. Init => AccountsIInv
    BY AccountsStart DEF Init
  <1>2. AccountsIInv /\ [Next]_vars => AccountsIInv'
    BY SessionsKeepAccounts
  <1>3. AccountsIInv /\ [Next]_vars
          => [\A u \in Users : users[u].status = "disabled" =>
                /\ users'[u] = users[u]
                /\ credentials'[u] = credentials[u]]_accountVars
    BY SessionsForward DEF AccountsIInv, MembersForward
  <1> QED
    BY <1>1, <1>2, <1>3, PTL DEF Spec, DisabledIsFinal

-----------------------------------------------------------------------------
(* Sessions.                                                                *)

(* A row belongs to a user who exists and to a revision of a credential     *)
(* that was in force with the password its login presented.                 *)
rowInOrder(row, password, user, credential) ==
    /\ row.status = "none" => row = NoSession
    /\ row.status = "active" => row.revision = 1
    /\ row.status # "none" =>
          /\ user.status # "absent"
          /\ row.credential \in 1..credential.revision
          /\ row.credential = credential.revision => password = credential.password

TokensInOrder ==
    /\ \A t \in tokens : /\ sessions[t.session].status # "none"
                         /\ t.revision = 1
                         /\ t.left <= sessions[t.session].left
    /\ \A i \in issuing : /\ sessions[i.session].status # "none"
                          /\ i.revision = 1

RowsInOrder ==
    \A s \in Sessions : rowInOrder(sessions[s], opened[s], users[sessions[s].user],
                                   credentials[sessions[s].user])

SessionsIInv == AccountsIInv /\ TypeOK /\ RowsInOrder /\ TokensInOrder

(* The accounts may go on below a session.                                  *)
LEMMA RowStaysInOrder ==
    ASSUME AccountsTypeOK, AccountsTypeOK', MembersForward, NEW u \in Users,
           NEW row, NEW password,
           row.credential \in Nat,
           rowInOrder(row, password, users[u], credentials[u])
    PROVE  rowInOrder(row, password, users'[u], credentials'[u])
  <1>1. credentials[u].revision \in Nat /\ credentials'[u].revision \in Nat
    BY DEF AccountsTypeOK, CredentialType
  <1> QED
    BY <1>1 DEF rowInOrder, MembersForward

LEMMA ValidIsKnown == SessionsIInv => SessionsInvariant
  <1> SUFFICES ASSUME SessionsIInv PROVE ValidKnowsPassword /\ TokenWithinSession
    BY DEF SessionsIInv, SessionsInvariant
  <1> USE DEF SessionsIInv
  <1>1. ValidKnowsPassword
    BY DEF ValidKnowsPassword, valid, RowsInOrder, rowInOrder
  <1>2. TokenWithinSession
    BY DEF TokenWithinSession, accepted, valid, RowsInOrder, rowInOrder, TokensInOrder, TypeOK, TokenType
  <1> QED
    BY <1>1, <1>2

LEMMA RowIsTyped ==
    ASSUME SessionsIInv, NEW s \in Sessions
    PROVE  /\ sessions[s] \in SessionType
           /\ rowInOrder(sessions[s], opened[s], users[sessions[s].user],
                         credentials[sessions[s].user])
  BY DEF SessionsIInv, TypeOK, RowsInOrder

(* Whatever happens to accounts alone.                                      *)
LEMMA AccountsKeepSessions ==
    ASSUME SessionsIInv, AccountsIInv', MembersForward, UNCHANGED sessionVars
    PROVE  SessionsIInv'
  <1> USE AccountsAssumption, LifetimesAssumption
  <1>1. UNCHANGED <<sessions, tokens, issuing, opened>>
    BY DEF sessionVars
  <1>2. AccountsTypeOK /\ AccountsTypeOK'
    BY DEF SessionsIInv, AccountsIInv, Rows
  <1>3. TypeOK'
    BY <1>1, <1>2 DEF SessionsIInv, TypeOK
  <1>4. TokensInOrder'
    BY <1>1 DEF SessionsIInv, TokensInOrder
  <1>5. ASSUME NEW s \in Sessions
        PROVE  rowInOrder(sessions'[s], opened'[s], users'[sessions'[s].user],
                          credentials'[sessions'[s].user])
    <2>1. sessions[s].user \in Users /\ sessions[s].credential \in Nat
      BY RowIsTyped DEF SessionType
    <2> QED
      BY <1>1, <1>2, <2>1, RowIsTyped, RowStaysInOrder
  <1> QED
    BY <1>3, <1>4, <1>5 DEF SessionsIInv, RowsInOrder

LEMMA LoginKeepsSessions ==
    ASSUME SessionsIInv, AccountsIInv', MembersForward,
           NEW s \in Sessions, NEW u \in Users, NEW p \in Passwords, Login(s, u, p)
    PROVE  SessionsIInv'
  <1> USE AccountsAssumption, LifetimesAssumption
  <1> DEFINE row == [status |-> "active", user |-> u, credential |-> credentials'[u].revision,
                     revision |-> 1, left |-> SessionTTL]
             token == [session |-> s, revision |-> 1, left |-> AccessTTL]
  <1>1. /\ sessions[s].status = "none" /\ issuing' = issuing
        /\ sessions' = [sessions EXCEPT ![s] = row]
        /\ tokens' = tokens \cup {token}
        /\ opened' = [opened EXCEPT ![s] = p]
    BY DEF Login, signed, NoSession
  <1>2. AccountsTypeOK /\ AccountsTypeOK' /\ TypeOK
    BY DEF SessionsIInv, AccountsIInv, Rows
  <1>3. /\ users' = users /\ users[u].status = "active"
        /\ credentials[u].revision > 0 /\ credentials[u].password = p
    BY DEF Login, verifies, active
  <1>4. credentials'[u].revision > 0 /\ credentials'[u].password = p
    BY <1>2, <1>3 DEF Login, rehashed, stored, AccountsTypeOK, CredentialType
  <1>5. credentials'[u].revision \in 0..MaxRevision
    BY <1>2 DEF AccountsTypeOK, CredentialType
  <1>6. row \in SessionType /\ token \in TokenType
    BY <1>5 DEF SessionType, TokenType
  <1>7. TypeOK'
    BY <1>1, <1>2, <1>6 DEF TypeOK
  <1>8. TokensInOrder'
    <2>1. ASSUME NEW t \in tokens
          PROVE  /\ sessions'[t.session].status # "none"
                 /\ t.revision = 1
                 /\ t.left <= sessions'[t.session].left
      BY <1>1, <1>2 DEF SessionsIInv, TokensInOrder, TypeOK, TokenType
    <2>2. ASSUME NEW i \in issuing PROVE sessions'[i.session].status # "none" /\ i.revision = 1
      BY <1>1, <1>2 DEF SessionsIInv, TokensInOrder, TypeOK
    <2>3. sessions'[s] = row
      BY <1>1, <1>2 DEF TypeOK
    <2> QED
      BY <1>1, <2>1, <2>2, <2>3 DEF TokensInOrder
  <1>9. ASSUME NEW t \in Sessions
        PROVE  rowInOrder(sessions'[t], opened'[t], users'[sessions'[t].user],
                          credentials'[sessions'[t].user])
    <2>1. CASE t = s
      <3>1. sessions'[t] = row /\ opened'[t] = p
        BY <1>1, <1>2, <2>1 DEF TypeOK
      <3> QED
        BY <1>3, <1>4, <1>5, <3>1 DEF rowInOrder
    <2>2. CASE t # s
      <3>1. sessions'[t] = sessions[t] /\ opened'[t] = opened[t]
        BY <1>1, <1>2, <2>2 DEF TypeOK
      <3>2. sessions[t].user \in Users /\ sessions[t].credential \in Nat
        BY RowIsTyped DEF SessionType
      <3> QED
        BY <1>2, <3>1, <3>2, RowIsTyped, RowStaysInOrder
    <2> QED
      BY <2>1, <2>2
  <1> QED
    BY <1>7, <1>8, <1>9 DEF SessionsIInv, RowsInOrder

LEMMA IssueKeepsSessions ==
    ASSUME SessionsIInv, AccountsIInv',
           (\E s \in Sessions : VerifySession(s)) \/ (\E i \in issuing : Sign(i))
    PROVE  SessionsIInv'
  <1> USE AccountsAssumption, LifetimesAssumption
  <1>1. UNCHANGED <<users, credentials, sessions, opened>> /\ TypeOK /\ AccountsTypeOK'
    BY DEF VerifySession, Sign, accountVars, SessionsIInv, AccountsIInv, Rows
  <1>2. RowsInOrder'
    BY <1>1 DEF SessionsIInv, RowsInOrder
  <1>3. ASSUME NEW s \in Sessions, VerifySession(s) PROVE TypeOK' /\ TokensInOrder'
    <2>1. /\ tokens' = tokens /\ sessions[s].status = "active"
          /\ issuing' = issuing \cup {[session |-> s, revision |-> sessions[s].revision]}
      BY <1>3 DEF VerifySession, valid
    <2>2. sessions[s].revision = 1
      BY <2>1, RowIsTyped DEF rowInOrder
    <2> QED
      BY <1>1, <2>1, <2>2 DEF TypeOK, SessionsIInv, TokensInOrder
  <1>4. ASSUME NEW i \in issuing, Sign(i) PROVE TypeOK' /\ TokensInOrder'
    <2> DEFINE token == [session |-> i.session, revision |-> i.revision, left |-> AccessTTL]
    <2>1. /\ issuing' \subseteq issuing
          /\ \/ tokens' = tokens
             \/ tokens' = tokens \cup {token} /\ AccessTTL <= sessions[i.session].left
      BY <1>1, <1>4 DEF Sign, signed, longEnough, TypeOK, SessionType
    <2>2. i.session \in Sessions /\ i.revision = 1 /\ sessions[i.session].status # "none"
      BY <1>1 DEF TypeOK, SessionsIInv, TokensInOrder
    <2>3. token \in TokenType
      BY <2>2 DEF TokenType
    <2>4. TypeOK'
      BY <1>1, <2>1, <2>3 DEF TypeOK
    <2>5. TokensInOrder'
      BY <1>1, <2>1, <2>2 DEF SessionsIInv, TokensInOrder
    <2> QED
      BY <2>4, <2>5
  <1> QED
    BY <1>2, <1>3, <1>4 DEF SessionsIInv

LEMMA RevokedRow ==
    ASSUME NEW row \in SessionType, row.revision = 1
    PROVE  /\ revoked(row) \in SessionType
           /\ revoked(row).status = "revoked"
           /\ revoked(row).user = row.user
           /\ revoked(row).credential = row.credential
           /\ revoked(row).left = row.left
  <1> DEFINE first == [row EXCEPT !.status = "revoked"]
             second == [first EXCEPT !.revision = row.revision + 1]
  <1>1. first \in SessionType /\ first.status = "revoked" /\ first.user = row.user
        /\ first.credential = row.credential /\ first.left = row.left
    BY DEF SessionType
  <1>2. row.revision + 1 \in 0..2
    OBVIOUS
  <1> HIDE DEF first
  <1>3. second \in SessionType /\ second.status = first.status /\ second.user = first.user
        /\ second.credential = first.credential /\ second.left = first.left
    BY <1>1, <1>2 DEF SessionType
  <1>4. revoked(row) = second
    BY DEF revoked, first
  <1> QED
    BY <1>1, <1>3, <1>4

(* Sessions are revoked, with the accounts as they were or later ones.      *)
LEMMA RevokingKeepsSessions ==
    ASSUME SessionsIInv, AccountsIInv', MembersForward, NEW gone \in SUBSET Sessions,
           \A s \in gone : sessions[s].status = "active",
           sessions' = [s \in Sessions |-> IF s \in gone THEN revoked(sessions[s]) ELSE sessions[s]],
           UNCHANGED <<tokens, issuing, opened>>
    PROVE  SessionsIInv'
  <1> USE AccountsAssumption, LifetimesAssumption
  <1>1. AccountsTypeOK /\ AccountsTypeOK' /\ TypeOK
    BY DEF SessionsIInv, AccountsIInv, Rows
  <1>2. ASSUME NEW s \in Sessions
        PROVE  /\ sessions'[s] \in SessionType
               /\ sessions'[s].user = sessions[s].user
               /\ sessions'[s].credential = sessions[s].credential
               /\ sessions'[s].left = sessions[s].left
               /\ sessions[s].status # "none" => sessions'[s].status # "none"
               /\ sessions'[s] = sessions[s] \/ sessions'[s].status = "revoked"
    <2>1. sessions[s] \in SessionType
      BY <1>1 DEF TypeOK
    <2>2. CASE s \in gone
      <3>1. sessions[s].revision = 1 /\ sessions[s].status = "active"
        BY <2>2, RowIsTyped DEF rowInOrder
      <3>2. sessions'[s] = revoked(sessions[s])
        BY <2>2
      <3> QED
        BY <2>1, <3>1, <3>2, RevokedRow
    <2>3. CASE s \notin gone
      <3>1. sessions'[s] = sessions[s]
        BY <2>3
      <3> QED
        BY <2>1, <3>1
    <2> QED
      BY <2>2, <2>3
  <1>3. sessions' \in [Sessions -> SessionType]
    BY <1>2
  <1>4. TypeOK'
    BY <1>1, <1>3 DEF TypeOK
  <1>5. TokensInOrder'
    BY <1>1, <1>2 DEF SessionsIInv, TokensInOrder, TypeOK, TokenType
  <1>6. ASSUME NEW s \in Sessions
        PROVE  rowInOrder(sessions'[s], opened'[s], users'[sessions'[s].user],
                          credentials'[sessions'[s].user])
    <2>1. sessions[s].user \in Users /\ sessions[s].credential \in Nat
      BY RowIsTyped DEF SessionType
    <2>2. rowInOrder(sessions[s], opened[s], users'[sessions[s].user], credentials'[sessions[s].user])
      BY <1>1, <2>1, RowIsTyped, RowStaysInOrder
    <2>3. CASE sessions'[s] = sessions[s]
      BY <2>2, <2>3
    <2>4. CASE sessions'[s].status = "revoked"
      <3>1. sessions[s].status # "none"
        BY <2>4, RowIsTyped DEF rowInOrder, NoSession, revoked
      <3> QED
        BY <1>2, <2>2, <2>4, <3>1 DEF rowInOrder
    <2> QED
      BY <1>2, <2>3, <2>4
  <1> QED
    BY <1>4, <1>5, <1>6 DEF SessionsIInv, RowsInOrder

LEMMA LogoutRevokes ==
    ASSUME SessionsIInv, NEW s \in Sessions, NEW expected \in 1..2, Logout(s, expected)
    PROVE  /\ sessions[s].status = "active"
           /\ sessions' = [t \in Sessions |-> IF t \in {s} THEN revoked(sessions[t]) ELSE sessions[t]]
           /\ UNCHANGED <<organization, users, credentials, trail, tokens, issuing, opened>>
  BY DEF Logout, controllable, SessionsIInv, TypeOK, accountVars

LEMMA TickKeepsSessions ==
    ASSUME SessionsIInv, AccountsIInv', Tick PROVE SessionsIInv'
  <1> USE AccountsAssumption, LifetimesAssumption
  <1>1. /\ UNCHANGED <<users, credentials, issuing, opened>>
        /\ sessions' = [s \in Sessions |-> [sessions[s] EXCEPT !.left = less(sessions[s].left)]]
        /\ tokens' = {[t EXCEPT !.left = less(t.left)] : t \in tokens}
    BY DEF Tick, accountVars
  <1>2. AccountsTypeOK' /\ TypeOK
    BY DEF SessionsIInv, AccountsIInv, Rows
  <1>3. ASSUME NEW n \in Nat, NEW m \in Nat, n <= m
        PROVE  less(n) \in 0..m /\ less(m) \in 0..m /\ less(n) <= less(m)
    BY <1>3 DEF less
  <1>4. ASSUME NEW s \in Sessions
        PROVE  /\ sessions'[s] \in SessionType
               /\ sessions'[s].status = sessions[s].status
               /\ sessions'[s].revision = sessions[s].revision
               /\ sessions'[s].user = sessions[s].user
               /\ sessions'[s].credential = sessions[s].credential
               /\ sessions'[s].left = less(sessions[s].left)
               /\ sessions[s] = NoSession => sessions'[s] = NoSession
    <2>1. sessions[s] \in SessionType
      BY <1>2 DEF TypeOK
    <2>2. less(sessions[s].left) \in 0..SessionTTL
      BY <2>1 DEF less, SessionType
    <2>3. sessions[s] = NoSession => less(sessions[s].left) = sessions[s].left
      BY DEF less, NoSession
    <2> QED
      BY <1>1, <2>1, <2>2, <2>3 DEF SessionType
  <1>5. sessions' \in [Sessions -> SessionType]
    BY <1>1, <1>4
  <1>6. ASSUME NEW t \in tokens'
        PROVE  /\ t \in TokenType
               /\ sessions'[t.session].status # "none"
               /\ t.revision = 1
               /\ t.left <= sessions'[t.session].left
    <2>1. PICK o \in tokens : t = [o EXCEPT !.left = less(o.left)]
      BY <1>1
    <2>2. o \in TokenType
      BY <1>2 DEF TypeOK
    <2>3. /\ sessions[o.session].status # "none" /\ o.revision = 1
          /\ o.left <= sessions[o.session].left
      BY DEF SessionsIInv, TokensInOrder
    <2>4. o.session \in Sessions /\ o.left \in Nat /\ sessions[o.session].left \in Nat
      BY <1>2, <2>2 DEF TypeOK, TokenType, SessionType
    <2>5. less(o.left) <= less(sessions[o.session].left)
      BY <1>3, <2>3, <2>4
    <2>6. less(o.left) \in 0..AccessTTL
      BY <2>2 DEF less, TokenType
    <2>7. t.session = o.session /\ t.revision = o.revision /\ t.left = less(o.left) /\ t \in TokenType
      BY <2>1, <2>2, <2>6 DEF TokenType
    <2> QED
      BY <1>4, <2>3, <2>4, <2>5, <2>7
  <1>7. TypeOK'
    BY <1>1, <1>2, <1>5, <1>6 DEF TypeOK
  <1>8. TokensInOrder'
    BY <1>1, <1>2, <1>4, <1>6 DEF SessionsIInv, TokensInOrder, TypeOK
  <1>9. ASSUME NEW s \in Sessions
        PROVE  rowInOrder(sessions'[s], opened'[s], users'[sessions'[s].user],
                          credentials'[sessions'[s].user])
    BY <1>1, <1>4, RowIsTyped DEF rowInOrder
  <1> QED
    BY <1>7, <1>8, <1>9 DEF SessionsIInv, RowsInOrder

LEMMA ChangeRevokes ==
    ASSUME SessionsIInv, NEW s \in Sessions, NEW u \in Users, NEW r \in 1..MaxRevision,
           NEW c \in 1..MaxRevision, NEW p \in Passwords, NEW new \in Passwords,
           ChangePassword(s, u, r, c, p, new)
    PROVE  /\ endedBy(u) \in SUBSET Sessions
           /\ \A t \in endedBy(u) : sessions[t].status = "active" /\ sessions[t].user = u
           /\ sessions' = [t \in Sessions |-> IF t \in endedBy(u) THEN revoked(sessions[t]) ELSE sessions[t]]
           /\ UNCHANGED <<organization, tokens, issuing, opened>>
           /\ s \in endedBy(u) /\ valid(s) /\ sessions[s].user = u
  BY DEF ChangePassword, endedBy, controllable, valid, seenBy, matches

LEMMA SessionsKeepSessions == SessionsIInv /\ [Next]_vars => SessionsIInv'
  <1> SUFFICES ASSUME SessionsIInv, [Next]_vars PROVE SessionsIInv'
    OBVIOUS
  <1>1. AccountsIInv' /\ MembersForward
    BY SessionsKeepAccounts, SessionsForward DEF SessionsIInv, AccountsIInv
  <1>2. CASE \/ Administrate
             \/ DisableOrganization /\ UNCHANGED sessionVars
             \/ UNCHANGED vars
    <2>1. UNCHANGED sessionVars
      BY <1>2 DEF Administrate, vars
    <2> QED
      BY <1>1, <2>1, AccountsKeepSessions
  <1>3. ASSUME NEW s \in Sessions, NEW u \in Users, NEW p \in Passwords, Login(s, u, p)
        PROVE  SessionsIInv'
    BY <1>1, <1>3, LoginKeepsSessions
  <1>4. CASE (\E s \in Sessions : VerifySession(s)) \/ (\E i \in issuing : Sign(i))
    BY <1>1, <1>4, IssueKeepsSessions
  <1>5. ASSUME NEW s \in Sessions, NEW expected \in 1..2, Logout(s, expected)
        PROVE  SessionsIInv'
    <2> DEFINE gone == {s}
    <2>1. gone \in SUBSET Sessions /\ \A t \in gone : sessions[t].status = "active"
      BY <1>5, LogoutRevokes
    <2>2. sessions' = [t \in Sessions |-> IF t \in gone THEN revoked(sessions[t]) ELSE sessions[t]]
      BY <1>5, LogoutRevokes
    <2>3. UNCHANGED <<tokens, issuing, opened>>
      BY <1>5, LogoutRevokes
    <2> HIDE DEF gone
    <2> QED
      BY <1>1, <2>1, <2>2, <2>3, RevokingKeepsSessions
  <1>6. ASSUME NEW s \in Sessions, NEW u \in Users, NEW r \in 1..MaxRevision,
               NEW c \in 1..MaxRevision, NEW p \in Passwords, NEW new \in Passwords,
               ChangePassword(s, u, r, c, p, new)
        PROVE  SessionsIInv'
    <2> DEFINE gone == endedBy(u)
    <2>1. gone \in SUBSET Sessions /\ \A t \in gone : sessions[t].status = "active"
      BY <1>6, ChangeRevokes
    <2>2. sessions' = [t \in Sessions |-> IF t \in gone THEN revoked(sessions[t]) ELSE sessions[t]]
      BY <1>6, ChangeRevokes
    <2>3. UNCHANGED <<tokens, issuing, opened>>
      BY <1>6, ChangeRevokes
    <2> HIDE DEF gone
    <2> QED
      BY <1>1, <2>1, <2>2, <2>3, RevokingKeepsSessions
  <1>7. CASE Tick
    BY <1>1, <1>7, TickKeepsSessions
  <1> QED
    BY <1>2, <1>3, <1>4, <1>5, <1>6, <1>7 DEF Next

LEMMA SessionsStart == Init => SessionsIInv
  <1> SUFFICES ASSUME Init PROVE SessionsIInv
    OBVIOUS
  <1> USE AccountsAssumption, LifetimesAssumption
  <1>1. AccountsIInv /\ AccountsTypeOK
    BY AccountsStart DEF Init, AccountsIInv, Rows
  <1>2. NoSession.user \in Users
    BY DEF NoSession
  <1>3. NoSession \in SessionType
    BY <1>2 DEF NoSession, SessionType
  <1>4. TypeOK
    BY <1>1, <1>3 DEF Init, TypeOK
  <1>5. RowsInOrder
    BY DEF Init, RowsInOrder, rowInOrder, NoSession
  <1>6. TokensInOrder
    BY DEF Init, TokensInOrder
  <1> QED
    BY <1>1, <1>4, <1>5, <1>6 DEF SessionsIInv

(* SessionsInvariant: whoever is let in knew the password that is in force, *)
(* and no token outlives its session.                                       *)
THEOREM ValidSessionsAreKnown == Spec => []SessionsInvariant
  <1>1. SessionsIInv /\ [Next]_vars => SessionsIInv'
    BY SessionsKeepSessions
  <1> QED
    BY SessionsStart, <1>1, ValidIsKnown, PTL DEF Spec

(* What the audit says of a call and of a login.                            *)
LEMMA OnlyChangesAreChanges ==
    ASSUME [Next]_vars, NEW e \in trail' \ trail, e.op = "change"
    PROVE  \E s \in Sessions, u \in Users, r, c \in 1..MaxRevision, p, new \in Passwords :
              ChangePassword(s, u, r, c, p, new)
  <1>1. CASE Administrate
    <2>1. PICK call \in Asked : created(call) \/ disabled(call) \/ reset(call)
      BY <1>1 DEF Administrate, Asked
    <2>2. PICK op \in {"create", "disable", "reset"} : recorded(op, call.user)
      BY <2>1 DEF created, disabled, reset
    <2> QED
      BY <2>2 DEF recorded
  <1>2. ASSUME NEW s \in Sessions, NEW u \in Users, NEW p \in Passwords, Login(s, u, p)
        PROVE  FALSE
    BY <1>2 DEF Login, rehashed, recorded
  <1>3. CASE \/ DisableOrganization
             \/ \E s \in Sessions : VerifySession(s)
             \/ \E i \in issuing : Sign(i)
             \/ \E s \in Sessions, expected \in 1..2 : Logout(s, expected)
             \/ Tick
             \/ UNCHANGED vars
    BY <1>3 DEF DisableOrganization, VerifySession, Sign, Logout, Tick, vars, accountVars
  <1> QED
    BY <1>1, <1>2, <1>3 DEF Next

(* ChangeNeedsValidSession: the lookup that ignores the credential lets no  *)
(* session change a password that could not be used otherwise.              *)
THEOREM OnlyValidSessionsChange == Spec => ChangeNeedsValidSession
  <1>1. SessionsIInv /\ [Next]_vars => SessionsIInv'
    BY SessionsKeepSessions
  <1>2. ASSUME SessionsIInv, [Next]_vars, NEW u \in Users,
               users'[u].revision # users[u].revision,
               \E e \in trail' \ trail : e.op = "change"
        PROVE  \E s \in Sessions : sessions[s].user = u /\ valid(s)
                                   /\ sessions'[s].status = "revoked"
    <2>1. PICK s \in Sessions, v \in Users, r \in 1..MaxRevision, c \in 1..MaxRevision,
               p \in Passwords, new \in Passwords : ChangePassword(s, v, r, c, p, new)
      BY <1>2, OnlyChangesAreChanges
    <2>2. v = u
      BY <1>2, <2>1 DEF ChangePassword, SessionsIInv, AccountsIInv, Rows, AccountsTypeOK
    <2>3. s \in endedBy(v) /\ valid(s) /\ sessions[s].user = v
      BY <1>2, <2>1, ChangeRevokes
    <2>4. sessions'[s] = revoked(sessions[s])
      BY <2>1, <2>3 DEF ChangePassword
    <2>5. sessions[s] \in SessionType /\ sessions[s].revision = 1
      BY <1>2, <2>3, RowIsTyped DEF rowInOrder, valid
    <2> QED
      BY <2>2, <2>3, <2>4, <2>5, RevokedRow
  <1>3. SessionsIInv /\ [Next]_vars
          => [\A u \in Users : users'[u].revision # users[u].revision
                /\ (\E e \in trail' \ trail : e.op = "change")
                => \E s \in Sessions : sessions[s].user = u /\ valid(s)
                                       /\ sessions'[s].status = "revoked"]_vars
    BY <1>2
  <1> QED
    BY SessionsStart, <1>1, <1>3, PTL DEF Spec, ChangeNeedsValidSession

-----------------------------------------------------------------------------
(* The refinement of AbstractSessions.                                      *)

(* Steps that leave the sessions as they were and what counts for them.     *)
SameValidity ==
    \A s \in Sessions :
        /\ sessions'[s] = sessions[s]
        /\ sessions[s].status = "active" =>
              /\ active(sessions[s].user) <=> users'[sessions[s].user].status = "active"
              /\ credentials'[sessions[s].user].revision = credentials[sessions[s].user].revision

LEMMA SameStage ==
    ASSUME SameValidity, organization' = organization
    PROVE  UNCHANGED Abstract!vars
  <1>1. \A s \in Sessions : stage'[s] = stage[s]
    BY DEF SameValidity, stage, valid, active
  <1>2. stage' = stage /\ owner' = owner /\ left' = left
    BY <1>1 DEF SameValidity, stage, owner, left
  <1> QED
    BY <1>2 DEF Abstract!vars

(* The sessions of a member end, and those of nobody else.                  *)
LEMMA EndedTogether ==
    ASSUME organization' = organization, NEW u \in Users,
           \A s \in Sessions :
               /\ sessions'[s] = NoSession <=> sessions[s] = NoSession
               /\ sessions'[s].user = sessions[s].user
               /\ sessions'[s].left = sessions[s].left
               /\ sessions[s].user = u /\ sessions[s] # NoSession => ~valid(s)'
               /\ sessions[s].user # u => (valid(s)' <=> valid(s))
    PROVE  Abstract!EndAllOf(u) \/ UNCHANGED Abstract!vars
  <1>1. owner' = owner /\ left' = left
    BY DEF owner, left
  <1>2. Abstract!live(u) = {s \in Sessions : sessions[s] # NoSession /\ valid(s) /\ sessions[s].user = u}
    BY DEF Abstract!live, stage, owner
  <1>3. stage' = [s \in Sessions |-> IF s \in Abstract!live(u) THEN "ended" ELSE stage[s]]
    BY <1>2 DEF stage
  <1>4. CASE Abstract!live(u) = {}
    BY <1>1, <1>3, <1>4 DEF Abstract!vars, stage
  <1> QED
    BY <1>1, <1>3, <1>4 DEF Abstract!EndAllOf

LEMMA CreatedStutters ==
    ASSUME SessionsIInv, NEW call \in createCalls, created(call),
           UNCHANGED <<organization, sessions>>
    PROVE  UNCHANGED Abstract!vars
  <1> DEFINE u == call.user
  <1>1. u \in Users /\ users[u].status = "absent"
    BY DEF createCalls, created, NoUser
  <1>2. \A v \in Users \ {u} : users'[v] = users[v] /\ credentials'[v] = credentials[v]
    BY <1>1 DEF created, SessionsIInv, TypeOK, AccountsTypeOK
  <1> HIDE DEF u
  <1>3. ASSUME NEW s \in Sessions, sessions[s].status = "active"
        PROVE  sessions[s].user \in Users \ {u}
    BY <1>1, <1>3, RowIsTyped DEF SessionType, rowInOrder
  <1>4. SameValidity
    BY <1>2, <1>3 DEF SameValidity, active
  <1> QED
    BY <1>4, SameStage

LEMMA CallEnds ==
    ASSUME SessionsIInv, NEW call \in Asked, disabled(call) \/ reset(call),
           UNCHANGED <<organization, sessions>>
    PROVE  Abstract!EndAllOf(call.user) \/ UNCHANGED Abstract!vars
  <1> DEFINE u == call.user
  <1>1. u \in Users
    BY DEF Asked, createCalls, disableCalls, resetCalls
  <1>2. \A v \in Users \ {u} : users'[v] = users[v] /\ credentials'[v] = credentials[v]
    BY <1>1 DEF disabled, reset, SessionsIInv, TypeOK, AccountsTypeOK
  <1>3. \/ users'[u].status # "active"
        \/ credentials'[u].revision = credentials[u].revision + 1
    BY <1>1 DEF disabled, reset, stored, SessionsIInv, TypeOK, AccountsTypeOK
  <1> HIDE DEF u
  <1>4. credentials[u].revision \in Nat
    BY <1>1, AccountsAssumption DEF SessionsIInv, TypeOK, AccountsTypeOK, CredentialType
  <1>5. ASSUME NEW s \in Sessions
        PROVE  /\ sessions[s].user = u /\ sessions[s] # NoSession => ~valid(s)'
               /\ sessions[s].user # u => (valid(s)' <=> valid(s))
    <2>1. sessions[s].user \in Users /\ sessions[s].credential \in Nat
      BY RowIsTyped, AccountsAssumption DEF SessionType
    <2>2. ASSUME sessions[s].user = u, sessions[s] # NoSession PROVE ~valid(s)'
      <3>1. sessions[s].credential <= credentials[u].revision
        BY <1>4, <2>1, <2>2, RowIsTyped DEF rowInOrder
      <3> QED
        BY <1>3, <1>4, <2>1, <2>2, <3>1 DEF valid, active
    <2>3. ASSUME sessions[s].user # u PROVE valid(s)' <=> valid(s)
      BY <1>2, <2>1, <2>3 DEF valid, active
    <2> QED
      BY <2>2, <2>3
  <1>6. Abstract!EndAllOf(u) \/ UNCHANGED Abstract!vars
    BY <1>1, <1>5, EndedTogether
  <1> QED
    BY <1>6 DEF u

LEMMA ChangeEnds ==
    ASSUME SessionsIInv, NEW s \in Sessions, NEW u \in Users, NEW r \in 1..MaxRevision,
           NEW c \in 1..MaxRevision, NEW p \in Passwords, NEW new \in Passwords,
           ChangePassword(s, u, r, c, p, new)
    PROVE  Abstract!EndAllOf(u) \/ UNCHANGED Abstract!vars
  <1>1. /\ organization' = organization
        /\ sessions' = [t \in Sessions |-> IF t \in endedBy(u) THEN revoked(sessions[t]) ELSE sessions[t]]
    BY ChangeRevokes
  <1>2. \A v \in Users \ {u} : users'[v] = users[v] /\ credentials'[v] = credentials[v]
    BY DEF ChangePassword, SessionsIInv, TypeOK, AccountsTypeOK
  <1>3. ASSUME NEW t \in Sessions
        PROVE  /\ sessions'[t] = NoSession <=> sessions[t] = NoSession
               /\ sessions'[t].user = sessions[t].user
               /\ sessions'[t].left = sessions[t].left
               /\ sessions[t].user = u /\ sessions[t] # NoSession => ~valid(t)'
               /\ sessions[t].user # u => (valid(t)' <=> valid(t))
    <2>1. sessions[t] \in SessionType
      BY RowIsTyped
    <2>2. CASE t \in endedBy(u)
      <3>1. sessions[t].status = "active" /\ sessions[t].user = u
        BY <2>2, ChangeRevokes
      <3>2. sessions[t].revision = 1
        BY <3>1, RowIsTyped DEF rowInOrder
      <3>3. sessions'[t] = revoked(sessions[t])
        BY <1>1, <2>2
      <3>4. /\ sessions'[t].status = "revoked"
            /\ sessions'[t].user = sessions[t].user
            /\ sessions'[t].left = sessions[t].left
        BY <2>1, <3>2, <3>3, RevokedRow
      <3> QED
        BY <3>1, <3>4 DEF NoSession, valid
    <2>3. CASE t \notin endedBy(u)
      <3>1. sessions'[t] = sessions[t]
        BY <1>1, <2>3
      <3>2. ASSUME sessions[t].user = u PROVE ~valid(t)'
        BY <2>3, <3>1, <3>2 DEF endedBy, valid
      <3>3. ASSUME sessions[t].user # u PROVE valid(t)' <=> valid(t)
        BY <1>1, <1>2, <2>1, <3>1, <3>3 DEF valid, active, SessionType
      <3> QED
        BY <3>1, <3>2, <3>3
    <2> QED
      BY <2>2, <2>3
  <1> QED
    BY <1>1, <1>3, EndedTogether

LEMMA DisablingCloses ==
    ASSUME SessionsIInv, DisableOrganization, UNCHANGED sessionVars
    PROVE  Abstract!Close
  <1>1. organization = "active" /\ organization' = "disabled" /\ sessions' = sessions
    BY DEF DisableOrganization, sessionVars
  <1>2. owner' = owner /\ left' = left
    BY <1>1 DEF owner, left
  <1>3. stage' = [s \in Sessions |-> IF stage[s] = "live" THEN "ended" ELSE stage[s]]
    BY <1>1 DEF stage, valid
  <1> QED
    BY <1>1, <1>2, <1>3 DEF Abstract!Close

LEMMA LoginOpens ==
    ASSUME SessionsIInv, NEW s \in Sessions, NEW u \in Users, NEW p \in Passwords, Login(s, u, p)
    PROVE  Abstract!Open(s, u)
  <1> USE AccountsAssumption, LifetimesAssumption
  <1> DEFINE row == [status |-> "active", user |-> u, credential |-> credentials'[u].revision,
                     revision |-> 1, left |-> SessionTTL]
             gone == IF credentials[u].retired THEN Abstract!live(u) ELSE {}
  <1>1. /\ sessions[s] = NoSession /\ organization = "active" /\ organization' = organization
        /\ active(u) /\ users' = users
        /\ sessions' = [sessions EXCEPT ![s] = row]
        /\ sessions'[s] = row
    BY DEF Login, verifies, SessionsIInv, TypeOK
  <1>2. row # NoSession /\ row.status = "active" /\ row.left > 0
    BY DEF NoSession
  <1>3. owner' = [owner EXCEPT ![s] = u] /\ left' = [left EXCEPT ![s] = SessionTTL]
    <2>1. \A t \in Sessions : sessions'[t] = IF t = s THEN row ELSE sessions[t]
      BY <1>1 DEF SessionsIInv, TypeOK
    <2>2. owner' = [t \in Sessions |-> IF t = s THEN u ELSE owner[t]]
      BY <1>2, <2>1 DEF owner
    <2>3. left' = [t \in Sessions |-> IF t = s THEN SessionTTL ELSE left[t]]
      BY <2>1 DEF left
    <2> QED
      BY <2>2, <2>3 DEF owner, left
  <1>4. stage'[s] = "live"
    BY <1>1, <1>2 DEF stage, valid, active
  <1>5. ASSUME NEW t \in Sessions \ {s}
        PROVE  stage'[t] = IF t \in gone THEN "ended" ELSE stage[t]
    <2>1. sessions'[t] = sessions[t] /\ sessions[t].user \in Users /\ sessions[t].credential \in Nat
      BY <1>1, RowIsTyped DEF SessionsIInv, TypeOK, SessionType
    <2>2. CASE sessions[t] = NoSession
      BY <2>1, <2>2 DEF stage, Abstract!live
    <2>3. CASE sessions[t] # NoSession /\ sessions[t].user # u
      <3>1. credentials'[sessions[t].user] = credentials[sessions[t].user]
        BY <2>1, <2>3 DEF Login, rehashed, SessionsIInv, TypeOK, AccountsTypeOK
      <3>2. valid(t)' <=> valid(t)
        BY <1>1, <2>1, <3>1 DEF valid, active
      <3>3. t \notin gone
        BY <2>3 DEF Abstract!live, owner
      <3> QED
        BY <2>1, <3>2, <3>3 DEF stage
    <2>4. CASE sessions[t] # NoSession /\ sessions[t].user = u /\ ~credentials[u].retired
      <3>1. credentials' = credentials
        BY <2>4 DEF Login, rehashed
      <3>2. valid(t)' <=> valid(t)
        BY <1>1, <2>1, <3>1 DEF valid, active
      <3> QED
        BY <2>1, <2>4, <3>2 DEF stage
    <2>5. CASE sessions[t] # NoSession /\ sessions[t].user = u /\ credentials[u].retired
      <3>1. /\ credentials'[u].revision = credentials[u].revision + 1
            /\ credentials[u].revision \in Nat
        BY <2>5 DEF Login, rehashed, stored, SessionsIInv, TypeOK, AccountsTypeOK, CredentialType
      <3>2. sessions[t].credential <= credentials[u].revision
        BY <2>5, <3>1, RowIsTyped DEF rowInOrder, NoSession
      <3>3. ~valid(t)'
        BY <2>1, <2>5, <3>1, <3>2 DEF valid
      <3>4. stage'[t] = "ended"
        BY <2>1, <2>5, <3>3 DEF stage
      <3>5. stage[t] = "ended" \/ t \in gone
        BY <2>5 DEF stage, owner, Abstract!live
      <3> QED
        BY <3>4, <3>5
    <2> QED
      BY <2>2, <2>3, <2>4, <2>5
  <1>6. stage' = [t \in Sessions |-> IF t = s THEN "live" ELSE IF t \in gone THEN "ended" ELSE stage[t]]
    BY <1>4, <1>5 DEF stage
  <1>7. gone \in {{}, Abstract!live(u)}
    OBVIOUS
  <1>8. stage[s] = "fresh" /\ organization = "active" /\ organization' = "active"
    BY <1>1 DEF stage
  <1> HIDE DEF gone
  <1> QED
    BY <1>3, <1>6, <1>7, <1>8 DEF Abstract!Open

LEMMA LogoutEnds ==
    ASSUME SessionsIInv, NEW s \in Sessions, NEW expected \in 1..2, Logout(s, expected)
    PROVE  Abstract!EndOne(s) \/ UNCHANGED Abstract!vars
  <1>1. /\ sessions[s].status = "active"
        /\ \A t \in Sessions : sessions'[t] = IF t = s THEN revoked(sessions[t]) ELSE sessions[t]
        /\ UNCHANGED <<organization, users, credentials>>
    BY LogoutRevokes
  <1>2. sessions[s] \in SessionType /\ sessions[s].revision = 1
    BY <1>1, RowIsTyped DEF rowInOrder
  <1>3. /\ sessions'[s].status = "revoked" /\ sessions'[s].user = sessions[s].user
        /\ sessions'[s].left = sessions[s].left
    BY <1>1, <1>2, RevokedRow
  <1>4. sessions[s] # NoSession /\ sessions'[s] # NoSession
    BY <1>1, <1>3 DEF NoSession
  <1>5. owner' = owner /\ left' = left
    BY <1>1, <1>3, <1>4 DEF owner, left
  <1>6. stage'[s] = "ended"
    BY <1>3, <1>4 DEF stage, valid
  <1>7. \A t \in Sessions \ {s} : stage'[t] = stage[t]
    BY <1>1 DEF stage, valid, active
  <1>8. stage' = [stage EXCEPT ![s] = "ended"]
    BY <1>6, <1>7 DEF stage
  <1>9. stage[s] \in {"live", "ended"}
    BY <1>4 DEF stage
  <1>10. CASE stage[s] = "live"
    BY <1>1, <1>5, <1>8, <1>10 DEF Abstract!EndOne
  <1>11. CASE stage[s] = "ended"
    <2>1. stage' = stage
      BY <1>8, <1>11 DEF stage
    <2> QED
      BY <1>1, <1>5, <2>1 DEF Abstract!vars
  <1> QED
    BY <1>9, <1>10, <1>11

LEMMA TickTicks ==
    ASSUME SessionsIInv, Tick PROVE Abstract!Tick
  <1> USE LifetimesAssumption
  <1>1. /\ UNCHANGED <<organization, users, credentials>>
        /\ sessions' = [s \in Sessions |-> [sessions[s] EXCEPT !.left = less(sessions[s].left)]]
    BY DEF Tick, accountVars
  <1>2. ASSUME NEW s \in Sessions
        PROVE  /\ sessions[s].left \in Nat
               /\ sessions'[s].left = less(sessions[s].left)
               /\ sessions'[s].status = sessions[s].status
               /\ sessions'[s].user = sessions[s].user
               /\ sessions'[s].credential = sessions[s].credential
               /\ sessions'[s] = NoSession <=> sessions[s] = NoSession
    <2>1. sessions[s] \in SessionType
      BY RowIsTyped
    <2>2. sessions'[s] = [sessions[s] EXCEPT !.left = less(sessions[s].left)]
      BY <1>1
    <2>3. sessions[s] = NoSession => sessions'[s] = NoSession
      BY <2>2 DEF less, NoSession
    <2>4. sessions[s].status = "none" => sessions[s] = NoSession
      BY RowIsTyped DEF rowInOrder
    <2>5. sessions'[s].status = sessions[s].status
      BY <2>1, <2>2 DEF SessionType
    <2>6. sessions'[s] = NoSession => sessions[s] = NoSession
      BY <2>4, <2>5 DEF NoSession
    <2> QED
      BY <2>1, <2>2, <2>3, <2>5, <2>6 DEF SessionType
  <1>3. left' = [s \in Sessions |-> IF left[s] = 0 THEN 0 ELSE left[s] - 1]
    BY <1>2 DEF left, less
  <1>4. owner' = owner
    BY <1>2 DEF owner
  <1>5. ASSUME NEW s \in Sessions
        PROVE  stage'[s] = IF stage[s] = "live" /\ left'[s] = 0 THEN "ended" ELSE stage[s]
    <2>1. left'[s] = sessions'[s].left /\ sessions'[s].left \in Nat
      BY <1>2 DEF left, less
    <2>2. valid(s)' <=> valid(s) /\ left'[s] # 0
      <3>1. valid(s) <=> /\ sessions[s].status = "active" /\ sessions[s].left > 0
                         /\ organization = "active" /\ users[sessions[s].user].status = "active"
                         /\ credentials[sessions[s].user].revision = sessions[s].credential
        BY DEF valid, active
      <3>2. valid(s)' <=> /\ sessions'[s].status = "active" /\ sessions'[s].left > 0
                          /\ organization' = "active" /\ users'[sessions'[s].user].status = "active"
                          /\ credentials'[sessions'[s].user].revision = sessions'[s].credential
        BY DEF valid, active
      <3>3. sessions'[s].left > 0 => sessions[s].left > 0
        BY <1>2 DEF less
      <3>4. left'[s] # 0 <=> sessions'[s].left > 0
        BY <2>1
      <3> QED
        BY <1>1, <1>2, <3>1, <3>2, <3>3, <3>4
    <2> QED
      BY <1>2, <2>2 DEF stage
  <1>6. stage' = [s \in Sessions |-> IF stage[s] = "live" /\ left'[s] = 0 THEN "ended" ELSE stage[s]]
    BY <1>5 DEF stage
  <1> QED
    BY <1>1, <1>3, <1>4, <1>6 DEF Abstract!Tick

(* ImplementsSessions: every step opens, ends or ages sessions the way      *)
(* AbstractSessions allows, or does not touch them.                         *)
THEOREM SessionsAreImplemented == Spec => ImplementsSessions
  <1>1. SessionsIInv /\ [Next]_vars => SessionsIInv'
    BY SessionsKeepSessions
  <1>2. Init => Abstract!Init
    BY DEF Init, AccountsInit, Abstract!Init, stage, owner, left, NoSession
  <1>3. SessionsIInv /\ [Next]_vars => [Abstract!Next]_(Abstract!vars)
    <2> SUFFICES ASSUME SessionsIInv, [Next]_vars PROVE Abstract!Next \/ UNCHANGED Abstract!vars
      OBVIOUS
    <2>1. CASE Administrate
      <3>1. PICK call \in Asked : \/ call \in createCalls /\ created(call)
                                  \/ disabled(call) \/ reset(call)
        BY <2>1 DEF Administrate, Asked
      <3>2. call.user \in Users
        BY DEF Asked, createCalls, disableCalls, resetCalls
      <3>3. UNCHANGED <<organization, sessions>>
        BY <2>1 DEF Administrate, sessionVars
      <3> QED
        BY <3>1, <3>2, <3>3, CreatedStutters, CallEnds DEF Abstract!Next
    <2>2. CASE DisableOrganization /\ UNCHANGED sessionVars
      BY <2>2, DisablingCloses DEF Abstract!Next
    <2>3. ASSUME NEW s \in Sessions, NEW u \in Users, NEW p \in Passwords, Login(s, u, p)
          PROVE  Abstract!Next
      BY <2>3, LoginOpens DEF Abstract!Next
    <2>4. CASE \/ \E s \in Sessions : VerifySession(s)
               \/ \E i \in issuing : Sign(i)
               \/ UNCHANGED vars
      <3>1. UNCHANGED <<organization, users, credentials, sessions>>
        BY <2>4 DEF VerifySession, Sign, vars, accountVars, sessionVars
      <3>2. SameValidity
        BY <3>1 DEF SameValidity, active
      <3> QED
        BY <3>1, <3>2, SameStage
    <2>5. ASSUME NEW s \in Sessions, NEW expected \in 1..2, Logout(s, expected)
          PROVE  Abstract!Next \/ UNCHANGED Abstract!vars
      BY <2>5, LogoutEnds DEF Abstract!Next
    <2>6. ASSUME NEW s \in Sessions, NEW u \in Users, NEW r \in 1..MaxRevision,
                 NEW c \in 1..MaxRevision, NEW p \in Passwords, NEW new \in Passwords,
                 ChangePassword(s, u, r, c, p, new)
          PROVE  Abstract!Next \/ UNCHANGED Abstract!vars
      BY <2>6, ChangeEnds DEF Abstract!Next
    <2>7. CASE Tick
      BY <2>7, TickTicks DEF Abstract!Next
    <2> QED
      BY <2>1, <2>2, <2>3, <2>5, <2>6, <2>7, <2>4 DEF Next
  <1> QED
    BY SessionsStart, <1>1, <1>2, <1>3, PTL DEF Spec, ImplementsSessions, Abstract!Spec

-----------------------------------------------------------------------------
(***************************************************************************)
(* Second part: the throttle that a login and a change of password pass    *)
(* before they look at the password.                                       *)
(***************************************************************************)

Row(k) == [attempts : 0..limit(k).attempts, blocked : BOOLEAN, left : Int]

(* What passed within the span belongs to the row of a key or to the one    *)
(* before it, of which the first attempt is forgotten by now.  As long ago  *)
(* as the row is old it began, and all of the row before it passed; once it *)
(* is locked, that is so of all of its attempts.                            *)
keyInOrder(k, row, past, lock) ==
    /\ row \in Row(k) /\ (row # NoRow => row.attempts >= 1)
    /\ past \subseteq Pass(k) /\ lock \in Int
    /\ \A x, y \in past : x.row = y.row /\ x.attempt = y.attempt => x = y
    /\ \A x \in past :
          /\ x.row = 0 => x.attempt \in 1..row.attempts
          /\ x.row # 0 => x.row = 1 /\ x.attempt \in 2..limit(k).attempts
          /\ row # NoRow /\ ~row.blocked /\ (x.row = 1 \/ x.attempt = 1) =>
                x.age >= limit(k).window - MaxWait - row.left
          /\ row # NoRow /\ row.blocked => x.age >= limit(k).cooldown - MaxWait - row.left
    /\ lock > 0 => row # NoRow /\ row.blocked /\ row.left >= lock

onKeys(f) == f = [k \in Keys |-> f[k]]

inOrder(table, past, locks) ==
    /\ onKeys(table) /\ onKeys(past) /\ onKeys(locks)
    /\ \A k \in Keys : keyInOrder(k, table[k], past[k], locks[k])
    /\ IsFiniteSet(present(table)) /\ Cardinality(present(table)) <= MaxBuckets

CallType == [state : {"idle", "waiting", "reporting"}, age : 0..MaxWait]

reporting == {c \in Callers : calls[c].state = "reporting"}

ThrottleIInv ==
    /\ inOrder(buckets, passes, guarded)
    /\ calls \in [Callers -> CallType]
    /\ IsFiniteSet(reporting) /\ unreported = Cardinality(reporting)

-----------------------------------------------------------------------------
(* What one key goes through.                                               *)

(* The row of a key and what passed there, once a call has deleted what it  *)
(* takes for expired, and the row after an attempt that is counted.         *)
rowAfter(row, age) == IF row.left + age > 0 THEN row ELSE NoRow

pastAfter(row, past, age) ==
    IF row # NoRow /\ rowAfter(row, age) = NoRow
    THEN {[x EXCEPT !.row = @ + 1] : x \in past} ELSE past

counted(k, row, age) ==
    IF row = NoRow
    THEN [attempts |-> 1, blocked |-> FALSE, left |-> limit(k).window - age]
    ELSE [row EXCEPT !.attempts = @ + 1]

countable(k, row) == ~row.blocked /\ (row = NoRow \/ row.attempts < limit(k).attempts)

LEMMA LimitsAreNumbers ==
    ASSUME NEW k \in Keys
    PROVE  /\ limit(k).attempts \in Nat \ {0} /\ limit(k).window \in Nat \ {0}
           /\ limit(k).cooldown \in Nat \ {0} /\ MaxWait \in Nat
           /\ Span(k) \in Int
           /\ Span(k) <= limit(k).window - MaxWait
           /\ Span(k) <= limit(k).cooldown - MaxWait
<1>1. limit(k) \in LimitType /\ MaxWait \in Nat  BY LimitsAssumption DEF limit
<1> QED  BY <1>1, SMT DEF LimitType, Span

(* What is deleted has left the span, but for attempts that then belong to  *)
(* the row before.                                                          *)
LEMMA ExpiryKeeps ==
    ASSUME NEW k \in Keys, NEW age \in 0..MaxWait, NEW row, NEW past, NEW lock,
           keyInOrder(k, row, past, lock)
    PROVE  keyInOrder(k, rowAfter(row, age), pastAfter(row, past, age), lock)
<1>1. /\ limit(k).attempts \in Nat \ {0} /\ limit(k).window \in Nat \ {0}
      /\ limit(k).cooldown \in Nat \ {0} /\ MaxWait \in Nat /\ Span(k) \in Int
      /\ Span(k) <= limit(k).window - MaxWait /\ Span(k) <= limit(k).cooldown - MaxWait
  BY LimitsAreNumbers
<1>2. NoRow \in Row(k) /\ NoRow.left = 0 /\ NoRow.attempts = 0 /\ ~NoRow.blocked
  BY <1>1, SMT DEF NoRow, Row
<1>3. row \in Row(k) /\ row.left \in Int /\ row.blocked \in BOOLEAN /\ row.attempts \in 0..limit(k).attempts
  BY DEF keyInOrder, Row
<1>4. CASE rowAfter(row, age) = row
  <2>1. pastAfter(row, past, age) = past  BY <1>4 DEF pastAfter
  <2> QED  BY <1>4, <2>1
<1>5. CASE rowAfter(row, age) # row
  <2>1. rowAfter(row, age) = NoRow /\ row # NoRow /\ row.left + age <= 0
    BY <1>5, <1>3, <1>1, SMT DEF rowAfter
  <2>2. row.left <= 0  BY <2>1, <1>3, <1>1, SMT
  <2> DEFINE new == {[x EXCEPT !.row = @ + 1] : x \in past}
  <2>3. pastAfter(row, past, age) = new  BY <2>1 DEF pastAfter
  <2>4. \A x \in past : /\ x \in Pass(k) /\ x.age \in Nat /\ x.age < Span(k)
                        /\ x.row = 0 /\ x.attempt \in 2..limit(k).attempts
    <3> TAKE x \in past
    <3>1. x \in Pass(k) /\ x.age \in Nat /\ x.age < Span(k) /\ x.row \in Nat /\ x.attempt \in Nat
      BY <1>1, SMT DEF keyInOrder, Pass
    <3>2. /\ x.row = 0 => x.attempt \in 1..row.attempts
          /\ x.row # 0 => x.row = 1 /\ x.attempt \in 2..limit(k).attempts
          /\ row # NoRow /\ ~row.blocked /\ (x.row = 1 \/ x.attempt = 1) =>
                x.age >= limit(k).window - MaxWait - row.left
          /\ row # NoRow /\ row.blocked => x.age >= limit(k).cooldown - MaxWait - row.left
      BY DEF keyInOrder
    <3>3. ~row.blocked  BY <3>1, <3>2, <2>1, <2>2, <1>1, <1>3, SMT
    <3>4. x.row # 1 /\ x.attempt # 1  BY <3>1, <3>2, <3>3, <2>1, <2>2, <1>1, <1>3, SMT
    <3> QED  BY <3>1, <3>2, <3>4, <1>1, <1>3, SMT
  <2>5. \A y \in new : \E x \in past :
            y = [age |-> x.age, row |-> 1, attempt |-> x.attempt]
    <3> TAKE y \in new
    <3>1. PICK x \in past : y = [x EXCEPT !.row = @ + 1]  OBVIOUS
    <3>2. x \in Pass(k) /\ x.row = 0  BY <2>4
    <3>3. y = [age |-> x.age, row |-> 1, attempt |-> x.attempt]
      BY <3>1, <3>2, SMT DEF Pass
    <3> QED  BY <3>3
  <2>6. \A y \in new : y \in Pass(k) /\ y.row = 1 /\ y.attempt \in 2..limit(k).attempts
    <3> TAKE y \in new
    <3>1. PICK x \in past : y = [age |-> x.age, row |-> 1, attempt |-> x.attempt]
      BY <2>5
    <3>2. /\ x \in Pass(k) /\ x.age \in 0..(Span(k) - 1)
          /\ x.attempt \in Nat /\ x.attempt \in 2..limit(k).attempts
      BY <2>4 DEF Pass
    <3> QED  BY <3>1, <3>2, SMT DEF Pass
  <2>7. \A y, z \in new : y.row = z.row /\ y.attempt = z.attempt => y = z
    <3> SUFFICES ASSUME NEW y \in new, NEW z \in new, y.attempt = z.attempt
                 PROVE  y = z  OBVIOUS
    <3>1. PICK x \in past : y = [age |-> x.age, row |-> 1, attempt |-> x.attempt]
      BY <2>5
    <3>2. PICK w \in past : z = [age |-> w.age, row |-> 1, attempt |-> w.attempt]
      BY <2>5
    <3>3. x.row = w.row /\ x.attempt = w.attempt  BY <3>1, <3>2, <2>4
    <3>4. x = w  BY <3>3 DEF keyInOrder
    <3> QED  BY <3>1, <3>2, <3>4
  <2>8. lock \in Int /\ ~(lock > 0)  BY <2>2, <1>3, SMT DEF keyInOrder
  <2> HIDE DEF new
  <2>9. keyInOrder(k, NoRow, new, lock)
    BY <1>2, <2>6, <2>7, <2>8, SMT DEF keyInOrder
  <2> QED  BY <2>1, <2>3, <2>9
<1> QED  BY <1>4, <1>5

LEMMA CountKeeps ==
    ASSUME NEW k \in Keys, NEW age \in 0..MaxWait, NEW row, NEW past, NEW lock,
           keyInOrder(k, row, past, lock), countable(k, row)
    PROVE  /\ keyInOrder(k, counted(k, row, age), past, lock)
           /\ keyInOrder(k, counted(k, row, age),
                 recent(k, past \cup {pass(counted(k, row, age))}), lock)
           /\ ~(lock > 0)
<1> DEFINE new == counted(k, row, age)
           one == pass(new)
<1>1. /\ limit(k).attempts \in Nat \ {0} /\ limit(k).window \in Nat \ {0}
      /\ limit(k).cooldown \in Nat \ {0} /\ MaxWait \in Nat /\ Span(k) \in Int
  BY LimitsAreNumbers
<1>2. row \in Row(k) /\ row.left \in Int /\ row.blocked \in BOOLEAN /\ row.attempts \in 0..limit(k).attempts
  BY DEF keyInOrder, Row
<1>3. ~row.blocked /\ (row = NoRow \/ row.attempts < limit(k).attempts)  BY DEF countable
<1>4. NoRow.attempts = 0  BY DEF NoRow
<1>5. /\ new \in Row(k) /\ ~new.blocked /\ new.attempts = row.attempts + 1
      /\ new # NoRow /\ (row # NoRow => new.left = row.left)
      /\ (row = NoRow => new.left = limit(k).window - age)
  <2>1. CASE row = NoRow
    <3>1. new = [attempts |-> 1, blocked |-> FALSE, left |-> limit(k).window - age]
      BY <2>1 DEF counted
    <3> QED  BY <3>1, <2>1, <1>1, <1>4, SMT DEF Row
  <2>2. CASE row # NoRow
    <3>1. new = [row EXCEPT !.attempts = @ + 1]  BY <2>2 DEF counted
    <3>2. new = [attempts |-> row.attempts + 1, blocked |-> row.blocked, left |-> row.left]
      BY <3>1, <1>2 DEF Row
    <3> QED  BY <3>2, <2>2, <1>1, <1>2, <1>3, <1>4, SMT DEF Row
  <2> QED  BY <2>1, <2>2
<1>6. ~(lock > 0) /\ lock \in Int  BY <1>3 DEF keyInOrder
<1>7. /\ past \subseteq Pass(k)
      /\ \A x, y \in past : x.row = y.row /\ x.attempt = y.attempt => x = y
      /\ \A x \in past :
          /\ x.row = 0 => x.attempt \in 1..row.attempts
          /\ x.row # 0 => x.row = 1 /\ x.attempt \in 2..limit(k).attempts
          /\ row # NoRow /\ (x.row = 1 \/ x.attempt = 1) =>
                x.age >= limit(k).window - MaxWait - row.left
  BY <1>3 DEF keyInOrder
<1> HIDE DEF new
<1>8. \A x \in past : /\ x.row = 0 => x.attempt \in 1..new.attempts /\ x.attempt # new.attempts
                      /\ x.row # 0 => x.row = 1 /\ x.attempt \in 2..limit(k).attempts
                      /\ (x.row = 1 \/ x.attempt = 1) =>
                            x.age >= limit(k).window - MaxWait - new.left
  <2> TAKE x \in past
  <2>1. x.age \in Nat /\ x.row \in Nat /\ x.attempt \in Nat  BY <1>1, <1>7, SMT DEF Pass
  <2>2. /\ x.row = 0 => x.attempt \in 1..row.attempts
        /\ x.row # 0 => x.row = 1 /\ x.attempt \in 2..limit(k).attempts
        /\ row # NoRow /\ (x.row = 1 \/ x.attempt = 1) =>
              x.age >= limit(k).window - MaxWait - row.left
    BY <1>7
  <2>3. new.left \in Int /\ new.attempts \in Int  BY <1>1, <1>5, SMT DEF Row
  <2>4. (x.row = 1 \/ x.attempt = 1) => x.age >= limit(k).window - MaxWait - new.left
    <3>1. CASE row = NoRow  BY <3>1, <2>1, <2>3, <1>1, <1>5, SMT
    <3>2. CASE row # NoRow  BY <3>2, <2>1, <2>2, <2>3, <1>5
    <3> QED  BY <3>1, <3>2
  <2> QED  BY <2>1, <2>2, <2>3, <2>4, <1>1, <1>2, <1>5, SMT
<1>9. keyInOrder(k, new, past, lock)
  <2>1. new.attempts >= 1  BY <1>2, <1>5, SMT
  <2> QED  BY <2>1, <1>5, <1>6, <1>7, <1>8 DEF keyInOrder
<1>10. keyInOrder(k, new, recent(k, past \cup {one}), lock)
  <2> DEFINE all == recent(k, past \cup {one})
  <2>1. one = [age |-> 0, row |-> 0, attempt |-> new.attempts]  BY DEF pass
  <2>2. \A x \in all : x.age < Span(k) /\ (x \in past \/ x = one)  BY DEF recent
  <2>3. new.left \in Int /\ new.attempts \in Nat /\ new.attempts >= 1
    BY <1>1, <1>2, <1>5, SMT DEF Row
  <2>4. new.attempts = 1 => 0 >= limit(k).window - MaxWait - new.left
    <3>1. CASE row = NoRow  BY <3>1, <1>1, <1>5, SMT
    <3>2. CASE row # NoRow
      <4>1. row.attempts >= 1  BY <3>2 DEF keyInOrder
      <4> QED  BY <4>1, <1>2, <1>5, SMT
    <3> QED  BY <3>1, <3>2
  <2>5. \A x \in all :
            /\ x \in Pass(k)
            /\ x.row = 0 => x.attempt \in 1..new.attempts
            /\ x.row # 0 => x.row = 1 /\ x.attempt \in 2..limit(k).attempts
            /\ (x.row = 1 \/ x.attempt = 1) => x.age >= limit(k).window - MaxWait - new.left
    <3> TAKE x \in all
    <3>1. CASE x \in past  BY <3>1, <1>7, <1>8
    <3>2. CASE x = one
      <4>1. 0 < Span(k)  BY <2>1, <2>2, <3>2
      <4>2. x \in Pass(k)  BY <4>1, <3>2, <2>1, <2>3, <1>1, SMT DEF Pass
      <4> QED  BY <4>2, <3>2, <2>1, <2>3, <2>4, <1>1, SMT
    <3> QED  BY <3>1, <3>2, <2>2
  <2>6. \A x, y \in all : x.row = y.row /\ x.attempt = y.attempt => x = y
    <3> SUFFICES ASSUME NEW x \in all, NEW y \in all, x.row = y.row, x.attempt = y.attempt
                 PROVE  x = y  OBVIOUS
    <3>1. ASSUME NEW z \in past PROVE ~(z.row = 0 /\ z.attempt = new.attempts)
      BY <1>8, <3>1
    <3>2. one.row = 0 /\ one.attempt = new.attempts  BY <2>1
    <3>3. (x \in past \/ x = one) /\ (y \in past \/ y = one)  BY <2>2
    <3>4. CASE x \in past /\ y \in past  BY <3>4, <1>7
    <3>5. CASE x \in past /\ y = one  BY <3>1, <3>2, <3>5
    <3>6. CASE x = one /\ y \in past  BY <3>1, <3>2, <3>6
    <3> QED  BY <3>3, <3>4, <3>5, <3>6
  <2> HIDE DEF all, one
  <2>7. all \subseteq Pass(k)  BY <2>5
  <2>8. keyInOrder(k, new, all, lock)
    BY <2>3, <2>5, <2>6, <2>7, <1>5, <1>6 DEF keyInOrder
  <2> QED  BY <2>8 DEF all
<1> QED  BY <1>6, <1>9, <1>10 DEF new

(* The denial that locks a bucket makes the lock last as long as promised.  *)
LEMMA LockKeeps ==
    ASSUME NEW k \in Keys, NEW age \in 0..MaxWait, NEW row, NEW past, NEW lock,
           keyInOrder(k, row, past, lock), row # NoRow
    PROVE  keyInOrder(k, locked(row, k, age), past, limit(k).cooldown - MaxWait)
<1> DEFINE new == locked(row, k, age)
<1>1. /\ limit(k).attempts \in Nat \ {0} /\ limit(k).cooldown \in Nat \ {0}
      /\ MaxWait \in Nat /\ Span(k) \in Int
  BY LimitsAreNumbers
<1>2. /\ row \in Row(k) /\ row.attempts \in 0..limit(k).attempts /\ row.attempts >= 1
  BY DEF keyInOrder, Row
<1>3. new.attempts = row.attempts /\ new.blocked /\ new.left = limit(k).cooldown - age
  BY <1>2, SMT DEF locked, Row
<1>4. /\ new \in Row(k) /\ new.blocked /\ new.attempts = row.attempts /\ new # NoRow
      /\ new.left = limit(k).cooldown - age /\ new.left >= limit(k).cooldown - MaxWait
      /\ new.left \in Int
  <2>1. limit(k).cooldown - age \in Int /\ limit(k).cooldown - age >= limit(k).cooldown - MaxWait
    BY <1>1, SMT
  <2>2. new \in Row(k)
    <3> DEFINE m == limit(k).attempts  l == limit(k).cooldown - age
    <3>1. l \in Int /\ m \in Nat  BY <2>1, <1>1
    <3>2. row \in [attempts : 0..m, blocked : BOOLEAN, left : Int]  BY <1>2 DEF Row
    <3> HIDE DEF m, l
    <3>3. [row EXCEPT !.blocked = TRUE, !.left = l] \in [attempts : 0..m, blocked : BOOLEAN, left : Int]
      BY <3>1, <3>2, Zenon
    <3> QED  BY <3>3 DEF locked, Row, m, l
  <2>3. new # NoRow  BY <1>3 DEF NoRow
  <2> QED  BY <1>3, <2>1, <2>2, <2>3
<1>5. limit(k).cooldown - MaxWait \in Int  BY <1>1, SMT
<1>6. /\ past \subseteq Pass(k)
      /\ \A x, y \in past : x.row = y.row /\ x.attempt = y.attempt => x = y
      /\ \A x \in past : /\ x.row = 0 => x.attempt \in 1..row.attempts
                         /\ x.row # 0 => x.row = 1 /\ x.attempt \in 2..limit(k).attempts
  BY DEF keyInOrder
<1>7. \A x \in past : x.age >= limit(k).cooldown - MaxWait - new.left
  <2> TAKE x \in past
  <2>1. x.age \in Nat  BY <1>1, <1>6, SMT DEF Pass
  <2> QED  BY <2>1, <1>1, <1>4, SMT
<1> HIDE DEF new
<1>8. keyInOrder(k, new, past, limit(k).cooldown - MaxWait)
  BY <1>2, <1>4, <1>5, <1>6, <1>7 DEF keyInOrder
<1> QED  BY <1>8 DEF new

(* A tick takes as much from what is left of a row and of a lock as it adds *)
(* to the age of what passed.                                               *)
rowLater(row) == IF row.left > -MaxWait /\ row # NoRow THEN [row EXCEPT !.left = @ - 1] ELSE row

pastLater(k, past) == recent(k, {[x EXCEPT !.age = @ + 1] : x \in past})

lockLater(lock) == IF lock > 0 THEN lock - 1 ELSE 0

LEMMA ElapseKeeps ==
    ASSUME NEW k \in Keys, NEW row, NEW past, NEW lock,
           keyInOrder(k, row, past, lock)
    PROVE  /\ keyInOrder(k, rowLater(row), pastLater(k, past), lockLater(lock))
           /\ rowLater(row) # NoRow => row # NoRow
           /\ \A x \in pastLater(k, past) : x.age # 0
<1> DEFINE new == rowLater(row)
           all == pastLater(k, past)
           later == lockLater(lock)
<1>1. /\ limit(k).attempts \in Nat \ {0} /\ limit(k).window \in Nat \ {0}
      /\ limit(k).cooldown \in Nat \ {0} /\ MaxWait \in Nat /\ Span(k) \in Int
      /\ Span(k) <= limit(k).window - MaxWait /\ Span(k) <= limit(k).cooldown - MaxWait
  BY LimitsAreNumbers
<1>2. /\ row \in Row(k) /\ row.attempts \in 0..limit(k).attempts /\ row.left \in Int
      /\ row.blocked \in BOOLEAN /\ (row # NoRow => row.attempts >= 1)
  BY DEF keyInOrder, Row
<1>3. /\ new \in Row(k) /\ new.attempts = row.attempts /\ new.blocked = row.blocked
      /\ new # NoRow <=> row # NoRow
      /\ row # NoRow => \/ new.left = row.left - 1
                        \/ row.left <= -MaxWait /\ new.left = row.left
  <2>1. CASE row.left > -MaxWait /\ row # NoRow
    <3>1. new = [row EXCEPT !.left = @ - 1]  BY <2>1 DEF rowLater
    <3>2. new = [attempts |-> row.attempts, blocked |-> row.blocked, left |-> row.left - 1]
      BY <3>1, <1>2 DEF Row
    <3>3. row.attempts # NoRow.attempts  BY <2>1, <1>2, SMT DEF NoRow
    <3>4. new # NoRow  BY <3>2, <3>3
    <3>5. new \in Row(k)  BY <3>2, <1>2, SMT DEF Row
    <3> QED  BY <3>2, <3>4, <3>5, <2>1
  <2>2. CASE ~(row.left > -MaxWait /\ row # NoRow)
    <3>1. new = row  BY <2>2 DEF rowLater
    <3> QED  BY <3>1, <2>2, <1>1, <1>2, SMT
  <2> QED  BY <2>1, <2>2
<1>4. past \subseteq Pass(k) /\ lock \in Int  BY DEF keyInOrder
<1>5. \A y \in all : y.age < Span(k) /\ \E x \in past :
          /\ y = [age |-> x.age + 1, row |-> x.row, attempt |-> x.attempt]
          /\ x.age \in Nat /\ x.row \in Nat /\ x.attempt \in Nat
  <2> TAKE y \in all
  <2>1. y.age < Span(k) /\ \E x \in past : y = [x EXCEPT !.age = @ + 1]
    BY DEF pastLater, recent
  <2>2. PICK x \in past : y = [x EXCEPT !.age = @ + 1]  BY <2>1
  <2>3. x \in Pass(k)  BY <1>4
  <2>4. x.age \in Nat /\ x.row \in Nat /\ x.attempt \in Nat  BY <2>3, <1>1, SMT DEF Pass
  <2>5. y = [age |-> x.age + 1, row |-> x.row, attempt |-> x.attempt]
    BY <2>2, <2>3 DEF Pass
  <2> QED  BY <2>1, <2>4, <2>5
<1> HIDE DEF new, all
<1>6. \A y \in all :
          /\ y \in Pass(k) /\ y.age # 0
          /\ y.row = 0 => y.attempt \in 1..new.attempts
          /\ y.row # 0 => y.row = 1 /\ y.attempt \in 2..limit(k).attempts
          /\ new # NoRow /\ ~new.blocked /\ (y.row = 1 \/ y.attempt = 1) =>
                y.age >= limit(k).window - MaxWait - new.left
          /\ new # NoRow /\ new.blocked => y.age >= limit(k).cooldown - MaxWait - new.left
  <2> TAKE y \in all
  <2>1. PICK x \in past :
          /\ y = [age |-> x.age + 1, row |-> x.row, attempt |-> x.attempt]
          /\ x.age \in Nat /\ x.row \in Nat /\ x.attempt \in Nat
    BY <1>5
  <2>2. y.age = x.age + 1 /\ y.row = x.row /\ y.attempt = x.attempt  BY <2>1
  <2>3. y.age < Span(k)  BY <1>5
  <2>4. y \in Pass(k)  BY <2>1, <2>2, <2>3, <1>1, SMT DEF Pass
  <2>5. /\ x.row = 0 => x.attempt \in 1..row.attempts
        /\ x.row # 0 => x.row = 1 /\ x.attempt \in 2..limit(k).attempts
        /\ row # NoRow /\ ~row.blocked /\ (x.row = 1 \/ x.attempt = 1) =>
              x.age >= limit(k).window - MaxWait - row.left
        /\ row # NoRow /\ row.blocked => x.age >= limit(k).cooldown - MaxWait - row.left
    BY DEF keyInOrder
  <2>6. new # NoRow /\ ~new.blocked /\ (y.row = 1 \/ y.attempt = 1) =>
            y.age >= limit(k).window - MaxWait - new.left
    BY <2>1, <2>2, <2>3, <2>5, <1>1, <1>2, <1>3, SMT
  <2>7. new # NoRow /\ new.blocked => y.age >= limit(k).cooldown - MaxWait - new.left
    BY <2>1, <2>2, <2>3, <2>5, <1>1, <1>2, <1>3, SMT
  <2>8. y.age # 0  BY <2>1, <2>2, SMT
  <2> QED  BY <2>2, <2>4, <2>5, <2>6, <2>7, <2>8, <1>3
<1>7. \A y, z \in all : y.row = z.row /\ y.attempt = z.attempt => y = z
  <2> SUFFICES ASSUME NEW y \in all, NEW z \in all, y.row = z.row, y.attempt = z.attempt
               PROVE  y = z  OBVIOUS
  <2>1. PICK x \in past : y = [age |-> x.age + 1, row |-> x.row, attempt |-> x.attempt]
    BY <1>5
  <2>2. PICK w \in past : z = [age |-> w.age + 1, row |-> w.row, attempt |-> w.attempt]
    BY <1>5
  <2>3. x.row = w.row /\ x.attempt = w.attempt  BY <2>1, <2>2
  <2>4. x = w  BY <2>3 DEF keyInOrder
  <2> QED  BY <2>1, <2>2, <2>4
<1>8. later \in Int /\ (later > 0 => new # NoRow /\ new.blocked /\ new.left >= later)
  <2>1. lock > 0 => row # NoRow /\ row.blocked /\ row.left >= lock  BY DEF keyInOrder
  <2>2. later = IF lock > 0 THEN lock - 1 ELSE 0  BY DEF lockLater
  <2>3. CASE lock > 0
    <3>1. later = lock - 1 /\ new # NoRow /\ new.blocked  BY <2>1, <2>2, <2>3, <1>3
    <3>2. new.left = row.left - 1  BY <2>1, <2>3, <1>1, <1>2, <1>3, <1>4, SMT
    <3> QED  BY <3>1, <3>2, <2>1, <2>3, <1>2, <1>4, SMT
  <2>4. CASE ~(lock > 0)  BY <2>2, <2>4, SMT
  <2> QED  BY <2>3, <2>4
<1> HIDE DEF later
<1>9. new # NoRow => new.attempts >= 1  BY <1>2, <1>3
<1>10. all \subseteq Pass(k)  BY <1>6
<1>11. keyInOrder(k, new, all, later)
  BY <1>3, <1>6, <1>7, <1>8, <1>9, <1>10 DEF keyInOrder
<1> QED  BY <1>3, <1>6, <1>11 DEF new, all, later

(* What passed is told apart by its row and its number there, and there are *)
(* two budgets less one such pairs.                                         *)
LEMMA BurstOfKey ==
    ASSUME NEW k \in Keys, NEW row, NEW past, NEW lock, keyInOrder(k, row, past, lock)
    PROVE  Cardinality(past) <= 2 * limit(k).attempts - 1
<1> DEFINE n == limit(k).attempts
           slot(x) == IF x.row = 0 THEN x.attempt ELSE n + x.attempt - 1
           slots == 1..(2 * n - 1)
           f == [x \in past |-> slot(x)]
<1>1. n \in Nat /\ n >= 1 /\ Span(k) \in Int  BY LimitsAreNumbers, SMT
<1>2. /\ past \subseteq Pass(k)
      /\ \A x, y \in past : x.row = y.row /\ x.attempt = y.attempt => x = y
      /\ \A x \in past : /\ x.row = 0 => x.attempt \in 1..row.attempts
                         /\ x.row # 0 => x.row = 1 /\ x.attempt \in 2..n
      /\ row.attempts \in 0..n
  BY DEF keyInOrder, Row
<1> HIDE DEF n
<1>3. \A x \in past : /\ x.row \in Nat /\ x.attempt \in Nat
                      /\ x.row = 0 => x.attempt >= 1 /\ x.attempt <= n
                      /\ x.row # 0 => x.row = 1 /\ x.attempt >= 2 /\ x.attempt <= n
  BY <1>1, <1>2, SMT DEF Pass
<1>4. \A x \in past : slot(x) \in slots  BY <1>1, <1>3, SMT
<1>5. \A x, y \in past : slot(x) = slot(y) => x = y
  <2> SUFFICES ASSUME NEW x \in past, NEW y \in past, slot(x) = slot(y)
               PROVE  x = y  OBVIOUS
  <2>1. /\ x.row \in Nat /\ x.attempt \in Nat
        /\ x.row = 0 => x.attempt >= 1 /\ x.attempt <= n
        /\ x.row # 0 => x.row = 1 /\ x.attempt >= 2 /\ x.attempt <= n
        /\ y.row \in Nat /\ y.attempt \in Nat
        /\ y.row = 0 => y.attempt >= 1 /\ y.attempt <= n
        /\ y.row # 0 => y.row = 1 /\ y.attempt >= 2 /\ y.attempt <= n
    BY <1>3
  <2>2. x.row = y.row /\ x.attempt = y.attempt  BY <2>1, <1>1, SMT
  <2> QED  BY <2>2, <1>2
<1>6. IsFiniteSet(slots) /\ Cardinality(slots) = 2 * n - 1
  <2>1. 2 * n - 1 \in Int /\ 1 \in Int /\ 1 <= 2 * n - 1 /\ 2 * n - 1 - 1 + 1 = 2 * n - 1
    BY <1>1, SMT
  <2> QED  BY <2>1, FS_Interval, SMT
<1> HIDE DEF slot, slots
<1>7. f \in Injection(past, slots)
  <2>1. f \in [past -> slots]  BY <1>4
  <2>2. \A x, y \in past : f[x] = f[y] => x = y  BY <1>5
  <2> QED  BY <2>1, <2>2 DEF Injection, IsInjective
<1>8. Cardinality(past) <= Cardinality(slots)  BY <1>6, <1>7, FS_Injection
<1> QED  BY <1>6, <1>8 DEF n

-----------------------------------------------------------------------------
(* The transaction of a call.                                               *)

outcome(table, k, age, t) ==
    LET row == table[k] IN
    \/ /\ t.result = "granted" /\ countable(k, row)
       /\ row = NoRow => hasRoom(table)
       /\ t.table = [table EXCEPT ![k] = counted(k, row, age)]
    \/ t.result = "unavailable" /\ t.table = table
    \/ t.result = "denied" /\ t.table = table
    \/ /\ t.result = "locked" /\ row # NoRow
       /\ t.table = [table EXCEPT ![k] = locked(row, k, age)]

LEMMA TakeDoes ==
    ASSUME NEW table, NEW k \in Keys, NEW age, onKeys(table), table[k].attempts \in Nat
    PROVE  outcome(table, k, age, take(table, k, age))
<1> DEFINE row == table[k]
           t == take(table, k, age)
           more == [table EXCEPT ![k] = counted(k, row, age)]
           shut == [table EXCEPT ![k] = locked(row, k, age)]
<1>1. limit(k).attempts \in Nat /\ table = [j \in Keys |-> table[j]]
  BY LimitsAreNumbers DEF onKeys
<1>2. CASE row = NoRow /\ hasRoom(table)
  <2>1. more = [table EXCEPT ![k] = [attempts |-> 1, blocked |-> FALSE,
                                     left |-> limit(k).window - age]]
    BY <1>2 DEF counted
  <2> HIDE DEF more
  <2>2. t = [result |-> "granted", table |-> more]  BY <1>2, <2>1 DEF take
  <2>3. ~NoRow.blocked  BY DEF NoRow
  <2> HIDE DEF t
  <2>4. t.result = "granted" /\ t.table = more  BY <2>2
  <2> QED  BY <1>2, <2>3, <2>4 DEF countable, more, t, outcome
<1>3. CASE row = NoRow /\ ~hasRoom(table)
  <2>1. t = [result |-> "unavailable", table |-> table]  BY <1>3 DEF take
  <2> HIDE DEF t
  <2>2. t.result = "unavailable" /\ t.table = table  BY <2>1
  <2> QED  BY <2>2 DEF t, outcome
<1>4. CASE row # NoRow /\ row.blocked
  <2>1. t = [result |-> "denied", table |-> [table EXCEPT ![k] = row]]
    BY <1>4 DEF take, probed
  <2>2. [table EXCEPT ![k] = row] = table  BY <1>1
  <2> HIDE DEF t
  <2>3. t.result = "denied" /\ t.table = table  BY <2>1, <2>2
  <2> QED  BY <2>3 DEF t, outcome
<1>5. CASE row # NoRow /\ ~row.blocked /\ exhausted(row, k)
  <2>1. t = [result |-> "locked", table |-> shut]  BY <1>5 DEF take
  <2> HIDE DEF t, shut
  <2>2. t.result = "locked" /\ t.table = shut  BY <2>1
  <2> QED  BY <1>5, <2>2 DEF shut, t, outcome
<1>6. CASE row # NoRow /\ ~row.blocked /\ ~exhausted(row, k)
  <2>1. more = [table EXCEPT ![k] = [row EXCEPT !.attempts = @ + 1]]
    BY <1>6 DEF counted
  <2> HIDE DEF more
  <2>2. t = [result |-> "granted", table |-> more]  BY <1>6, <2>1 DEF take
  <2> HIDE DEF t
  <2>3. t.result = "granted" /\ t.table = more  BY <2>2
  <2>4. row.attempts < limit(k).attempts  BY <1>1, <1>6, SMT DEF exhausted
  <2> QED  BY <1>6, <2>3, <2>4 DEF countable, more, t, outcome
<1> QED  BY <1>2, <1>3, <1>4, <1>5, <1>6

LEMMA RoomIsKept ==
    ASSUME NEW table, NEW k \in Keys, NEW r, table = [j \in Keys |-> table[j]],
           IsFiniteSet(present(table)), Cardinality(present(table)) <= MaxBuckets,
           table[k] = NoRow => hasRoom(table)
    PROVE  LET new == [table EXCEPT ![k] = r] IN
           IsFiniteSet(present(new)) /\ Cardinality(present(new)) <= MaxBuckets
<1> DEFINE new == [table EXCEPT ![k] = r]
           all == present(table) \cup {k}
<1>1. present(new) \subseteq all  BY DEF present
<1>2. MaxBuckets \in Nat  BY LimitsAssumption
<1>3. Cardinality(present(table)) \in Nat  BY FS_CardinalityType
<1>4. IsFiniteSet(all) /\ Cardinality(all) <= MaxBuckets
  <2>1. CASE k \in present(table)
    <3>1. all = present(table)  BY <2>1
    <3> QED  BY <3>1
  <2>2. CASE k \notin present(table)
    <3>1. Cardinality(present(table)) < MaxBuckets  BY <2>2 DEF present, hasRoom
    <3>2. IsFiniteSet(all) /\ Cardinality(all) = Cardinality(present(table)) + 1
      BY <2>2, FS_AddElement
    <3> QED  BY <3>1, <3>2, <1>2, <1>3, SMT
  <2> QED  BY <2>1, <2>2
<1> HIDE DEF all, new
<1>5. /\ IsFiniteSet(present(new)) /\ Cardinality(present(new)) <= Cardinality(all)
  BY <1>1, <1>4, FS_Subset
<1>6. Cardinality(present(new)) \in Nat /\ Cardinality(all) \in Nat
  BY <1>4, <1>5, FS_CardinalityType
<1>7. Cardinality(present(new)) <= MaxBuckets  BY <1>2, <1>4, <1>5, <1>6, SMT
<1> QED  BY <1>5, <1>7 DEF new

(* What one attempt leaves in order: it passes, or it is counted though the *)
(* other bucket denies it, or it locks.                                     *)
LEMMA TakeKeeps ==
    ASSUME NEW table, NEW past, NEW locks, NEW k \in Keys, NEW age \in 0..MaxWait,
           inOrder(table, past, locks)
    PROVE  LET t == take(table, k, age) IN
           \/ /\ t.result = "granted" /\ ~(locks[k] > 0)
              /\ \A j \in Keys \ {k} : t.table[j] = table[j]
              /\ inOrder(t.table, past, locks)
              /\ inOrder(t.table,
                    [past EXCEPT ![k] = recent(k, past[k] \cup {pass(t.table[k])})], locks)
           \/ t.result = "unavailable" /\ t.table = table
           \/ t.result = "denied" /\ t.table = table
           \/ /\ t.result = "locked"
              /\ inOrder(t.table, past, [locks EXCEPT ![k] = limit(k).cooldown - MaxWait])
<1> DEFINE row == table[k]
           t == take(table, k, age)
<1>1. /\ table = [j \in Keys |-> table[j]] /\ past = [j \in Keys |-> past[j]]
      /\ locks = [j \in Keys |-> locks[j]]
      /\ \A j \in Keys : keyInOrder(j, table[j], past[j], locks[j])
      /\ IsFiniteSet(present(table)) /\ Cardinality(present(table)) <= MaxBuckets
  BY DEF inOrder, onKeys
<1>2. keyInOrder(k, row, past[k], locks[k])  BY <1>1
<1>3. row.attempts \in Nat
  <2>1. row \in Row(k) /\ limit(k).attempts \in Nat  BY <1>2, LimitsAreNumbers DEF keyInOrder
  <2> QED  BY <2>1, SMT DEF Row
<1>4. \/ /\ t.result = "granted" /\ countable(k, row)
         /\ row = NoRow => hasRoom(table)
         /\ t.table = [table EXCEPT ![k] = counted(k, row, age)]
      \/ t.result = "unavailable" /\ t.table = table
      \/ t.result = "denied" /\ t.table = table
      \/ /\ t.result = "locked" /\ row # NoRow
         /\ t.table = [table EXCEPT ![k] = locked(row, k, age)]
  <2>1. onKeys(table)  BY DEF inOrder
  <2>2. outcome(table, k, age, t)  BY <1>3, <2>1, TakeDoes
  <2> HIDE DEF t
  <2> QED  BY <2>2 DEF outcome
<1> HIDE DEF t
<1>5. CASE /\ t.result = "granted" /\ countable(k, row)
           /\ row = NoRow => hasRoom(table)
           /\ t.table = [table EXCEPT ![k] = counted(k, row, age)]
  <2> DEFINE new == counted(k, row, age)
             fresh == recent(k, past[k] \cup {pass(new)})
             newPast == [past EXCEPT ![k] = fresh]
  <2>1. keyInOrder(k, new, past[k], locks[k]) /\ keyInOrder(k, new, fresh, locks[k]) /\ ~(locks[k] > 0)
    BY <1>2, <1>5, CountKeeps
  <2>2. IsFiniteSet(present(t.table)) /\ Cardinality(present(t.table)) <= MaxBuckets
    BY <1>1, <1>5, RoomIsKept
  <2> HIDE DEF new
  <2>3. t.table[k] = new /\ \A j \in Keys \ {k} : t.table[j] = table[j]
    BY <1>1, <1>5 DEF new
  <2>4. t.table = [j \in Keys |-> t.table[j]]  BY <1>1, <1>5
  <2> HIDE DEF fresh
  <2>5. newPast[k] = fresh /\ \A j \in Keys \ {k} : newPast[j] = past[j]  BY <1>1
  <2>6. newPast = [j \in Keys |-> newPast[j]]  BY <1>1
  <2> HIDE DEF newPast
  <2>7. \A j \in Keys : keyInOrder(j, t.table[j], past[j], locks[j])
    BY <1>1, <2>1, <2>3
  <2>8. \A j \in Keys : keyInOrder(j, t.table[j], newPast[j], locks[j])
    BY <1>1, <2>1, <2>3, <2>5
  <2>9. inOrder(t.table, past, locks)
    BY <1>1, <2>2, <2>4, <2>7 DEF inOrder, onKeys
  <2>10. inOrder(t.table, newPast, locks)
    BY <1>1, <2>2, <2>4, <2>6, <2>8 DEF inOrder, onKeys
  <2>11. newPast = [past EXCEPT ![k] = recent(k, past[k] \cup {pass(t.table[k])})]
    BY <2>3 DEF newPast, fresh
  <2> QED  BY <1>5, <2>1, <2>3, <2>9, <2>10, <2>11 DEF t
<1>6. CASE /\ t.result = "locked" /\ row # NoRow
           /\ t.table = [table EXCEPT ![k] = locked(row, k, age)]
  <2> DEFINE new == locked(row, k, age)
             long == limit(k).cooldown - MaxWait
             newLocks == [locks EXCEPT ![k] = long]
  <2>1. keyInOrder(k, new, past[k], long)  BY <1>2, <1>6, LockKeeps
  <2>2. IsFiniteSet(present(t.table)) /\ Cardinality(present(t.table)) <= MaxBuckets
    BY <1>1, <1>6, RoomIsKept
  <2> HIDE DEF new, long
  <2>3. t.table[k] = new /\ \A j \in Keys \ {k} : t.table[j] = table[j]
    BY <1>1, <1>6 DEF new
  <2>4. t.table = [j \in Keys |-> t.table[j]]  BY <1>1, <1>6
  <2>5. newLocks[k] = long /\ \A j \in Keys \ {k} : newLocks[j] = locks[j]  BY <1>1
  <2>6. newLocks = [j \in Keys |-> newLocks[j]]  BY <1>1
  <2> HIDE DEF newLocks
  <2>7. \A j \in Keys : keyInOrder(j, t.table[j], past[j], newLocks[j])
    BY <1>1, <2>1, <2>3, <2>5
  <2>8. inOrder(t.table, past, newLocks)
    BY <1>1, <2>2, <2>4, <2>6, <2>7 DEF inOrder, onKeys
  <2> QED  BY <1>6, <2>8 DEF t, newLocks, long
<1> QED  BY <1>4, <1>5, <1>6 DEF t

(* Deleting the expired rows keeps all keys in order, and a lock that has   *)
(* yet to hold is not among what is deleted.                                *)
LEMMA CleaningKeeps ==
    ASSUME NEW age \in 0..MaxWait, inOrder(buckets, passes, guarded)
    PROVE  /\ inOrder(unexpired(age), [k \in Keys |-> passedBefore(k, age)], guarded)
           /\ \A k \in Keys : guarded[k] > 0 => passedBefore(k, age) = passes[k]
<1> DEFINE base == unexpired(age)
           past == [k \in Keys |-> passedBefore(k, age)]
<1>1. /\ onKeys(guarded) /\ IsFiniteSet(present(buckets))
      /\ Cardinality(present(buckets)) <= MaxBuckets
      /\ \A k \in Keys : keyInOrder(k, buckets[k], passes[k], guarded[k])
  BY DEF inOrder
<1>2. \A k \in Keys : base[k] = rowAfter(buckets[k], age)
  BY DEF unexpired, rowAfter
<1>3. onKeys(base) /\ onKeys(past)  BY DEF unexpired, onKeys
<1>4. \A k \in Keys : past[k] = passedBefore(k, age)  OBVIOUS
<1> HIDE DEF base, past
<1>5. \A k \in Keys : past[k] = pastAfter(buckets[k], passes[k], age)
  BY <1>2, <1>4 DEF passedBefore, pastAfter, base
<1>6. ASSUME NEW k \in Keys PROVE keyInOrder(k, base[k], past[k], guarded[k])
  <2>1. keyInOrder(k, rowAfter(buckets[k], age), pastAfter(buckets[k], passes[k], age), guarded[k])
    BY <1>1, ExpiryKeeps
  <2> QED  BY <2>1, <1>2, <1>5
<1>7. IsFiniteSet(present(base)) /\ Cardinality(present(base)) <= MaxBuckets
  <2>1. present(base) \subseteq present(buckets)  BY <1>2 DEF present, rowAfter
  <2>2. IsFiniteSet(present(base)) /\ Cardinality(present(base)) <= Cardinality(present(buckets))
    BY <1>1, <2>1, FS_Subset
  <2>3. Cardinality(present(base)) \in Nat /\ Cardinality(present(buckets)) \in Nat
    BY <1>1, <2>2, FS_CardinalityType
  <2>4. MaxBuckets \in Nat  BY LimitsAssumption
  <2> QED  BY <1>1, <2>2, <2>3, <2>4, SMT
<1>8. inOrder(base, past, guarded)  BY <1>1, <1>3, <1>6, <1>7 DEF inOrder
<1>9. ASSUME NEW k \in Keys, guarded[k] > 0 PROVE past[k] = passes[k]
  <2>1. keyInOrder(k, buckets[k], passes[k], guarded[k])  BY <1>1
  <2>2. buckets[k].left >= guarded[k] /\ guarded[k] \in Int /\ buckets[k].left \in Int
    BY <2>1, <1>9 DEF keyInOrder, Row
  <2>3. MaxWait \in Nat  BY LimitsAssumption
  <2>4. buckets[k].left + age > 0  BY <1>9, <2>2, <2>3, SMT
  <2>5. rowAfter(buckets[k], age) = buckets[k]  BY <2>4 DEF rowAfter
  <2> QED  BY <1>5, <2>5 DEF pastAfter
<1> QED  BY <1>4, <1>8, <1>9 DEF base, past

(* The two buckets of a call: both let it pass, one denies it, one of them  *)
(* begins a lock, or nothing happens.                                       *)
LEMMA ReserveKeeps ==
    ASSUME NEW c \in Callers, NEW source \in Sources, NEW account \in Accounts,
           calls[c].age \in 0..MaxWait, inOrder(buckets, passes, guarded),
           Reserve(c, source, account)
    PROVE  /\ inOrder(buckets', passes', guarded')
           /\ \A k \in Keys : guarded[k] > 0 => passes'[k] \ passes[k] = {}
<1> DEFINE age == calls[c].age
           base == unexpired(age)
           past == [k \in Keys |-> passedBefore(k, age)]
           first == take(base, source, age)
           next == take(first.table, account, age)
           second == IF first.result = "granted" THEN next ELSE first
           decider == IF first.result = "granted" THEN account ELSE source
           grants(k) == recent(k, past[k] \cup {pass(second.table[k])})
           long(k) == limit(k).cooldown - MaxWait
<1>1. source \in Keys /\ account \in Keys /\ source # account
  BY LimitsAssumption DEF Keys
<1>2. inOrder(base, past, guarded) /\ \A k \in Keys : guarded[k] > 0 => past[k] = passes[k]
  BY CleaningKeeps
<1>3. \A k \in Keys : past[k] = passedBefore(k, age)  OBVIOUS
<1>4. /\ buckets' = IF second.result = "unavailable" THEN buckets ELSE second.table
      /\ passes' =
            IF second.result = "unavailable" THEN passes
            ELSE [k \in Keys |->
                    IF second.result = "granted" /\ k \in {source, account}
                    THEN recent(k, passedBefore(k, age) \cup {pass(second.table[k])})
                    ELSE passedBefore(k, age)]
      /\ guarded' = IF second.result = "locked"
                    THEN [guarded EXCEPT ![decider] = long(decider)] ELSE guarded
  BY DEF Reserve
<1> HIDE DEF age, past
<1>5. /\ passes' =
            IF second.result = "unavailable" THEN passes
            ELSE [k \in Keys |->
                    IF second.result = "granted" /\ k \in {source, account}
                    THEN grants(k) ELSE past[k]]
  BY <1>3, <1>4
<1>6. onKeys(past)  BY DEF past, onKeys
<1> HIDE DEF base
<1>7. age \in 0..MaxWait  BY DEF age
<1>8. \/ /\ first.result = "granted" /\ ~(guarded[source] > 0)
         /\ \A j \in Keys \ {source} : first.table[j] = base[j]
         /\ inOrder(first.table, past, guarded)
         /\ inOrder(first.table,
               [past EXCEPT ![source] =
                  recent(source, past[source] \cup {pass(first.table[source])})], guarded)
      \/ first.result = "unavailable" /\ first.table = base
      \/ first.result = "denied" /\ first.table = base
      \/ /\ first.result = "locked"
         /\ inOrder(first.table, past, [guarded EXCEPT ![source] = long(source)])
  BY <1>1, <1>2, <1>7, TakeKeeps
<1> HIDE DEF first, long, grants
<1>9. CASE first.result # "granted"
  <2>1. second = first /\ decider = source  BY <1>9
  <2> HIDE DEF second, decider
  <2>2. CASE first.result = "unavailable"
    <3>1. buckets' = buckets /\ passes' = passes /\ guarded' = guarded
      BY <1>4, <1>5, <2>1, <2>2
    <3> QED  BY <3>1
  <2>3. CASE first.result # "unavailable"
    <3>1. second.result # "granted" /\ second.result # "unavailable"  BY <1>9, <2>1, <2>3
    <3>2. buckets' = first.table  BY <1>4, <2>1, <3>1
    <3>3. passes' = [k \in Keys |-> past[k]]  BY <1>5, <3>1
    <3>4. passes' = past  BY <3>3, <1>6 DEF onKeys
    <3>5. inOrder(buckets', passes', guarded')
      <4>1. CASE first.result = "denied"
        <5>1. guarded' = guarded /\ first.table = base  BY <1>4, <1>8, <2>1, <4>1
        <5> QED  BY <5>1, <3>2, <3>4, <1>2
      <4>2. CASE first.result = "locked"
        <5>1. guarded' = [guarded EXCEPT ![source] = long(source)]
          BY <1>4, <2>1, <4>2
        <5>2. inOrder(first.table, past, [guarded EXCEPT ![source] = long(source)])
          BY <1>8, <4>2
        <5> QED  BY <5>1, <5>2, <3>2, <3>4
      <4> QED  BY <4>1, <4>2, <1>8, <1>9, <2>3
    <3> QED  BY <1>2, <3>4, <3>5
  <2> QED  BY <2>2, <2>3
<1>10. CASE first.result = "granted"
  <2>1. second = next /\ decider = account  BY <1>10
  <2> DEFINE mid == [past EXCEPT ![source] =
                       recent(source, past[source] \cup {pass(first.table[source])})]
  <2>2. /\ ~(guarded[source] > 0)
        /\ inOrder(first.table, past, guarded) /\ inOrder(first.table, mid, guarded)
    BY <1>8, <1>10
  <2>3. mid[account] = past[account]  BY <1>1, <1>6 DEF onKeys
  <2>4. \/ /\ next.result = "granted" /\ ~(guarded[account] > 0)
           /\ \A j \in Keys \ {account} : next.table[j] = first.table[j]
           /\ inOrder(next.table, mid, guarded)
           /\ inOrder(next.table,
                 [mid EXCEPT ![account] =
                    recent(account, mid[account] \cup {pass(next.table[account])})], guarded)
        \/ next.result = "unavailable" /\ next.table = first.table
        \/ next.result = "denied" /\ next.table = first.table
        \/ /\ next.result = "locked"
           /\ inOrder(next.table, mid, [guarded EXCEPT ![account] = limit(account).cooldown - MaxWait])
    BY <1>1, <1>7, <2>2, TakeKeeps
  <2>5. \/ next.result = "granted" \/ next.result = "unavailable" \/ next.result = "denied"
        \/ /\ next.result = "locked"
           /\ inOrder(next.table, past, [guarded EXCEPT ![account] = limit(account).cooldown - MaxWait])
    BY <1>1, <1>7, <2>2, TakeKeeps
  <2> HIDE DEF next, second, decider
  <2>6. CASE next.result = "unavailable"
    <3>1. buckets' = buckets /\ passes' = passes /\ guarded' = guarded
      BY <1>4, <1>5, <2>1, <2>6
    <3> QED  BY <3>1
  <2>7. CASE next.result = "denied"
    <3>1. buckets' = first.table /\ guarded' = guarded  BY <1>4, <2>1, <2>4, <2>7
    <3>2. passes' = [k \in Keys |-> past[k]]  BY <1>5, <2>1, <2>7
    <3>3. passes' = past  BY <3>2, <1>6 DEF onKeys
    <3> QED  BY <1>2, <2>2, <3>1, <3>3
  <2>8. CASE next.result = "locked"
    <3>1. buckets' = next.table /\ guarded' = [guarded EXCEPT ![account] = long(account)]
      BY <1>4, <2>1, <2>8
    <3>2. passes' = [k \in Keys |-> past[k]]  BY <1>5, <2>1, <2>8
    <3>3. passes' = past  BY <3>2, <1>6 DEF onKeys
    <3>4. inOrder(next.table, past, [guarded EXCEPT ![account] = long(account)])
      BY <2>5, <2>8 DEF long
    <3> QED  BY <1>2, <3>1, <3>3, <3>4
  <2>9. CASE next.result = "granted"
    <3> DEFINE both == [mid EXCEPT ![account] =
                          recent(account, mid[account] \cup {pass(next.table[account])})]
    <3>1. /\ ~(guarded[account] > 0) /\ inOrder(next.table, both, guarded)
          /\ next.table[source] = first.table[source]
      BY <1>1, <2>4, <2>9
    <3>2. buckets' = next.table /\ guarded' = guarded  BY <1>4, <2>1, <2>9
    <3>3. passes' = [k \in Keys |-> IF k \in {source, account} THEN grants(k) ELSE past[k]]
      BY <1>5, <2>1, <2>9
    <3>4. \A k \in Keys : both[k] = IF k \in {source, account} THEN grants(k) ELSE past[k]
      <4>1. both[account] = grants(account)
        <5>1. onKeys(mid)  BY <2>2 DEF inOrder
        <5> QED  BY <5>1, <1>1, <2>1, <2>3 DEF onKeys, grants
      <4>2. both[source] = grants(source)
        BY <1>1, <1>6, <2>1, <3>1 DEF onKeys, grants
      <4>3. \A k \in Keys \ {source, account} : both[k] = past[k]
        BY <1>1, <1>6 DEF onKeys
      <4>4. source \in {source, account} /\ account \in {source, account}  OBVIOUS
      <4> HIDE DEF both
      <4> QED  BY <4>1, <4>2, <4>3, <4>4
    <3>5. onKeys(both)  BY <3>1 DEF inOrder
    <3> HIDE DEF both, mid
    <3>6. passes' = both  BY <3>3, <3>4, <3>5 DEF onKeys
    <3>7. ASSUME NEW k \in Keys, guarded[k] > 0 PROVE passes'[k] = passes[k]
      <4>1. k \notin {source, account}  BY <2>2, <3>1, <3>7
      <4> QED  BY <4>1, <1>2, <3>3, <3>7
    <3> QED  BY <3>1, <3>2, <3>6, <3>7
  <2> QED  BY <2>4, <2>6, <2>7, <2>8, <2>9
<1> QED  BY <1>9, <1>10

-----------------------------------------------------------------------------
(* The specification.                                                       *)

LEMMA ThrottleInitInOrder == ThrottleInit => ThrottleIInv
<1> SUFFICES ASSUME ThrottleInit PROVE ThrottleIInv  OBVIOUS
<1> USE DEF ThrottleInit
<1>1. onKeys(buckets) /\ onKeys(passes) /\ onKeys(guarded)  BY DEF onKeys
<1>2. ASSUME NEW k \in Keys PROVE keyInOrder(k, buckets[k], passes[k], guarded[k])
  <2>1. limit(k).attempts \in Nat  BY LimitsAreNumbers
  <2>2. buckets[k] = NoRow /\ passes[k] = {} /\ guarded[k] = 0  OBVIOUS
  <2>3. NoRow \in Row(k)  BY <2>1, SMT DEF NoRow, Row
  <2> QED  BY <2>2, <2>3, SMT DEF keyInOrder
<1>3. IsFiniteSet(present(buckets)) /\ Cardinality(present(buckets)) <= MaxBuckets
  <2>1. present(buckets) = {}  BY DEF present
  <2>2. MaxBuckets \in Nat  BY LimitsAssumption
  <2> QED  BY <2>1, <2>2, FS_EmptySet, SMT
<1>4. calls \in [Callers -> CallType]
  <2>1. Idle \in CallType  BY LimitsAssumption, SMT DEF Idle, CallType
  <2> QED  BY <2>1
<1>5. IsFiniteSet(reporting) /\ unreported = Cardinality(reporting)
  <2>1. reporting = {}  BY DEF reporting, Idle
  <2> QED  BY <2>1, FS_EmptySet
<1> QED  BY <1>1, <1>2, <1>3, <1>4, <1>5 DEF ThrottleIInv, inOrder

(* A call becomes or is no longer one that has a lock to report.            *)
LEMMA ReportingBecomes ==
    ASSUME NEW c \in Callers, NEW s \in CallType, calls \in [Callers -> CallType],
           calls' = [calls EXCEPT ![c] = s]
    PROVE  /\ calls' \in [Callers -> CallType]
           /\ reporting' = IF s.state = "reporting" THEN reporting \cup {c} ELSE reporting \ {c}
BY DEF reporting

LEMMA ElapseDoes ==
    ASSUME ThrottleIInv, Elapse
    PROVE  ThrottleIInv' /\ \A k \in Keys : \A x \in passes'[k] : x.age # 0
<1>1. /\ onKeys(buckets) /\ onKeys(passes) /\ onKeys(guarded)
      /\ IsFiniteSet(present(buckets)) /\ Cardinality(present(buckets)) <= MaxBuckets
      /\ \A k \in Keys : keyInOrder(k, buckets[k], passes[k], guarded[k])
      /\ calls \in [Callers -> CallType]
      /\ IsFiniteSet(reporting) /\ unreported = Cardinality(reporting)
  BY DEF ThrottleIInv, inOrder
<1>2. /\ buckets' = [k \in Keys |-> rowLater(buckets[k])]
      /\ passes' = [k \in Keys |-> pastLater(k, passes[k])]
      /\ guarded' = [k \in Keys |-> lockLater(guarded[k])]
  BY DEF Elapse, rowLater, pastLater, lockLater
<1>3. ASSUME NEW k \in Keys
      PROVE  /\ keyInOrder(k, buckets'[k], passes'[k], guarded'[k])
             /\ buckets'[k] # NoRow => buckets[k] # NoRow
             /\ \A x \in passes'[k] : x.age # 0
  <2>1. /\ keyInOrder(k, rowLater(buckets[k]), pastLater(k, passes[k]), lockLater(guarded[k]))
        /\ rowLater(buckets[k]) # NoRow => buckets[k] # NoRow
        /\ \A x \in pastLater(k, passes[k]) : x.age # 0
    BY <1>1, ElapseKeeps
  <2>2. /\ buckets'[k] = rowLater(buckets[k]) /\ passes'[k] = pastLater(k, passes[k])
        /\ guarded'[k] = lockLater(guarded[k])
    BY <1>2
  <2> QED  BY <2>1, <2>2
<1>4. onKeys(buckets') /\ onKeys(passes') /\ onKeys(guarded')  BY <1>2 DEF onKeys
<1>5. IsFiniteSet(present(buckets')) /\ Cardinality(present(buckets')) <= MaxBuckets
  <2>1. present(buckets') \subseteq present(buckets)  BY <1>3 DEF present
  <2>2. /\ IsFiniteSet(present(buckets'))
        /\ Cardinality(present(buckets')) <= Cardinality(present(buckets))
    BY <1>1, <2>1, FS_Subset
  <2>3. Cardinality(present(buckets')) \in Nat /\ Cardinality(present(buckets)) \in Nat
    BY <1>1, <2>2, FS_CardinalityType
  <2>4. MaxBuckets \in Nat  BY LimitsAssumption
  <2> QED  BY <1>1, <2>2, <2>3, <2>4, SMT
<1>6. calls' \in [Callers -> CallType] /\ reporting' = reporting
  <2>1. MaxWait \in Nat  BY LimitsAssumption
  <2>2. ASSUME NEW d \in Callers
        PROVE  calls'[d] \in CallType /\ calls'[d].state = calls[d].state
    <3>1. calls[d] \in CallType  BY <1>1
    <3>2. CASE calls[d].state = "waiting"
      <4>1. calls'[d] = [calls[d] EXCEPT !.age = @ + 1] /\ calls[d].age < MaxWait
        BY <3>2 DEF Elapse
      <4> QED  BY <4>1, <3>1, <2>1, SMT DEF CallType
    <3>3. CASE calls[d].state # "waiting"
      <4>1. calls'[d] = calls[d]  BY <3>3 DEF Elapse
      <4> QED  BY <4>1, <3>1
    <3> QED  BY <3>2, <3>3
  <2>3. calls' = [d \in Callers |-> calls'[d]]  BY DEF Elapse
  <2>4. calls' \in [Callers -> CallType]  BY <2>2, <2>3
  <2>5. reporting' = reporting  BY <2>2 DEF reporting
  <2> QED  BY <2>4, <2>5
<1>7. unreported' = unreported  BY DEF Elapse
<1>8. inOrder(buckets', passes', guarded')  BY <1>3, <1>4, <1>5 DEF inOrder
<1> QED  BY <1>1, <1>3, <1>6, <1>7, <1>8 DEF ThrottleIInv

LEMMA CallDoes ==
    ASSUME ThrottleIInv, NEW c \in Callers, Arrive(c) \/ Answer(c)
    PROVE  ThrottleIInv' /\ \A k \in Keys : guarded[k] > 0 => passes'[k] \ passes[k] = {}
<1>1. /\ inOrder(buckets, passes, guarded) /\ calls \in [Callers -> CallType]
      /\ IsFiniteSet(reporting) /\ unreported = Cardinality(reporting)
      /\ MaxWait \in Nat
  BY LimitsAssumption DEF ThrottleIInv
<1>2. calls[c] \in CallType /\ calls[c].age \in 0..MaxWait
  BY <1>1 DEF CallType
<1>3. /\ Idle \in CallType /\ Idle.state # "reporting"
      /\ [state |-> "waiting", age |-> 0] \in CallType
      /\ [state |-> "reporting", age |-> 0] \in CallType
  BY <1>1, SMT DEF Idle, CallType
<1>4. ASSUME NEW s \in CallType, s.state # "reporting", calls[c].state # "reporting",
             calls' = [calls EXCEPT ![c] = s]
      PROVE  calls' \in [Callers -> CallType] /\ reporting' = reporting
  <2>1. /\ calls' \in [Callers -> CallType]
        /\ reporting' = IF s.state = "reporting" THEN reporting \cup {c} ELSE reporting \ {c}
    BY <1>1, <1>4, ReportingBecomes
  <2>2. c \notin reporting  BY <1>4 DEF reporting
  <2> QED  BY <1>4, <2>1, <2>2
<1>5. CASE Arrive(c) \/ GiveUp(c)
  <2>1. PICK s \in CallType :
           /\ s.state # "reporting" /\ calls' = [calls EXCEPT ![c] = s]
    BY <1>3, <1>5 DEF Arrive, GiveUp
  <2>2. calls[c].state # "reporting"  BY <1>5 DEF Arrive, GiveUp
  <2>3. UNCHANGED <<buckets, passes, guarded, unreported>>  BY <1>5 DEF Arrive, GiveUp
  <2>4. calls' \in [Callers -> CallType] /\ reporting' = reporting  BY <1>4, <2>1, <2>2
  <2> QED  BY <1>1, <2>3, <2>4 DEF ThrottleIInv
<1>6. CASE Report(c)
  <2>1. c \in reporting /\ unreported' = unreported - 1
        /\ UNCHANGED <<buckets, passes, guarded>> /\ calls' = [calls EXCEPT ![c] = Idle]
    BY <1>6 DEF Report, reporting
  <2>2. calls' \in [Callers -> CallType] /\ reporting' = reporting \ {c}
    BY <1>1, <1>3, <2>1, ReportingBecomes
  <2>3. IsFiniteSet(reporting') /\ unreported' = Cardinality(reporting')
    BY <1>1, <2>1, <2>2, FS_RemoveElement
  <2> QED  BY <1>1, <2>1, <2>2, <2>3 DEF ThrottleIInv
<1>7. ASSUME NEW source \in Sources, NEW account \in Accounts, Reserve(c, source, account)
      PROVE  ThrottleIInv' /\ \A k \in Keys : guarded[k] > 0 => passes'[k] \ passes[k] = {}
  <2>1. /\ inOrder(buckets', passes', guarded')
        /\ \A k \in Keys : guarded[k] > 0 => passes'[k] \ passes[k] = {}
    BY <1>1, <1>2, <1>7, ReserveKeeps
  <2>2. calls[c].state = "waiting" /\ c \notin reporting  BY <1>7 DEF Reserve, reporting
  <2>3. \/ unreported' = unreported + 1 /\ calls' = [calls EXCEPT ![c] = [state |-> "reporting", age |-> 0]]
        \/ unreported' = unreported /\ calls' = [calls EXCEPT ![c] = Idle]
    BY <1>7 DEF Reserve, reported
  <2>4. CASE unreported' = unreported /\ calls' = [calls EXCEPT ![c] = Idle]
    <3>1. calls' \in [Callers -> CallType] /\ reporting' = reporting
      BY <1>3, <1>4, <2>2, <2>4
    <3> QED  BY <1>1, <2>1, <2>4, <3>1 DEF ThrottleIInv
  <2>5. CASE /\ unreported' = unreported + 1
             /\ calls' = [calls EXCEPT ![c] = [state |-> "reporting", age |-> 0]]
    <3>1. calls' \in [Callers -> CallType] /\ reporting' = reporting \cup {c}
      BY <1>1, <1>3, <2>5, ReportingBecomes
    <3>2. IsFiniteSet(reporting') /\ unreported' = Cardinality(reporting')
      BY <1>1, <2>2, <2>5, <3>1, FS_AddElement
    <3> QED  BY <1>1, <2>1, <3>1, <3>2 DEF ThrottleIInv
  <2> QED  BY <2>3, <2>4, <2>5
<1> QED  BY <1>5, <1>6, <1>7 DEF Answer

LEMMA ThrottleIInvHolds == ThrottleSpec => []ThrottleIInv
<1>1. ThrottleInit => ThrottleIInv  BY ThrottleInitInOrder
<1>2. ThrottleIInv /\ [ThrottleNext]_throttleVars => ThrottleIInv'
  <2> SUFFICES ASSUME ThrottleIInv, [ThrottleNext]_throttleVars PROVE ThrottleIInv'  OBVIOUS
  <2>1. CASE Elapse  BY <2>1, ElapseDoes
  <2>2. ASSUME NEW c \in Callers, Arrive(c) \/ Answer(c) PROVE ThrottleIInv'
    BY <2>2, CallDoes
  <2>3. CASE UNCHANGED throttleVars
    BY <2>3 DEF ThrottleIInv, throttleVars, reporting
  <2> QED  BY <2>1, <2>2, <2>3 DEF ThrottleNext
<1> QED  BY <1>1, <1>2, PTL DEF ThrottleSpec

(* However the calls interleave and however late their readings of the      *)
(* clock, a span of a window holds less than two budgets of attempts at a   *)
(* key, the table keeps its limit, and there is no audit entry about a lock *)
(* that did not begin (reservePasswordAttempt, takePasswordBudget).         *)
THEOREM ThrottleInvariantHolds == ThrottleSpec => []ThrottleInvariant
<1>1. ThrottleIInv => ThrottleInvariant
  <2> SUFFICES ASSUME ThrottleIInv PROVE ThrottleInvariant  OBVIOUS
  <2>1. /\ \A k \in Keys : keyInOrder(k, buckets[k], passes[k], guarded[k])
        /\ IsFiniteSet(present(buckets)) /\ Cardinality(present(buckets)) <= MaxBuckets
        /\ calls \in [Callers -> CallType]
        /\ IsFiniteSet(reporting) /\ unreported = Cardinality(reporting)
    BY DEF ThrottleIInv, inOrder
  <2>2. unreported \in Nat  BY <2>1, FS_CardinalityType
  <2>3. ThrottleTypeOK
    <3>1. ASSUME NEW k \in Keys
          PROVE  /\ buckets[k].attempts \in 0..limit(k).attempts
                 /\ buckets[k].blocked \in BOOLEAN /\ buckets[k].left \in Int
                 /\ guarded[k] \in Int /\ passes[k] \subseteq Pass(k)
      BY <2>1 DEF keyInOrder, Row
    <3> QED  BY <2>1, <2>2, <3>1 DEF ThrottleTypeOK, CallType
  <2>4. BurstIsBounded
    <3>1. ASSUME NEW k \in Keys PROVE passed(k) <= 2 * limit(k).attempts - 1
      BY <2>1, BurstOfKey DEF passed
    <3> QED  BY <3>1 DEF BurstIsBounded
  <2>5. NoEntryFlood  BY <2>2, SMT DEF NoEntryFlood
  <2> QED  BY <2>1, <2>3, <2>4, <2>5 DEF ThrottleInvariant, TableIsBounded
<1> QED  BY <1>1, ThrottleIInvHolds, PTL

(* From the denial that locks an account or a source nothing passes there   *)
(* for the whole cooldown, whatever the other bucket of a call, a full      *)
(* table or an old reading of the clock (takePasswordBudget).               *)
THEOREM LockHoldsHolds == ThrottleSpec => LockHolds
<1> DEFINE Nothing == \A k \in Keys : guarded[k] > 0 =>
                         \A x \in passes'[k] \ passes[k] : ~ (x.age = 0 /\ x.row = 0)
<1>1. ThrottleIInv /\ [ThrottleNext]_throttleVars => [Nothing]_throttleVars
  <2> SUFFICES ASSUME ThrottleIInv, ThrottleNext PROVE Nothing  OBVIOUS
  <2>1. CASE Elapse  BY <2>1, ElapseDoes
  <2>2. ASSUME NEW c \in Callers, Arrive(c) \/ Answer(c) PROVE Nothing
    BY <2>2, CallDoes
  <2> QED  BY <2>1, <2>2 DEF ThrottleNext
<1> QED  BY <1>1, ThrottleIInvHolds, PTL DEF ThrottleSpec, LockHolds
===============================================================================
