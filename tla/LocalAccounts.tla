---------------------------- MODULE LocalAccounts ----------------------------
(***************************************************************************)
(* Users, their password credentials and the administrators who create,    *)
(* disable and reset them (localmemberadmin, localcredential, and the      *)
(* users and role_bindings tables of identitycore).                        *)
(*                                                                         *)
(* An administrative call is authorized by a guard that reads the database *)
(* before the root transaction of the call begins: a call is prepared in   *)
(* one step and carried out, or refused, in a later one.  A root           *)
(* transaction is one step: it reads before it writes, and SQLite refuses  *)
(* a write on a snapshot that is no longer current.  A transaction that    *)
(* fails half-way is rolled back and is a refused call here; UnitOfWork    *)
(* has the steps in between.                                               *)
(***************************************************************************)
EXTENDS Naturals, FiniteSets

CONSTANTS
    Users,               \* user IDs
    DirectAdministrators, TeamAdministrators,
                         \* users with an active system-administrator binding of
                         \* their own, and members of an active team with one
    Passwords, NoPassword,
    MaxRevision,         \* bound on the revisions of a user and a credential
    MaxPrepared          \* bound on administrative calls under way

ASSUME AccountsAssumption ==
    /\ DirectAdministrators \subseteq Users
    /\ TeamAdministrators \subseteq Users
    /\ DirectAdministrators \cup TeamAdministrators # {}
    /\ NoPassword \notin Passwords
    /\ MaxRevision \in Nat \ {0}
    /\ MaxPrepared \in Nat

VARIABLES
    organization,   \* status of the organization
    users,          \* the rows of users
    credentials,    \* the rows of iotd_local_user_credentials
    prepared,       \* administrative calls past their guard
    trail           \* the audit entries (and outbox events) about members

accountVars == <<organization, users, credentials, prepared, trail>>

-----------------------------------------------------------------------------
(* Data.                                                                   *)

NoUser == [status |-> "absent", revision |-> 0]

NoCredential == [revision |-> 0, password |-> NoPassword, retired |-> FALSE]

UserType == [status : {"absent", "active", "disabled"}, revision : 0..MaxRevision]

(* retired: hashed with the parameters of a policy version before the       *)
(* current one.  Revision 0 is the row that does not exist.                 *)
CredentialType ==
    [revision : 0..MaxRevision, password : Passwords \cup {NoPassword}, retired : BOOLEAN]

Call ==
    [op : {"create", "disable", "reset"}, actor : Users, user : Users,
     revision : 0..MaxRevision, credential : 0..MaxRevision,
     password : Passwords \cup {NoPassword}]

(* An entry names the revisions its transaction left behind.                *)
Entry ==
    [op : {"create", "disable", "reset", "change", "rehash"}, user : Users,
     revision : 0..MaxRevision, credential : 0..MaxRevision]

(* Types, and what the tables' CHECKs and foreign keys say of a row.        *)
AccountsTypeOK ==
    /\ organization \in {"active", "disabled"}
    /\ users \in [Users -> UserType]
    /\ credentials \in [Users -> CredentialType]
    /\ prepared \subseteq Call
    /\ trail \subseteq Entry
    /\ \A u \in Users :
          /\ users[u].revision = 0 <=> users[u].status = "absent"
          /\ credentials[u].revision = 0 <=> credentials[u].password = NoPassword
          /\ credentials[u].revision > 0 => users[u].status # "absent"

SystemAdministrators == DirectAdministrators \cup TeamAdministrators

active(u) == users[u].status = "active"

(* The state after the first administrators were set up: some of them have  *)
(* a password, perhaps from an older policy; everybody else is absent.      *)
AccountsInit ==
    /\ organization = "active"
    /\ \E old \in BOOLEAN, p \in Passwords :
          /\ users = [u \in Users |-> IF u \in SystemAdministrators
                                      THEN [status |-> "active", revision |-> 1] ELSE NoUser]
          /\ credentials = [u \in Users |-> IF u \in SystemAdministrators
                THEN [revision |-> 1, password |-> p, retired |-> old] ELSE NoCredential]
    /\ prepared = {}
    /\ trail = {[op |-> "create", user |-> u, revision |-> 1, credential |-> 1] :
                   u \in SystemAdministrators}

-----------------------------------------------------------------------------
(* Credentials: the compare-and-set of SetPassword.  An expected revision   *)
(* of 0 creates the row and fails when there is one.                        *)

matches(u, expected) ==
    /\ credentials[u].revision = expected
    /\ expected < MaxRevision

(* The row that is written, always with the current policy.                 *)
stored(u, password) ==
    [revision |-> credentials[u].revision + 1, password |-> password, retired |-> FALSE]

-----------------------------------------------------------------------------
(* Administrators.                                                          *)

(* Faulty variant: disabled users count as administrators, too.             *)
administrators_AnyStatus == SystemAdministrators

(* Whom the administrator queries and the trigger count: active users with  *)
(* a binding of their own or through an active team.                        *)
administrators == {u \in SystemAdministrators : active(u)}

(* ensureNotLastAdministrator, and the trigger that says the same.          *)
isLastAdministrator(u) == u \in administrators /\ Cardinality(administrators) <= 1

(* OperationGuard.Prepare: the actor is an administrator of an active       *)
(* organization now.                                                        *)
Prepare(call) ==
    /\ organization = "active"
    /\ call.actor \in administrators
    /\ Cardinality(prepared) < MaxPrepared
    /\ prepared' = prepared \cup {call}
    /\ UNCHANGED <<organization, users, credentials, trail>>

recorded(op, u) ==
    trail' = trail \cup {[op |-> op, user |-> u, revision |-> users'[u].revision,
                          credential |-> credentials'[u].revision]}

(* Faulty variant: the status of the user is not part of the update.        *)
current_AnyStatus(call) ==
    users[call.user].revision = call.revision /\ call.revision \in 1..(MaxRevision - 1)

(* The compare-and-set of UPDATE users: active, and of this revision.       *)
current(call) ==
    /\ active(call.user)
    /\ users[call.user].revision = call.revision
    /\ call.revision < MaxRevision

created(call) ==
    /\ call.op = "create"
    /\ users[call.user] = NoUser        \* the ID is random and new
    /\ users' = [users EXCEPT ![call.user] = [status |-> "active", revision |-> 1]]
    /\ credentials' = [credentials EXCEPT ![call.user] = stored(call.user, call.password)]
    /\ recorded("create", call.user)

disabled(call) ==
    /\ call.op = "disable"
    /\ ~isLastAdministrator(call.user)
    /\ current(call)
    /\ users' = [users EXCEPT ![call.user] =
                     [status |-> "disabled", revision |-> call.revision + 1]]
    /\ UNCHANGED credentials
    /\ recorded("disable", call.user)

(* The user's revision and the credential's are compared, each with the     *)
(* one the administrator has seen.  No session is touched.                  *)
reset(call) ==
    /\ call.op = "reset"
    /\ current(call)
    /\ matches(call.user, call.credential)
    /\ users' = [users EXCEPT ![call.user].revision = call.revision + 1]
    /\ credentials' = [credentials EXCEPT ![call.user] = stored(call.user, call.password)]
    /\ recorded("reset", call.user)

(* The root transaction of a prepared call.                                 *)
CarryOut(call) ==
    /\ call \in prepared
    /\ created(call) \/ disabled(call) \/ reset(call)
    /\ prepared' = prepared \ {call}
    /\ UNCHANGED organization

(* Any failing check, statement or commit leaves no trace but the answer.   *)
Refuse(call) ==
    /\ call \in prepared
    /\ prepared' = prepared \ {call}
    /\ UNCHANGED <<organization, users, credentials, trail>>

(* Resolver.DisableOrganization of identitybinding, the only change of an   *)
(* organization.                                                            *)
DisableOrganization ==
    /\ organization = "active"
    /\ organization' = "disabled"
    /\ UNCHANGED <<users, credentials, prepared, trail>>

(* The calls that are worth asking for: everything a caller may send to one *)
(* operation, with the fields that operation does not have at rest.         *)
createCalls ==
    [op : {"create"}, actor : Users, user : Users, revision : {0}, credential : {0},
     password : Passwords]
disableCalls ==
    [op : {"disable"}, actor : Users, user : Users, revision : 1..MaxRevision,
     credential : {0}, password : {NoPassword}]
resetCalls ==
    [op : {"reset"}, actor : Users, user : Users, revision : 1..MaxRevision,
     credential : 0..MaxRevision, password : Passwords]

AdministratorStep ==
    \/ \E call \in createCalls \cup disableCalls \cup resetCalls : Prepare(call)
    \/ \E call \in prepared : CarryOut(call) \/ Refuse(call)
    \/ DisableOrganization

AccountsSpec == AccountsInit /\ [][AdministratorStep]_accountVars

-----------------------------------------------------------------------------
(* Properties of the accounts.                                              *)

(* Somebody can always administer the members: however the calls that are   *)
(* under way interleave, the last active administrator is not disabled.     *)
AdministratorRemains == \E u \in SystemAdministrators : active(u)

(* The audit explains every revision: each revision a user ever had was     *)
(* recorded by exactly one committed operation, and so was each revision of *)
(* a credential.  Two calls that expected the same revision are never both  *)
(* carried out.                                                             *)
EveryRevisionAccounted ==
    \A u \in Users :
        /\ \A r \in 1..users[u].revision :
              Cardinality({e \in trail : e.user = u /\ e.revision = r /\ e.op # "rehash"}) = 1
        /\ \A r \in 1..credentials[u].revision :
              Cardinality({e \in trail : e.user = u /\ e.credential = r /\ e.op # "disable"}) = 1

(* What holds of members, credentials and audit at any time.                *)
AccountsInvariant == AccountsTypeOK /\ AdministratorRemains /\ EveryRevisionAccounted

(* Nothing happens to a disabled member any more, whatever was authorized   *)
(* before: no later operation changes its row or its credential.            *)
DisabledIsFinal ==
    [][\A u \in Users : users[u].status = "disabled" =>
          /\ users'[u] = users[u]
          /\ credentials'[u] = credentials[u]]_accountVars
=============================================================================
