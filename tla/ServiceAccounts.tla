---------------------------- MODULE ServiceAccounts ----------------------------
(***************************************************************************)
(* Service accounts, their credentials and the operations granted to them  *)
(* (serviceauth, serviceauthz, and their tables of identitycore).          *)
(*                                                                         *)
(* Issuing, rotating and granting look at the request or at the tables     *)
(* before their transaction begins, so each of them takes two steps.  A    *)
(* transaction is one step, as in LocalAccounts.                           *)
(***************************************************************************)
EXTENDS Naturals, FiniteSets

CONSTANTS
    Accounts,        \* service account IDs
    Credentials, NoCredential,   \* credential IDs
    Grants,          \* grant IDs
    Grantable,       \* [operation, project] pairs that may be granted: the operation
                     \* is of project or object scope, the project of the organization
    MaxTime,         \* bound on the clock
    MaxPending       \* bound on management calls under way

ASSUME ServiceAssumption ==
    /\ NoCredential \notin Credentials
    /\ Credentials \cap Grants = {}
    /\ MaxTime \in Nat
    /\ MaxPending \in Nat

VARIABLES
    organization,    \* status of the organization
    accounts,        \* [Accounts -> status]
    credentials,     \* the rows of service_account_credentials
    grants,          \* the rows of service_operation_grants
    pending,         \* calls past their first check
    revocations,     \* audit entries of revocations: the IDs revoked
    now

serviceVars == <<organization, accounts, credentials, grants, pending, revocations, now>>

-----------------------------------------------------------------------------
(* A row that does not exist has the status absent.  from is the credential *)
(* that a rotation replaced.                                                *)
Absent == [status |-> "absent"]

Credential ==
    [status : {"issued", "revoked"}, account : Accounts, expires : 1..MaxTime,
     from : Credentials \cup {NoCredential}]

GrantRow == [status : {"active", "revoked"}, account : Accounts, of : Grantable]

Call ==
    [op : {"issue"}, account : Accounts, expires : 1..MaxTime]
    \cup [op : {"rotate"}, account : Accounts, expires : 1..MaxTime, old : Credentials]
    \cup [op : {"grant"}, account : Accounts, of : Grantable]

ServiceTypeOK ==
    /\ organization \in {"active", "disabled"}
    /\ accounts \in [Accounts -> {"active", "disabled"}]
    /\ credentials \in [Credentials -> Credential \cup {Absent}]
    /\ grants \in [Grants -> GrantRow \cup {Absent}]
    /\ pending \subseteq Call
    /\ revocations \subseteq Credentials \cup Grants
    /\ now \in 0..MaxTime

ServiceInit ==
    /\ organization = "active"
    /\ accounts = [a \in Accounts |-> "active"]
    /\ credentials = [c \in Credentials |-> Absent]
    /\ grants = [g \in Grants |-> Absent]
    /\ pending = {}
    /\ revocations = {}
    /\ now = 0

-----------------------------------------------------------------------------
issued(c) == credentials[c].status = "issued"

activeAccount(a) == organization = "active" /\ accounts[a] = "active"

(* Faulty variant: revocation is not looked at.                             *)
current_Revoked(c) ==
    /\ credentials[c] # Absent
    /\ credentials[c].expires > now
    /\ activeAccount(credentials[c].account)

(* What Authenticate and a rotation ask of a credential whose secret was    *)
(* presented.                                                               *)
current(c) ==
    /\ issued(c)
    /\ credentials[c].expires > now
    /\ activeAccount(credentials[c].account)

(* validateManagementRequest.                                               *)
Request(call) ==
    /\ call.op \in {"issue", "rotate"}
    /\ call.expires > now
    /\ Cardinality(pending) < MaxPending
    /\ pending' = pending \cup {call}
    /\ UNCHANGED <<organization, accounts, credentials, grants, revocations, now>>

(* The look at the tables that Grant begins with.                           *)
RequestGrant(call) ==
    /\ call.op = "grant"
    /\ activeAccount(call.account)
    /\ Cardinality(pending) < MaxPending
    /\ pending' = pending \cup {call}
    /\ UNCHANGED <<organization, accounts, credentials, grants, revocations, now>>

(* Faulty variant: the row of a dead credential is used again.              *)
unused_Revoked(c) == ~issued(c)

unused(c) == credentials[c] = Absent

(* newIssuedCredential, whose ID is random and new, and the statements that *)
(* store it.                                                                *)
written(c, call, from) ==
    /\ unused(c)
    /\ credentials' = [d \in Credentials |->
          CASE d = c -> [status |-> "issued", account |-> call.account,
                         expires |-> call.expires, from |-> from]
            [] d = from -> [credentials[d] EXCEPT !.status = "revoked"]
            [] OTHER -> credentials[d]]

Issue(call) ==
    /\ call.op = "issue"
    /\ activeAccount(call.account)
    /\ \E c \in Credentials : written(c, call, NoCredential)
    /\ UNCHANGED <<grants, revocations>>

(* The new credential and the revocation of the old one are one transaction.*)
(* It leaves no entry in the audit.                                         *)
Rotate(call) ==
    /\ call.op = "rotate"
    /\ current(call.old)
    /\ credentials[call.old].account = call.account
    /\ \E c \in Credentials : written(c, call, call.old)
    /\ UNCHANGED <<grants, revocations>>

(* The unique index of active grants.                                       *)
ungranted(account, of) ==
    \A g \in Grants :
        ~(grants[g].status = "active" /\ grants[g].account = account /\ grants[g].of = of)

(* The account is looked up again inside the transaction.                   *)
Grant(call) ==
    /\ call.op = "grant"
    /\ activeAccount(call.account)
    /\ ungranted(call.account, call.of)
    /\ \E g \in Grants :
          /\ grants[g] = Absent
          /\ grants' = [grants EXCEPT ![g] =
                [status |-> "active", account |-> call.account, of |-> call.of]]
    /\ UNCHANGED <<credentials, revocations>>

CarryOut(call) ==
    /\ call \in pending
    /\ Issue(call) \/ Rotate(call) \/ Grant(call)
    /\ pending' = pending \ {call}
    /\ UNCHANGED <<organization, accounts, now>>

Fail(call) ==
    /\ call \in pending
    /\ pending' = pending \ {call}
    /\ UNCHANGED <<organization, accounts, credentials, grants, revocations, now>>

(* RecordRevocationInTransaction; a repeated revocation is recorded, too.   *)
audited(id) == revocations' = revocations \cup {id}

(* revokeWithAudit of serviceauth, without effect on a revoked credential.  *)
RevokeCredential(c) ==
    /\ credentials[c] # Absent
    /\ credentials' = [credentials EXCEPT ![c].status = "revoked"]
    /\ audited(c)
    /\ UNCHANGED <<organization, accounts, grants, pending, now>>

(* revokeWithAudit of serviceauthz.                                         *)
RevokeGrant(g) ==
    /\ grants[g] # Absent
    /\ grants' = [grants EXCEPT ![g].status = "revoked"]
    /\ audited(g)
    /\ UNCHANGED <<organization, accounts, credentials, pending, now>>

DisableServiceAccount(a) ==
    /\ accounts[a] = "active"
    /\ accounts' = [accounts EXCEPT ![a] = "disabled"]
    /\ UNCHANGED <<organization, credentials, grants, pending, revocations, now>>

DisableOrganization ==
    /\ organization = "active"
    /\ organization' = "disabled"
    /\ UNCHANGED <<accounts, credentials, grants, pending, revocations, now>>

Tick ==
    /\ now < MaxTime
    /\ now' = now + 1
    /\ UNCHANGED <<organization, accounts, credentials, grants, pending, revocations>>

ServiceStep ==
    \/ \E call \in Call : Request(call) \/ RequestGrant(call)
    \/ \E call \in pending : CarryOut(call) \/ Fail(call)
    \/ \E c \in Credentials : RevokeCredential(c)
    \/ \E g \in Grants : RevokeGrant(g)
    \/ \E a \in Accounts : DisableServiceAccount(a)
    \/ DisableOrganization
    \/ Tick

ServiceSpec == ServiceInit /\ [][ServiceStep]_serviceVars

-----------------------------------------------------------------------------
(* Properties.                                                              *)

(* A rotation hands a credential over and never splits it: however many     *)
(* rotations of the same credential run at a time, it gets one successor,   *)
(* of the same account, and is dead itself from then on.                    *)
RotationHandsOver ==
    \A c \in Credentials : credentials[c] # Absent /\ credentials[c].from # NoCredential =>
        LET old == credentials[c].from IN
        /\ credentials[old].status = "revoked"
        /\ credentials[old].account = credentials[c].account
        /\ \A d \in Credentials \ {c} : credentials[d] = Absent \/ credentials[d].from # old

(* A credential is revoked by a rotation, which leaves a successor, or by   *)
(* somebody the audit names; a grant only by the latter.                    *)
EveryRevocationExplained ==
    /\ \A c \in Credentials : credentials[c].status = "revoked" =>
          c \in revocations \/ \E d \in Credentials : credentials[d] # Absent /\ credentials[d].from = c
    /\ \A g \in Grants : grants[g].status = "revoked" <=> g \in revocations

(* The same permission is never granted twice, so that revoking it once     *)
(* takes it away.                                                           *)
OneActiveGrant ==
    \A g, h \in Grants :
        /\ grants[g].status = "active" /\ grants[h].status = "active" /\ g # h
        => grants[g].account # grants[h].account \/ grants[g].of # grants[h].of

(* What holds of credentials and grants at any time.                        *)
ServiceInvariant ==
    ServiceTypeOK /\ RotationHandsOver /\ EveryRevocationExplained /\ OneActiveGrant

(* A credential that is refused once is refused for good: neither a call    *)
(* under way nor a second one brings a credential back, and no grant is     *)
(* added to an account that may not act.                                    *)
DeadStaysDead ==
    [][/\ \A c \in Credentials :
             credentials[c] # Absent /\ ~current(c) => ~current(c)'
       /\ \A g \in Grants :
             grants[g] = Absent /\ grants'[g] # Absent => accounts[grants'[g].account] = "active"]_serviceVars
=============================================================================
