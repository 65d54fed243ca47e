---------------------------- MODULE ServiceRequests ----------------------------
(***************************************************************************)
(* Requests of service accounts on the delivery and configuration          *)
(* operations: authentication (serviceauth), resolution of the grants      *)
(* (serviceauthz) and the guard (deliveryauthz).  There are two queries to *)
(* resolve each permission and one to verify each grant, all outside of    *)
(* any transaction, and ServiceAccounts changes the tables in between.     *)
(***************************************************************************)
EXTENDS ServiceAccounts

CONSTANTS
    Tenant, Operations, permissionOf, requires, requiredScope, Listing, Searching,
    Owned, projectOf,
    Configured,      \* [account, operation] pairs of iotd_config_service_grants; no code
                     \* of the service writes that table
    MaxRequests      \* bound on requests under way

INSTANCE Permits WITH Foreign <- {}

ASSUME RequestsAssumption ==
    /\ isDictionary
    /\ \A op \in Operations : \A x, y \in {op} \cup requires[op] :
          permissionOf[x] = permissionOf[y] => x = y
    /\ MaxRequests \in Nat
    /\ Configured \subseteq
          [account : Accounts, operation : {op \in Operations : requiredScope[op] = "organization"}]
    /\ Grantable \subseteq
          [operation : {op \in Operations : requiredScope[op] # "organization"}, project : Owned]

VARIABLES requests

requestVars == <<serviceVars, requests>>

-----------------------------------------------------------------------------
(* The role of a service account's grant is the account itself.             *)
ServiceGrant ==
    [permission : {permissionOf[op] : op \in Operations}, role : Accounts,
     scope : {Organization} \cup {Project(p) : p \in Owned}]

(* Where a permission may be granted: in service_operation_grants, or in    *)
(* iotd_config_service_grants.                                              *)
Tables == {"projects", "configuration"}

(* unasked holds the queries of the resolution still to be made.  The field *)
(* had is history, without influence: the rights that the tables gave the   *)
(* account at the moments of the guard's queries so far.                    *)
RequestInHand ==
    [credential : Credentials, account : Accounts, op : Operations, target : Targets,
     stage : {"authenticated", "resolved", "verifying", "admitted"},
     unasked : SUBSET ({permissionOf[op] : op \in Operations} \X Tables),
     grants : SUBSET ServiceGrant, unverified : SUBSET ServiceGrant,
     projects : SUBSET Owned, had : SUBSET (Operations \X SUBSET Owned)]

(* Types; and a request acts for the account its credential was issued to.  *)
RequestsTypeOK ==
    /\ ServiceTypeOK
    /\ requests \subseteq RequestInHand
    /\ \A r \in requests : credentials[r.credential].account = r.account

RequestsInit == ServiceInit /\ requests = {}

-----------------------------------------------------------------------------
(* The projects in which an account is granted an operation: the joins of   *)
(* activeServiceGrantsQuery.                                                *)
grantedProjects(a, op) ==
    {p \in Owned : activeAccount(a) /\ \E g \in Grants :
        /\ grants[g].status = "active"
        /\ grants[g].account = a
        /\ grants[g].of = [operation |-> op, project |-> p]}

configured(a, op) == activeAccount(a) /\ [account |-> a, operation |-> op] \in Configured

(* Each permission stands for one part of the operation, and only a grant   *)
(* of that part counts.                                                     *)
resolvable(a, op) ==
    {g \in ServiceGrant :
        /\ g.permission \in operationPermissions(op) /\ g.role = a
        /\ LET part == operationOf(op, g.permission) IN
              \/ g.scope = Organization /\ configured(a, part)
              \/ \E p \in grantedProjects(a, part) : g.scope = Project(p)}

(* Faulty variant: grants that were resolved are trusted.                   *)
verified_Resolved(a, op, g) == TRUE

(* verifyServiceGrants for one grant.                                       *)
verified(a, op, g) ==
    LET part == operationOf(op, g.permission) IN
    IF requiredScope[op] = "organization"
    THEN g.scope = Organization /\ configured(a, part)
    ELSE g.scope.type = "project" /\ g.scope.id \in grantedProjects(a, part)

(* What the tables say, without permissions: the parts of the operation     *)
(* that the account may do now, in each project (or in the organization).   *)
rights(a, op) ==
    {x \in partsOf(op) \X placesOf(op) :
        /\ organization = "active" /\ accounts[a] = "active"
        /\ \/ x[2] = {} /\ [account |-> a, operation |-> x[1]] \in Configured
           \/ \E g \in Grants :
                 /\ grants[g].status = "active" /\ grants[g].account = a
                 /\ grants[g].of.operation = x[1] /\ grants[g].of.project \in x[2]}

(* The account a credential stands for.                                     *)
accountOf(c) == {credentials[c].account}

(* Verify of the gRPC interceptor.                                          *)
Authenticate(c, op, t) ==
    /\ Cardinality(requests) < MaxRequests
    /\ current(c)
    /\ \E a \in accountOf(c) :
          requests' = requests \cup
             {[credential |-> c, account |-> a, op |-> op, target |-> t, stage |-> "authenticated",
               unasked |-> operationPermissions(op) \X Tables,
               grants |-> {}, unverified |-> {}, projects |-> {}, had |-> {}]}
    /\ UNCHANGED serviceVars

(* The rows of one query for one permission.                                *)
rowsOf(a, op, permission, table) ==
    {g \in resolvable(a, op) :
        g.permission = permission /\ (g.scope = Organization <=> table = "configuration")}

(* Permissions whose projects have been read, but not their configuration.  *)
halfAsked(r) ==
    {x[1] : x \in {y \in r.unasked : y[2] = "configuration" /\ <<y[1], "projects">> \notin r.unasked}}

(* One query of ResolveGrants: one permission after the other, each first   *)
(* among the projects.                                                      *)
Query(r, permission, table) ==
    LET rows == rowsOf(r.account, r.op, permission, table) IN
    /\ r.stage = "authenticated"
    /\ <<permission, table>> \in r.unasked
    /\ IF halfAsked(r) = {} THEN table = "projects"
       ELSE table = "configuration" /\ permission \in halfAsked(r)
    /\ requests' = (requests \ {r}) \cup
          {[r EXCEPT !.unasked = @ \ {<<permission, table>>},
                     !.grants = @ \cup rows, !.unverified = @ \cup rows]}
    /\ UNCHANGED serviceVars

(* A request without a grant for every permission ends here.                *)
Authorize(r) ==
    /\ r.stage = "authenticated" /\ r.unasked = {}
    /\ requests' = (requests \ {r}) \cup
          (IF \A permission \in operationPermissions(r.op) :
                 \E g \in r.grants : g.permission = permission
           THEN {[r EXCEPT !.stage = "resolved"]}
           ELSE {})
    /\ UNCHANGED serviceVars

(* One query of verifyServiceGrants; the grants come in an order of their   *)
(* own.                                                                     *)
VerifyGrant(r, g) ==
    /\ r.stage \in {"resolved", "verifying"}
    /\ g \in r.unverified
    /\ requests' = (requests \ {r}) \cup
          (IF verified(r.account, r.op, g)
           THEN {[r EXCEPT !.stage = "verifying", !.unverified = @ \ {g},
                           !.had = @ \cup rights(r.account, r.op)]}
           ELSE {})
    /\ UNCHANGED serviceVars

(* The rest of OperationGuard.Prepare, as for members.                      *)
Admit(r) ==
    /\ r.stage = "verifying" /\ r.unverified = {}
    /\ requests' = (requests \ {r}) \cup
          (IF allows(r.grants, r.op, r.target)
           THEN {[r EXCEPT !.stage = "admitted", !.had = {},
                           !.projects = visibleProjects(r.grants, r.op, r.target)]}
           ELSE {})
    /\ UNCHANGED serviceVars

(* The operation ends, or the request before it, with a query that failed.  *)
Finish(r) ==
    /\ requests' = requests \ {r}
    /\ UNCHANGED serviceVars

RequestsNext ==
    \/ ServiceStep /\ UNCHANGED requests
    \/ \E c \in Credentials, op \in Operations : \E t \in targets(op) : Authenticate(c, op, t)
    \/ \E r \in requests :
          \/ \E x \in r.unasked : Query(r, x[1], x[2])
          \/ \E g \in r.unverified : VerifyGrant(r, g)
          \/ Authorize(r) \/ Admit(r) \/ Finish(r)

RequestsSpec == RequestsInit /\ [][RequestsNext]_requestVars

-----------------------------------------------------------------------------
(* Properties.                                                              *)

(* The account may do all of the operation in the project now.              *)
mayDo(a, op, p) == allParts(rights(a, op), op, {p})

entitled(r) == entitling(rights(r.account, r.op), r.op, r.target)

(* The guard, if nothing changes while it works.                            *)
admissible(r) ==
    /\ r.grants # {}
    /\ \A g \in r.grants : verified(r.account, r.op, g)
    /\ allows(r.grants, r.op, r.target)

(* A service account gets through the guard only for what its own grants    *)
(* allowed at the moments of the guard's own queries: each part of the      *)
(* operation, in the project concerned and in every project shown, at one   *)
(* of them.  Grants that were resolved one by one and revoked before the    *)
(* guard do not count, and no grant is stretched to another operation or to *)
(* the whole organization.                                                  *)
AdmittedWasEntitled ==
    [][\A r \in requests : \A s \in requests' \ requests :
          r.stage = "verifying"
          /\ s = [r EXCEPT !.stage = "admitted", !.had = {}, !.projects = s.projects] =>
             justified(r.had, r.op, r.target, s.projects)]_requestVars

(* With the grants one would resolve now, the guard decides as the tables   *)
(* do, and lists the projects they list.                                    *)
GuardAgreesWithTables ==
    \A r \in requests :
        r.stage = "resolved" /\ r.grants = resolvable(r.account, r.op) =>
           /\ admissible(r) <=> entitled(r)
           /\ admissible(r) /\ listsProjects(r.op, r.target) =>
                 visibleProjects(r.grants, r.op, r.target) = {p \in Owned : mayDo(r.account, r.op, p)}

(* What holds of accounts and requests at any time.                         *)
RequestsInvariant == RequestsTypeOK /\ ServiceInvariant /\ GuardAgreesWithTables
=============================================================================
