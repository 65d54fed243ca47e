----------------------------- MODULE HumanRequests -----------------------------
(***************************************************************************)
(* Requests of members on the delivery service, from the resolution of     *)
(* their grants (humanauthz, principalauthz) over the guard (deliveryauthz)*)
(* to the operation, while administrators change members and roles         *)
(* (ProjectRoles).                                                         *)
(*                                                                         *)
(* The grants are read by one query when a request is authorized, and each *)
(* of them is verified by a query of its own in the guard, outside of any  *)
(* transaction: tables may change between any two of these queries.  The   *)
(* operation runs on what the guard handed on and asks nobody again.       *)
(***************************************************************************)
EXTENDS ProjectRoles

CONSTANTS
    Tenant, Operations, permissionOf, requires, requiredScope, Listing, Searching,
    projectOf,
    SystemAdministrator,  \* the role that administrators hold in the organization
    roleGrants,           \* [roles -> SUBSET (permissions \X scope types)]
    MaxRequests           \* bound on requests under way

INSTANCE Permits WITH Owned <- OwnProjects, Foreign <- OtherProjects

(* A role that holds a permission holds it in the scope of each operation   *)
(* that needs it, as the roles of the dictionary do.  The guard relies on   *)
(* it: it refuses a request when one of its grants does not hold in the     *)
(* scope of the operation.                                                  *)
ASSUME RequestsAssumption ==
    /\ isDictionary
    /\ SystemAdministrator \in OtherRoleIDs
    /\ MaxRequests \in Nat
    /\ \A op \in Operations, r \in RoleIDs : \A x \in roleGrants[r] :
          x[1] \in operationPermissions(op) => <<x[1], requiredScope[op]>> \in roleGrants[r]

VARIABLES requests

requestVars == <<memberVars, requests>>

-----------------------------------------------------------------------------
Scope == {Organization} \cup {Project(p) : p \in Projects}

Permissions == {permissionOf[op] : op \in Operations}

Grant == [permission : Permissions, role : RoleIDs, scope : Scope]

(* The field had is history, without influence: the rights that the tables  *)
(* gave the user at the moments of the guard's queries so far.              *)
Request ==
    [user : Users, op : Operations, target : Targets,
     stage : {"resolved", "verifying", "admitted"},
     grants : SUBSET Grant, unverified : SUBSET Grant, projects : SUBSET Projects,
     had : SUBSET (Operations \X SUBSET OwnProjects)]

RequestsTypeOK ==
    /\ RolesTypeOK
    /\ requests \subseteq Request
    /\ \A r \in requests : r.target \in targets(r.op) /\ r.projects \subseteq OwnProjects

RequestsInit == RolesInit /\ requests = {}

-----------------------------------------------------------------------------
(* The roles a user holds, with their scopes: bindings of their own and,    *)
(* for administrators, through a team.                                      *)
held(u) ==
    (IF u \in SystemAdministrators THEN {<<SystemAdministrator, Organization>>} ELSE {})
    \cup {<<bindings[b].of.role, Project(bindings[b].of.project)>> :
             b \in {c \in Bindings : bindings[c].status = "active" /\ bindings[c].of.user = u}}

(* The joins of all queries with organizations and users.                   *)
enabled(u) == organization = "active" /\ active(u)

(* activeHumanGrantsQuery: any scope type of the role's grant will do.      *)
resolvable(u, op) ==
    {g \in Grant :
        /\ enabled(u)
        /\ <<g.role, g.scope>> \in held(u)
        /\ g.permission \in operationPermissions(op)
        /\ \E type \in {"organization", "project", "object"} :
              <<g.permission, type>> \in roleGrants[g.role]}

(* Faulty variant: grants that were resolved are trusted.                   *)
verified_Resolved(u, op, g) == TRUE

(* activeBindingGrantQuery for one grant, with the scope of the operation.  *)
verified(u, op, g) ==
    /\ enabled(u)
    /\ <<g.role, g.scope>> \in held(u)
    /\ <<g.permission, requiredScope[op]>> \in roleGrants[g.role]

(* What the tables say, without grants: the parts of the operation that the *)
(* user may do now, in each project (or in the organization).               *)
rights(u, op) ==
    {x \in partsOf(op) \X placesOf(op) :
        LET fits(role) == <<permissionOf[x[1]], requiredScope[op]>> \in roleGrants[role] IN
        /\ organization = "active" /\ users[u].status = "active"
        /\ \/ u \in SystemAdministrators /\ fits(SystemAdministrator)
           \/ \E b \in Bindings : /\ bindings[b].status = "active"
                                  /\ bindings[b].of.user = u
                                  /\ bindings[b].of.project \in x[2]
                                  /\ fits(bindings[b].of.role)}

(* Authorization of the request, before the guard: every permission of the  *)
(* operation is granted somewhere.                                          *)
Resolve(u, op, t) ==
    LET grants == resolvable(u, op) IN
    /\ Cardinality(requests) < MaxRequests
    /\ \A permission \in operationPermissions(op) : \E g \in grants : g.permission = permission
    /\ requests' = requests \cup
          {[user |-> u, op |-> op, target |-> t, stage |-> "resolved",
            grants |-> grants, unverified |-> grants, projects |-> {}, had |-> {}]}
    /\ UNCHANGED memberVars

(* One query of verifyGrants; the grants come in an order of their own.     *)
VerifyGrant(r, g) ==
    /\ r.stage \in {"resolved", "verifying"}
    /\ g \in r.unverified
    /\ requests' = (requests \ {r}) \cup
          (IF verified(r.user, r.op, g)
           THEN {[r EXCEPT !.stage = "verifying", !.unverified = @ \ {g},
                           !.had = @ \cup rights(r.user, r.op)]}
           ELSE {})
    /\ UNCHANGED memberVars

(* The rest of OperationGuard.Prepare, on the verified grants.  It looks up *)
(* the item and the projects, whose places in the organization never change.*)
Admit(r) ==
    /\ r.stage = "verifying" /\ r.unverified = {}
    /\ requests' = (requests \ {r}) \cup
          (IF allows(r.grants, r.op, r.target)
           THEN {[r EXCEPT !.stage = "admitted", !.had = {},
                           !.projects = visibleProjects(r.grants, r.op, r.target)]}
           ELSE {})
    /\ UNCHANGED memberVars

(* The operation ends, successfully or not; what it writes is modelled      *)
(* elsewhere.  Or the request ends before, with a query that failed.        *)
Finish(r) ==
    /\ requests' = requests \ {r}
    /\ UNCHANGED memberVars

RequestStep ==
    \/ \E u \in Users, op \in Operations : \E t \in targets(op) : Resolve(u, op, t)
    \/ \E r \in requests :
          \/ \E g \in r.unverified : VerifyGrant(r, g)
          \/ Admit(r) \/ Finish(r)

RequestsNext ==
    \/ RolesNext /\ UNCHANGED requests
    \/ RequestStep

RequestsSpec == RequestsInit /\ [][RequestsNext]_requestVars

-----------------------------------------------------------------------------
(* Properties.                                                              *)

(* The user may do all of it in the project now.                            *)
mayDo(u, op, p) == allParts(rights(u, op), op, {p})

entitled(r) == entitling(rights(r.user, r.op), r.op, r.target)

(* The guard, if nothing changes while it works.                            *)
admissible(r) ==
    /\ \A g \in r.grants : verified(r.user, r.op, g)
    /\ allows(r.grants, r.op, r.target)

(* A request gets through the guard only for what the tables allowed at the *)
(* moments of the guard's own queries: each part of the operation, in the   *)
(* project of the target and in every project shown, at one of them.  What  *)
(* was revoked between the resolution of the grants and the guard does not  *)
(* count any more; and if nothing changes while the guard works, the whole  *)
(* operation was allowed then.                                              *)
AdmittedWasEntitled ==
    [][\A r \in requests : \A s \in requests' \ requests :
          r.stage = "verifying"
          /\ s = [r EXCEPT !.stage = "admitted", !.had = {}, !.projects = s.projects] =>
             justified(r.had, r.op, r.target, s.projects)]_requestVars

(* The two ways of asking agree: as long as the grants of a request are     *)
(* still those one would resolve now, the guard lets it through if the      *)
(* tables allow it, and only then, and lists all the projects the tables    *)
(* allow.  Rights add up: no further role makes a request fail.             *)
GuardAgreesWithTables ==
    \A r \in requests :
        r.stage = "resolved" /\ r.grants = resolvable(r.user, r.op) =>
           /\ admissible(r) <=> entitled(r)
           /\ admissible(r) /\ listsProjects(r.op, r.target) =>
                 visibleProjects(r.grants, r.op, r.target) =
                    {p \in OwnProjects : mayDo(r.user, r.op, p)}

(* What holds of roles and requests at any time.                            *)
RequestsInvariant == RequestsTypeOK /\ RolesInvariant /\ GuardAgreesWithTables
=============================================================================
