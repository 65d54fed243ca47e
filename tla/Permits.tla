-------------------------------- MODULE Permits --------------------------------
(***************************************************************************)
(* What a set of grants allows: the permission dictionary and the pure     *)
(* part of the delivery guard (contracts/authorization, deliveryauthz).    *)
(*                                                                         *)
(* A grant is a permission held through a role (a service account's grants *)
(* use a role of their own) in a scope: the organization or one project.   *)
(* A target is what a request names: nothing, a project or a work item.    *)
(***************************************************************************)
EXTENDS Naturals, FiniteSets

CONSTANTS
    Tenant,          \* the organization
    Operations,
    permissionOf,    \* [Operations -> permission]
    requires,        \* [Operations -> SUBSET Operations], the parts of a root operation
    requiredScope,   \* [Operations -> {"organization", "project", "object"}]
    Listing,         \* operations that answer for all the projects one may see
    Searching,       \* those that do so when they name no project
    Owned, Foreign,  \* projects of the organization, and of others
    projectOf        \* [work items -> project]

(* What a dictionary has to be; the modules that take these definitions     *)
(* assume it of theirs.                                                     *)
isDictionary ==
    /\ requires \in [Operations -> SUBSET Operations]
    /\ requiredScope \in [Operations -> {"organization", "project", "object"}]
    /\ \A op \in Operations : \A part \in requires[op] : requiredScope[part] = requiredScope[op]
    /\ Listing \cup Searching \subseteq Operations
    /\ Listing \cap Searching = {}
    /\ \A op \in Listing \cup Searching : requiredScope[op] = "project"
    /\ Owned \cap Foreign = {}

-----------------------------------------------------------------------------
operationPermissions(op) == {permissionOf[o] : o \in {op} \cup requires[op]}

(* The part of a root operation that a permission stands for.               *)
operationOf(op, permission) ==
    CHOOSE o \in {op} \cup requires[op] : permissionOf[o] = permission

Organization == [type |-> "organization", id |-> Tenant]

Project(p) == [type |-> "project", id |-> p]

WorkItems == DOMAIN projectOf

Targets ==
    {[type |-> "none"]} \cup [type : {"project"}, id : Owned \cup Foreign]
       \cup [type : {"object"}, id : WorkItems]

(* What the messages of an operation can name.                              *)
targets(op) ==
    {t \in Targets :
        CASE requiredScope[op] = "organization" -> t.type = "none"
          [] op \in Searching -> t.type \in {"none", "project"}
          [] op \in Listing -> t.type \in {"none", "project"}  \* the filter of a saved view
          [] requiredScope[op] = "object" -> t.type = "object"
          [] OTHER -> t.type = "project"}

(* Each permission of the operation is granted in one of the scopes.        *)
permissionsAllow(grants, op, scopes) ==
    \A permission \in operationPermissions(op) :
        \E g \in grants : g.permission = permission /\ g.scope \in scopes

allowsOrganization(grants, op) == permissionsAllow(grants, op, {Organization})

allowsProject(grants, op, p) == permissionsAllow(grants, op, {Organization, Project(p)})

allowedProjects(grants, op) == {p \in Owned : allowsProject(grants, op, p)}

owned(p) == p \in Owned

(* The project that a target names or lies in.                              *)
projectOfTarget(t) == IF t.type = "object" THEN projectOf[t.id] ELSE t.id

listsProjects(op, t) == op \in Listing \/ (op \in Searching /\ t.type = "none")

(* The scope checks of OperationGuard.Prepare on verified grants.           *)
allows(grants, op, t) ==
    CASE requiredScope[op] = "organization" -> allowsOrganization(grants, op)
      [] listsProjects(op, t) ->
            t.type = "project" => t.id \in allowedProjects(grants, op)
      [] OTHER -> LET p == projectOfTarget(t) IN owned(p) /\ allowsProject(grants, op, p)

(* The projects that the guard hands on to the operation.                   *)
visibleProjects(grants, op, t) ==
    CASE requiredScope[op] = "organization" -> Owned
      [] listsProjects(op, t) -> allowedProjects(grants, op)
      [] OTHER -> {projectOfTarget(t)}

-----------------------------------------------------------------------------
(* What the properties compare the guard with.  A right is a part of an     *)
(* operation in a place: the organization ({}) or one project of it.        *)
partsOf(op) == {op} \cup requires[op]

placesOf(op) == IF requiredScope[op] = "organization" THEN {{}} ELSE {{p} : p \in Owned}

allParts(rights, op, place) == place \in placesOf(op) /\ partsOf(op) \X {place} \subseteq rights

(* Rights that entitle to the operation on the target.                      *)
entitling(rights, op, t) ==
    CASE requiredScope[op] = "organization" -> allParts(rights, op, {})
      [] listsProjects(op, t) -> t.type = "project" => allParts(rights, op, {t.id})
      [] OTHER -> allParts(rights, op, {projectOfTarget(t)})

(* And to being shown the projects, if the operation is one on projects.    *)
justified(rights, op, t, projects) ==
    /\ entitling(rights, op, t)
    /\ requiredScope[op] # "organization" => \A p \in projects : allParts(rights, op, {p})
=============================================================================
