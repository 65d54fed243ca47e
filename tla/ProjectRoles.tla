----------------------------- MODULE ProjectRoles -----------------------------
(***************************************************************************)
(* Project roles of the members: administrators assign and revoke them     *)
(* (localprojectroleadmin), while other administrators create, disable and *)
(* reset the members (LocalAccounts).                                      *)
(*                                                                         *)
(* Like the calls about members, a call about a role passes its guard in   *)
(* one step and has its root transaction in a later one.                   *)
(***************************************************************************)
EXTENDS LocalAccounts

CONSTANTS
    OwnProjects, OtherProjects,   \* of the organization, and of others
    ProjectRoleIDs, OtherRoleIDs, \* roles the dictionary binds to a project, and others
    Bindings,                     \* IDs of project role bindings
    AskedFor,                     \* bound: the assignments that administrators ask for
    MaxRoleCalls                  \* bound on role calls under way

ASSUME RolesAssumption ==
    /\ MaxRoleCalls \in Nat
    /\ AskedFor \subseteq [project : OwnProjects \cup OtherProjects, user : Users,
                           role : ProjectRoleIDs \cup OtherRoleIDs]

VARIABLES
    bindings,       \* the role_bindings rows of scope project held by a user
    roleCalls,      \* calls past their guard
    roleTrail       \* audit entries and outbox events about bindings

roleVars == <<bindings, roleCalls, roleTrail>>
memberVars == <<accountVars, roleVars>>

-----------------------------------------------------------------------------
Projects == OwnProjects \cup OtherProjects
RoleIDs == ProjectRoleIDs \cup OtherRoleIDs

(* The columns that never change.                                           *)
Assignment == [project : Projects, user : Users, role : RoleIDs]

Binding == [status : {"active", "disabled"}, revision : {1, 2}, of : Assignment]

NoBinding == [status |-> "absent", revision |-> 0]

AssignCall == [op : {"assign"}, actor : Users, of : AskedFor]

RevokeCall == [op : {"revoke"}, actor : Users, binding : Bindings, revision : {1, 2}]

(* Types; and a binding belongs to a project of the organization, a member  *)
(* that exists and a role that may be bound to a project.                   *)
RolesTypeOK ==
    /\ AccountsTypeOK
    /\ bindings \in [Bindings -> Binding \cup {NoBinding}]
    /\ roleCalls \subseteq AssignCall \cup RevokeCall
    /\ roleTrail \subseteq [op : {"assign", "revoke"}, binding : Bindings, revision : {1, 2}]
    /\ \A b \in Bindings : bindings[b] # NoBinding =>
          /\ bindings[b].of.project \in OwnProjects
          /\ bindings[b].of.role \in ProjectRoleIDs
          /\ users[bindings[b].of.user].status # "absent"

RolesInit ==
    /\ AccountsInit
    /\ bindings = [b \in Bindings |-> NoBinding]
    /\ roleCalls = {}
    /\ roleTrail = {}

-----------------------------------------------------------------------------
(* OperationGuard.Prepare: the same question as for members.                *)
PrepareRole(call) ==
    /\ organization = "active"
    /\ call.actor \in administrators
    /\ Cardinality(roleCalls) < MaxRoleCalls
    /\ roleCalls' = roleCalls \cup {call}
    /\ UNCHANGED <<accountVars, bindings, roleTrail>>

(* The role is one the dictionary binds to projects.  The comparison of its *)
(* grants with the tables finds them as the migrations left them.           *)
assignable(role) == role \in ProjectRoleIDs

activeBindings(of) ==
    {b \in Bindings : bindings[b].status = "active" /\ bindings[b].of = of}

(* Faulty variant: an active binding of the same role is no obstacle.       *)
free_Always(of) == TRUE

(* activeBindingForTuple, and the unique index behind it.                   *)
free(of) == activeBindings(of) = {}

member(u) == active(u)

recordedRole(op, b) ==
    roleTrail' = roleTrail \cup {[op |-> op, binding |-> b, revision |-> bindings'[b].revision]}

(* Faulty variant: the row of a revoked binding is used again.              *)
unused_Revoked(b) == bindings[b].status # "active"

unused(b) == bindings[b] = NoBinding         \* the ID is random and new

Assign(call) ==
    /\ call.op = "assign"
    /\ call.of.project \in OwnProjects
    /\ member(call.of.user)
    /\ assignable(call.of.role)
    /\ free(call.of)
    /\ \E b \in Bindings :
          /\ unused(b)
          /\ bindings' = [bindings EXCEPT ![b] =
                [status |-> "active", revision |-> 1, of |-> call.of]]
          /\ recordedRole("assign", b)

(* What is read before the update and compared again by it.                 *)
currentBinding(b, revision) ==
    bindings[b].status = "active" /\ bindings[b].revision = revision

(* The row after the update; the triggers allow no other change.            *)
withdrawn(row) == [row EXCEPT !.status = "disabled", !.revision = 2]

Revoke(call) ==
    /\ call.op = "revoke"
    /\ currentBinding(call.binding, call.revision)
    /\ bindings' = [bindings EXCEPT ![call.binding] = withdrawn(@)]
    /\ recordedRole("revoke", call.binding)

CarryOutRole(call) ==
    /\ call \in roleCalls
    /\ Assign(call) \/ Revoke(call)
    /\ roleCalls' = roleCalls \ {call}
    /\ UNCHANGED accountVars

RefuseRole(call) ==
    /\ call \in roleCalls
    /\ roleCalls' = roleCalls \ {call}
    /\ UNCHANGED <<accountVars, bindings, roleTrail>>

RoleStep ==
    \/ \E call \in AssignCall \cup RevokeCall : PrepareRole(call)
    \/ \E call \in roleCalls : CarryOutRole(call) \/ RefuseRole(call)

RolesNext ==
    \/ AdministratorStep /\ UNCHANGED roleVars
    \/ RoleStep

RolesSpec == RolesInit /\ [][RolesNext]_memberVars

-----------------------------------------------------------------------------
(* Properties.                                                              *)

(* However many administrators assign the same role at the same time, a     *)
(* member holds it in a project through at most one active binding, so that *)
(* one revocation takes it away.                                            *)
OneActivePerAssignment ==
    \A b, c \in Bindings :
        /\ bindings[b].status = "active"
        /\ bindings[c].status = "active"
        /\ bindings[b].of = bindings[c].of
        => b = c

(* Every revision of every binding was recorded, as the assignment or the   *)
(* revocation it was: there is neither a silent revocation nor one that two *)
(* administrators are told they carried out.                                *)
EveryBindingRevisionAccounted ==
    \A b \in Bindings :
        {<<e.op, e.revision>> : e \in {f \in roleTrail : f.binding = b}} =
           CASE bindings[b].status = "absent" -> {}
             [] bindings[b].status = "active" -> {<<"assign", 1>>}
             [] bindings[b].status = "disabled" -> {<<"assign", 1>>, <<"revoke", 2>>}

(* What holds of the bindings at any time.                                  *)
RolesInvariant == RolesTypeOK /\ OneActivePerAssignment /\ EveryBindingRevisionAccounted

(* The history of bindings is kept: a binding never changes what it binds,  *)
(* never disappears and, once revoked, never comes back, whatever stale     *)
(* calls are still under way.                                               *)
BindingHistoryKept ==
    \A b \in Bindings : bindings[b] # NoBinding =>
        /\ bindings'[b] # NoBinding
        /\ bindings'[b].of = bindings[b].of
        /\ bindings[b].status = "disabled" => bindings'[b] = bindings[b]

(* A member that is disabled gains no role any more, even by an assignment  *)
(* that was authorized while the member was active.                         *)
DisabledGainsNothing ==
    \A b \in Bindings :
        bindings[b] = NoBinding /\ bindings'[b] # NoBinding =>
           users[bindings'[b].of.user].status = "active"

(* What no step does to bindings, whatever calls are still under way:       *)
(* rewrite their history or give a disabled member a role.                  *)
BindingsOnlyGrow == [][BindingHistoryKept /\ DisabledGainsNothing]_memberVars
=============================================================================
