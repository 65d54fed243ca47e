------------------------- MODULE HumanRequests_proofs -------------------------
(***************************************************************************)
(* Safety of ProjectRoles and HumanRequests for any members, projects,     *)
(* roles, bindings and operations.  What they need to know of the accounts *)
(* is proved in LocalSessions_proofs.                                      *)
(***************************************************************************)
EXTENDS HumanRequests, LocalSessions_proofs

(* A row of a binding that was assigned.                                    *)
Assigned(row) == row.status # "absent"

(* The entries about a binding, as operation and revision.                  *)
entriesOf(entries, b) == {<<e.op, e.revision>> : e \in {f \in entries : f.binding = b}}

(* What has to be recorded of a row.                                        *)
history(row) ==
    CASE row.status = "absent" -> {}
      [] row.status = "active" -> {<<"assign", 1>>}
      [] row.status = "disabled" -> {<<"assign", 1>>, <<"revoke", 2>>}

(* RolesInvariant, on accounts that are in order.                           *)
RolesIInv == AccountsIInv /\ RolesInvariant

-----------------------------------------------------------------------------
(* Bindings.                                                                *)

LEMMA BindingRows ==
    ASSUME RolesTypeOK, NEW b \in Bindings
    PROVE  /\ bindings[b].status = "absent" <=> bindings[b] = NoBinding
           /\ bindings[b] # NoBinding => bindings[b] \in Binding
           /\ bindings[b].status \in {"absent", "active", "disabled"}
  BY DEF RolesTypeOK, Binding, NoBinding

(* The calls of administrators about members leave all bindings in order:   *)
(* nobody who has one is forgotten.                                         *)
LEMMA AccountsKeepRoles ==
    ASSUME RolesIInv, [AdministratorStep]_accountVars, UNCHANGED roleVars
    PROVE  RolesIInv'
  <1>1. AccountsIInv'
    BY AdministratorsKeep DEF RolesIInv
  <1>2. AccountsTypeOK'
    BY <1>1 DEF AccountsIInv, Rows
  <1>3. MembersForward
    <2>1. ASSUME NEW call \in prepared, CarryOut(call) PROVE MembersForward
      <3>1. call \in Asked
        BY DEF RolesIInv, AccountsIInv
      <3>2. created(call) \/ disabled(call) \/ reset(call)
        BY <2>1 DEF CarryOut
      <3>3. Rows
        BY DEF RolesIInv, AccountsIInv
      <3> QED
        BY <3>1, <3>2, <3>3, CallForward
    <2>2. ASSUME users' = users, credentials' = credentials PROVE MembersForward
      BY <2>2, UnchangedForward
    <2> QED
      BY <2>1, <2>2 DEF AdministratorStep, Prepare, Refuse, DisableOrganization, accountVars
  <1>4. RolesTypeOK'
    <2>1. UNCHANGED <<bindings, roleCalls, roleTrail>>
      BY DEF roleVars
    <2>2. RolesTypeOK
      BY DEF RolesIInv, RolesInvariant
    <2>3. \A b \in Bindings : bindings[b] # NoBinding => bindings[b].of.user \in Users
      BY <2>2, BindingRows DEF Binding, Assignment
    <2> QED
      BY <1>2, <1>3, <2>1, <2>2, <2>3 DEF RolesTypeOK, MembersForward
  <1>5. OneActivePerAssignment' /\ EveryBindingRevisionAccounted'
    BY DEF RolesIInv, RolesInvariant, OneActivePerAssignment, EveryBindingRevisionAccounted, roleVars
  <1> QED
    BY <1>1, <1>4, <1>5 DEF RolesIInv, RolesInvariant

(* One binding gets a new row, and an entry about it.                       *)
LEMMA EntryFollows ==
    ASSUME RolesTypeOK, EveryBindingRevisionAccounted,
           NEW b \in Bindings, NEW op \in {"assign", "revoke"}, NEW row \in Binding,
           bindings' = [bindings EXCEPT ![b] = row],
           recordedRole(op, b),
           \/ op = "assign" /\ bindings[b] = NoBinding /\ row.status = "active" /\ row.revision = 1
           \/ op = "revoke" /\ bindings[b].status = "active" /\ row.status = "disabled" /\ row.revision = 2
    PROVE  EveryBindingRevisionAccounted'
  <1>1. bindings'[b] = row /\ \A c \in Bindings \ {b} : bindings'[c] = bindings[c]
    BY DEF RolesTypeOK
  <1>2. roleTrail' = roleTrail \cup {[op |-> op, binding |-> b, revision |-> row.revision]}
    BY <1>1 DEF recordedRole
  <1>3. \A c \in Bindings : entriesOf(roleTrail, c) = history(bindings[c])
    BY DEF EveryBindingRevisionAccounted, entriesOf, history
  <1>4. ASSUME NEW c \in Bindings PROVE entriesOf(roleTrail', c) = history(bindings'[c])
    <2>1. CASE c # b
      <3>1. entriesOf(roleTrail', c) = entriesOf(roleTrail, c)
        BY <1>2, <2>1 DEF entriesOf
      <3> QED
        BY <1>1, <1>3, <2>1, <3>1
    <2>2. CASE c = b
      <3>1. entriesOf(roleTrail', b) = entriesOf(roleTrail, b) \cup {<<op, row.revision>>}
        <4> DEFINE new == [op |-> op, binding |-> b, revision |-> row.revision]
        <4>1. {f \in roleTrail' : f.binding = b} = {f \in roleTrail : f.binding = b} \cup {new}
          BY <1>2
        <4>2. <<new.op, new.revision>> = <<op, row.revision>>
          OBVIOUS
        <4> HIDE DEF new
        <4> QED
          BY <4>1, <4>2 DEF entriesOf
      <3>2. entriesOf(roleTrail, b) = history(bindings[b])
        BY <1>3
      <3>3. history(row) = history(bindings[b]) \cup {<<op, row.revision>>}
        BY DEF history, NoBinding
      <3> QED
        BY <1>1, <2>2, <3>1, <3>2, <3>3
    <2> QED
      BY <2>1, <2>2
  <1> QED
    BY <1>4 DEF EveryBindingRevisionAccounted, entriesOf, history

(* The row of an assignment, and that of a revocation.                      *)
LEMMA AssignDoes ==
    ASSUME RolesTypeOK, NEW call \in roleCalls, Assign(call)
    PROVE  \E b \in Bindings :
              LET row == [status |-> "active", revision |-> 1, of |-> call.of] IN
              /\ row \in Binding
              /\ bindings[b] = NoBinding
              /\ bindings' = [bindings EXCEPT ![b] = row]
              /\ recordedRole("assign", b)
              /\ call.of.project \in OwnProjects /\ call.of.role \in ProjectRoleIDs
              /\ call.of.user \in Users /\ active(call.of.user)
              /\ activeBindings(call.of) = {}
  <1>1. call \in AssignCall
    BY DEF RolesTypeOK, Assign, AssignCall, RevokeCall
  <1>2. call.of \in Assignment
    BY <1>1, RolesAssumption DEF AssignCall, Assignment, Projects, RoleIDs
  <1>3. PICK b \in Bindings :
           /\ unused(b)
           /\ bindings' = [bindings EXCEPT ![b] =
                [status |-> "active", revision |-> 1, of |-> call.of]]
           /\ recordedRole("assign", b)
    BY DEF Assign
  <1>4. [status |-> "active", revision |-> 1, of |-> call.of] \in Binding
    BY <1>2 DEF Binding
  <1>5. /\ call.of.project \in OwnProjects /\ call.of.role \in ProjectRoleIDs
        /\ call.of.user \in Users /\ active(call.of.user)
        /\ activeBindings(call.of) = {}
    BY <1>2 DEF Assign, assignable, member, free, Assignment
  <1>6. bindings[b] = NoBinding
    BY <1>3 DEF unused
  <1> QED
    BY <1>3, <1>4, <1>5, <1>6

LEMMA WithdrawnRow ==
    ASSUME NEW row \in Binding
    PROVE  withdrawn(row) = [status |-> "disabled", revision |-> 2, of |-> row.of]
  <1> DEFINE first == [row EXCEPT !.status = "disabled"]
             second == [first EXCEPT !.revision = 2]
  <1>1. first \in Binding /\ first.status = "disabled" /\ first.of = row.of
    BY DEF Binding
  <1> HIDE DEF first
  <1>2. second \in Binding /\ second.status = first.status /\ second.revision = 2
        /\ second.of = first.of
    BY <1>1 DEF Binding
  <1>3. withdrawn(row) = second
    BY DEF withdrawn, first
  <1> HIDE DEF second
  <1>4. second = [status |-> second.status, revision |-> second.revision, of |-> second.of]
    BY <1>2 DEF Binding
  <1> QED
    BY <1>1, <1>2, <1>3, <1>4

LEMMA RevokeDoes ==
    ASSUME RolesTypeOK, NEW call \in roleCalls, Revoke(call)
    PROVE  \E b \in Bindings :
              LET row == [status |-> "disabled", revision |-> 2, of |-> bindings[b].of] IN
              /\ row \in Binding
              /\ bindings[b].status = "active" /\ bindings[b] \in Binding
              /\ bindings' = [bindings EXCEPT ![b] = row]
              /\ recordedRole("revoke", b)
  <1> DEFINE b == call.binding
  <1>1. call \in RevokeCall
    BY DEF RolesTypeOK, Revoke, AssignCall, RevokeCall
  <1>2. b \in Bindings
    BY <1>1 DEF RevokeCall
  <1>3. bindings[b].status = "active"
    BY DEF Revoke, currentBinding
  <1>4. bindings[b] \in Binding
    BY <1>2, <1>3 DEF RolesTypeOK, NoBinding
  <1>5. withdrawn(bindings[b]) = [status |-> "disabled", revision |-> 2, of |-> bindings[b].of]
    BY <1>4, WithdrawnRow
  <1>6. bindings' = [bindings EXCEPT ![b] =
                        [status |-> "disabled", revision |-> 2, of |-> bindings[b].of]]
    <2>1. bindings' = [bindings EXCEPT ![b] = withdrawn(bindings[b])]
      BY DEF Revoke
    <2> QED
      BY <1>5, <2>1
  <1>7. recordedRole("revoke", b)
    BY DEF Revoke
  <1>8. [status |-> "disabled", revision |-> 2, of |-> bindings[b].of] \in Binding
    BY <1>4 DEF Binding
  <1> HIDE DEF b
  <1> QED
    BY <1>2, <1>3, <1>4, <1>6, <1>7, <1>8

LEMMA AssignKeepsRoles ==
    ASSUME RolesInvariant, UNCHANGED accountVars, NEW call \in roleCalls, Assign(call),
           roleCalls' \subseteq roleCalls
    PROVE  RolesInvariant'
  <1>0. RolesTypeOK /\ OneActivePerAssignment /\ EveryBindingRevisionAccounted
    BY DEF RolesInvariant
  <1> DEFINE row == [status |-> "active", revision |-> 1, of |-> call.of]
  <1>1. PICK b \in Bindings :
           /\ row \in Binding
           /\ bindings[b] = NoBinding
           /\ bindings' = [bindings EXCEPT ![b] = row]
           /\ recordedRole("assign", b)
           /\ call.of.project \in OwnProjects /\ call.of.role \in ProjectRoleIDs
           /\ call.of.user \in Users /\ active(call.of.user)
           /\ activeBindings(call.of) = {}
    BY <1>0, AssignDoes
  <1>2. bindings'[b] = row /\ \A c \in Bindings \ {b} : bindings'[c] = bindings[c]
    BY <1>0, <1>1 DEF RolesTypeOK
  <1>3. row.status = "active" /\ row.revision = 1 /\ row.of = call.of
    OBVIOUS
  <1> HIDE DEF row
  <1>4. AccountsTypeOK' /\ users' = users
    BY <1>0 DEF RolesTypeOK, AccountsTypeOK, accountVars
  <1>5. bindings' \in [Bindings -> Binding \cup {NoBinding}]
    BY <1>0, <1>1 DEF RolesTypeOK
  <1>6. roleTrail' \subseteq [op : {"assign", "revoke"}, binding : Bindings, revision : {1, 2}]
    BY <1>0, <1>1, <1>2, <1>3 DEF RolesTypeOK, recordedRole
  <1>7. ASSUME NEW c \in Bindings, bindings'[c] # NoBinding
        PROVE  /\ bindings'[c].of.project \in OwnProjects
               /\ bindings'[c].of.role \in ProjectRoleIDs
               /\ users'[bindings'[c].of.user].status # "absent"
    <2>1. CASE c = b
      BY <1>1, <1>2, <1>3, <1>4, <2>1 DEF active
    <2>2. CASE c # b
      BY <1>0, <1>2, <1>4, <1>7, <2>2 DEF RolesTypeOK
    <2> QED
      BY <2>1, <2>2
  <1>8. RolesTypeOK'
    BY <1>0, <1>4, <1>5, <1>6, <1>7 DEF RolesTypeOK
  <1>9. OneActivePerAssignment'
    <2> SUFFICES ASSUME NEW c \in Bindings, NEW d \in Bindings,
                        bindings'[c].status = "active", bindings'[d].status = "active",
                        bindings'[c].of = bindings'[d].of
                 PROVE  c = d
      BY DEF OneActivePerAssignment
    <2>1. \A e \in Bindings : bindings[e].status = "active" => bindings[e].of # call.of
      BY <1>1 DEF activeBindings
    <2> QED
      BY <1>0, <1>2, <1>3, <2>1 DEF OneActivePerAssignment
  <1>10. EveryBindingRevisionAccounted'
    BY <1>0, <1>1, <1>3, EntryFollows
  <1> QED
    BY <1>8, <1>9, <1>10 DEF RolesInvariant

LEMMA RevokeKeepsRoles ==
    ASSUME RolesInvariant, UNCHANGED accountVars, NEW call \in roleCalls, Revoke(call),
           roleCalls' \subseteq roleCalls
    PROVE  RolesInvariant'
  <1>0. RolesTypeOK /\ OneActivePerAssignment /\ EveryBindingRevisionAccounted
    BY DEF RolesInvariant
  <1>1. PICK b \in Bindings :
           LET row == [status |-> "disabled", revision |-> 2, of |-> bindings[b].of] IN
           /\ row \in Binding
           /\ bindings[b].status = "active" /\ bindings[b] \in Binding
           /\ bindings' = [bindings EXCEPT ![b] = row]
           /\ recordedRole("revoke", b)
    BY <1>0, RevokeDoes
  <1> DEFINE row == [status |-> "disabled", revision |-> 2, of |-> bindings[b].of]
  <1>2. bindings'[b] = row /\ \A c \in Bindings \ {b} : bindings'[c] = bindings[c]
    BY <1>0, <1>1 DEF RolesTypeOK
  <1>3. row.status = "disabled" /\ row.revision = 2 /\ row.of = bindings[b].of /\ row \in Binding
    BY <1>1
  <1>4. bindings' = [bindings EXCEPT ![b] = row]
    BY <1>1
  <1> HIDE DEF row
  <1>5. AccountsTypeOK' /\ users' = users
    BY <1>0 DEF RolesTypeOK, AccountsTypeOK, accountVars
  <1>6. bindings' \in [Bindings -> Binding \cup {NoBinding}]
    BY <1>0, <1>3, <1>4 DEF RolesTypeOK
  <1>7. roleTrail' \subseteq [op : {"assign", "revoke"}, binding : Bindings, revision : {1, 2}]
    BY <1>0, <1>1, <1>2, <1>3 DEF RolesTypeOK, recordedRole
  <1>8. bindings[b] # NoBinding
    BY <1>1 DEF NoBinding
  <1>9. ASSUME NEW c \in Bindings, bindings'[c] # NoBinding
        PROVE  /\ bindings'[c].of.project \in OwnProjects
               /\ bindings'[c].of.role \in ProjectRoleIDs
               /\ users'[bindings'[c].of.user].status # "absent"
    <2>1. CASE c = b
      BY <1>0, <1>2, <1>3, <1>5, <1>8, <2>1 DEF RolesTypeOK
    <2>2. CASE c # b
      BY <1>0, <1>2, <1>5, <1>9, <2>2 DEF RolesTypeOK
    <2> QED
      BY <2>1, <2>2
  <1>10. RolesTypeOK'
    BY <1>0, <1>5, <1>6, <1>7, <1>9 DEF RolesTypeOK
  <1>11. OneActivePerAssignment'
    BY <1>0, <1>2, <1>3 DEF OneActivePerAssignment
  <1>12. EveryBindingRevisionAccounted'
    BY <1>0, <1>1, <1>3, <1>4, EntryFollows
  <1> QED
    BY <1>10, <1>11, <1>12 DEF RolesInvariant

LEMMA CallsKeepRoles ==
    ASSUME RolesInvariant, UNCHANGED <<accountVars, bindings, roleTrail>>,
           roleCalls' \subseteq AssignCall \cup RevokeCall
    PROVE  RolesInvariant'
  BY DEF RolesInvariant, RolesTypeOK, AccountsTypeOK, accountVars, OneActivePerAssignment,
         EveryBindingRevisionAccounted

LEMMA RolesStart == RolesInit => RolesIInv
  <1> SUFFICES ASSUME RolesInit PROVE RolesIInv
    OBVIOUS
  <1>1. AccountsIInv /\ AccountsTypeOK
    BY AccountsStart DEF RolesInit, AccountsIInv, Rows
  <1>2. \A b \in Bindings : bindings[b] = NoBinding
    BY DEF RolesInit
  <1>3. RolesTypeOK
    BY <1>1, <1>2 DEF RolesInit, RolesTypeOK
  <1>4. OneActivePerAssignment /\ EveryBindingRevisionAccounted
    BY <1>2 DEF RolesInit, OneActivePerAssignment, EveryBindingRevisionAccounted, NoBinding
  <1> QED
    BY <1>1, <1>3, <1>4 DEF RolesIInv, RolesInvariant

(* Every step of administrators, about members or roles.                    *)
LEMMA RolesKeep == RolesIInv /\ [RolesNext]_memberVars => RolesIInv'
  <1> SUFFICES ASSUME RolesIInv, [RolesNext]_memberVars PROVE RolesIInv'
    OBVIOUS
  <1>1. RolesInvariant /\ AccountsIInv /\ roleCalls \subseteq AssignCall \cup RevokeCall
    BY DEF RolesIInv, RolesInvariant, RolesTypeOK
  <1>2. CASE AdministratorStep /\ UNCHANGED roleVars
    BY <1>2, AccountsKeepRoles
  <1>3. CASE UNCHANGED memberVars
    BY <1>3, AccountsKeepRoles DEF memberVars
  <1>4. ASSUME UNCHANGED accountVars, RolesInvariant' PROVE RolesIInv'
    BY <1>1, <1>4, AdministratorsKeep DEF RolesIInv
  <1>5. ASSUME NEW call \in AssignCall \cup RevokeCall, PrepareRole(call) PROVE RolesIInv'
    <2>1. UNCHANGED accountVars /\ UNCHANGED <<bindings, roleTrail>>
      BY <1>5 DEF PrepareRole
    <2>2. roleCalls' \subseteq AssignCall \cup RevokeCall
      BY <1>1, <1>5 DEF PrepareRole
    <2> QED
      BY <1>1, <1>4, <2>1, <2>2, CallsKeepRoles
  <1>6. ASSUME NEW call \in roleCalls, CarryOutRole(call) PROVE RolesIInv'
    <2>1. UNCHANGED accountVars /\ roleCalls' \subseteq roleCalls
      BY <1>6 DEF CarryOutRole
    <2>2. CASE Assign(call)
      BY <1>1, <1>4, <2>1, <2>2, AssignKeepsRoles
    <2>3. CASE Revoke(call)
      BY <1>1, <1>4, <2>1, <2>3, RevokeKeepsRoles
    <2> QED
      BY <1>6, <2>2, <2>3 DEF CarryOutRole
  <1>7. ASSUME NEW call \in roleCalls, RefuseRole(call) PROVE RolesIInv'
    <2>1. UNCHANGED accountVars /\ UNCHANGED <<bindings, roleTrail>>
      BY <1>7 DEF RefuseRole
    <2>2. roleCalls' \subseteq AssignCall \cup RevokeCall
      BY <1>1, <1>7 DEF RefuseRole
    <2> QED
      BY <1>1, <1>4, <2>1, <2>2, CallsKeepRoles
  <1> QED
    BY <1>2, <1>3, <1>5, <1>6, <1>7 DEF RolesNext, RoleStep

(* RolesInvariant: one active binding per assignment, and each of its       *)
(* revisions recorded, with assignments and revocations of any number of    *)
(* administrators between guard and transaction.                            *)
THEOREM RolesInvariantHolds == RolesSpec => []RolesInvariant
  <1>1. RolesIInv => RolesInvariant
    BY DEF RolesIInv
  <1> QED
    BY <1>1, RolesStart, RolesKeep, PTL DEF RolesSpec

(* No step rewrites the history of a binding or gives a role to somebody    *)
(* who is disabled.                                                         *)
LEMMA RolesGrow ==
    RolesIInv /\ [RolesNext]_memberVars => [BindingHistoryKept /\ DisabledGainsNothing]_memberVars
  <1> SUFFICES ASSUME RolesIInv, RolesNext PROVE BindingHistoryKept /\ DisabledGainsNothing
    OBVIOUS
  <1>0. RolesTypeOK
    BY DEF RolesIInv, RolesInvariant
  <1>1. ASSUME bindings' = bindings PROVE BindingHistoryKept /\ DisabledGainsNothing
    BY <1>1 DEF BindingHistoryKept, DisabledGainsNothing
  <1>2. ASSUME NEW call \in roleCalls, Assign(call)
        PROVE  BindingHistoryKept /\ DisabledGainsNothing
    <2> DEFINE row == [status |-> "active", revision |-> 1, of |-> call.of]
    <2>1. PICK b \in Bindings :
             /\ row \in Binding
             /\ bindings[b] = NoBinding
             /\ bindings' = [bindings EXCEPT ![b] = row]
             /\ recordedRole("assign", b)
             /\ call.of.project \in OwnProjects /\ call.of.role \in ProjectRoleIDs
             /\ call.of.user \in Users /\ active(call.of.user)
             /\ activeBindings(call.of) = {}
      BY <1>0, <1>2, AssignDoes
    <2>2. bindings'[b] = row /\ \A c \in Bindings \ {b} : bindings'[c] = bindings[c]
      BY <1>0, <2>1 DEF RolesTypeOK
    <2>3. BindingHistoryKept
      BY <2>1, <2>2 DEF BindingHistoryKept
    <2>4. DisabledGainsNothing
      BY <2>1, <2>2 DEF DisabledGainsNothing, active
    <2> QED
      BY <2>3, <2>4
  <1>3. ASSUME NEW call \in roleCalls, Revoke(call)
        PROVE  BindingHistoryKept /\ DisabledGainsNothing
    <2>1. PICK b \in Bindings :
             LET row == [status |-> "disabled", revision |-> 2, of |-> bindings[b].of] IN
             /\ row \in Binding
             /\ bindings[b].status = "active" /\ bindings[b] \in Binding
             /\ bindings' = [bindings EXCEPT ![b] = row]
             /\ recordedRole("revoke", b)
      BY <1>0, <1>3, RevokeDoes
    <2>2. /\ bindings'[b] = [status |-> "disabled", revision |-> 2, of |-> bindings[b].of]
          /\ \A c \in Bindings \ {b} : bindings'[c] = bindings[c]
      BY <1>0, <2>1 DEF RolesTypeOK
    <2>3. bindings'[b] # NoBinding /\ bindings[b] # NoBinding
      BY <2>1, <2>2 DEF NoBinding
    <2>4. BindingHistoryKept
      BY <2>1, <2>2, <2>3 DEF BindingHistoryKept
    <2>5. DisabledGainsNothing
      BY <2>2, <2>3 DEF DisabledGainsNothing
    <2> QED
      BY <2>4, <2>5
  <1> QED
    BY <1>1, <1>2, <1>3 DEF RolesNext, RoleStep, PrepareRole, CarryOutRole, RefuseRole, roleVars

-----------------------------------------------------------------------------
(* The guard and the tables.                                                *)

(* The scopes in which a grant counts for a place.                          *)
scopesOf(place) == {Organization} \cup {Project(p) : p \in place}

(* The grants stand for nothing that is not among the rights.               *)
covers(grants, rs, op) ==
    \A g \in grants, part \in partsOf(op), place \in placesOf(op) :
        g.permission = permissionOf[part] /\ g.scope \in scopesOf(place) => <<part, place>> \in rs

LEMMA ScopesDiffer ==
    /\ \A p : Project(p) # Organization
    /\ \A p, q : Project(p) = Project(q) => p = q
  <1>1. \A p : Project(p).type = "project" /\ Project(p).id = p
    BY DEF Project
  <1>2. Organization.type = "organization"
    BY DEF Organization
  <1> QED
    BY <1>1, <1>2

(* A user holds a role in the organization as an administrator, and in a    *)
(* project by an active binding.                                            *)
LEMMA HeldInOrganization ==
    ASSUME NEW u, NEW role
    PROVE  <<role, Organization>> \in held(u)
              <=> u \in SystemAdministrators /\ role = SystemAdministrator
  BY ScopesDiffer DEF held

LEMMA HeldInProject ==
    ASSUME NEW u, NEW role, NEW p, <<role, Project(p)>> \in held(u)
    PROVE  \E b \in Bindings : /\ bindings[b].status = "active"
                              /\ bindings[b].of.user = u
                              /\ bindings[b].of.role = role
                              /\ bindings[b].of.project = p
  BY ScopesDiffer DEF held

LEMMA BindingHolds ==
    ASSUME NEW b \in Bindings, bindings[b].status = "active"
    PROVE  <<bindings[b].of.role, Project(bindings[b].of.project)>> \in held(bindings[b].of.user)
  BY DEF held

(* What a grant stands for when it is verified, the tables allow then.      *)
LEMMA VerifiedIsRight ==
    ASSUME NEW u, NEW op, NEW part \in partsOf(op), NEW place \in placesOf(op), NEW g,
           verified(u, op, g), g.permission = permissionOf[part], g.scope \in scopesOf(place)
    PROVE  <<part, place>> \in rights(u, op)
  <1> DEFINE x == <<part, place>>
             fits(role) == <<permissionOf[part], requiredScope[op]>> \in roleGrants[role]
  <1>1. /\ organization = "active" /\ users[u].status = "active"
        /\ <<g.role, g.scope>> \in held(u) /\ fits(g.role)
    BY DEF verified, enabled, active
  <1>2. \/ u \in SystemAdministrators /\ fits(SystemAdministrator)
        \/ \E b \in Bindings : /\ bindings[b].status = "active"
                               /\ bindings[b].of.user = u
                               /\ bindings[b].of.project \in place
                               /\ fits(bindings[b].of.role)
    <2>1. CASE g.scope = Organization
      BY <1>1, <2>1, HeldInOrganization
    <2>2. CASE \E p \in place : g.scope = Project(p)
      <3>1. PICK p \in place : g.scope = Project(p)
        BY <2>2
      <3>2. PICK b \in Bindings : /\ bindings[b].status = "active"
                                 /\ bindings[b].of.user = u
                                 /\ bindings[b].of.role = g.role
                                 /\ bindings[b].of.project = p
        BY <1>1, <3>1, HeldInProject
      <3> QED
        BY <1>1, <3>2
    <2> QED
      BY <2>1, <2>2 DEF scopesOf
  <1>3. x \in partsOf(op) \X placesOf(op) /\ x[1] = part /\ x[2] = place
    OBVIOUS
  <1> HIDE DEF x
  <1>4. x \in rights(u, op)
    BY <1>1, <1>2, <1>3 DEF rights
  <1> QED
    BY <1>4 DEF x

(* What grants allow, the rights they stand for allow.                      *)
LEMMA CoveringAllows ==
    ASSUME NEW op, NEW grants, NEW rs, covers(grants, rs, op), NEW place \in placesOf(op),
           permissionsAllow(grants, op, scopesOf(place))
    PROVE  allParts(rs, op, place)
  <1>1. ASSUME NEW part \in partsOf(op) PROVE <<part, place>> \in rs
    <2>1. permissionOf[part] \in operationPermissions(op)
      BY DEF operationPermissions, partsOf
    <2>2. PICK g \in grants : g.permission = permissionOf[part] /\ g.scope \in scopesOf(place)
      BY <2>1 DEF permissionsAllow
    <2> QED
      BY <2>2 DEF covers
  <1> QED
    BY <1>1 DEF allParts

(* What the tables allow, the grants one would resolve now allow.           *)
LEMMA RightsResolve ==
    ASSUME RolesTypeOK, NEW u \in Users, NEW op \in Operations, NEW projects \in placesOf(op),
           allParts(rights(u, op), op, projects)
    PROVE  permissionsAllow(resolvable(u, op), op, scopesOf(projects))
  <1> SUFFICES ASSUME NEW part \in {op} \cup requires[op]
               PROVE  \E g \in resolvable(u, op) :
                         g.permission = permissionOf[part] /\ g.scope \in scopesOf(projects)
    BY DEF permissionsAllow, operationPermissions
  <1> DEFINE permission == permissionOf[part]
             fits(role) == <<permission, requiredScope[op]>> \in roleGrants[role]
             x == <<part, projects>>
  <1>0. x \in rights(u, op) /\ x[1] = part /\ x[2] = projects /\ projects \subseteq Projects
    BY DEF allParts, partsOf, placesOf, Projects
  <1> HIDE DEF x
  <1>1. /\ permission \in operationPermissions(op)
        /\ permission \in Permissions
        /\ requiredScope[op] \in {"organization", "project", "object"}
    BY RequestsAssumption DEF operationPermissions, Permissions, isDictionary
  <1>2. enabled(u)
    BY <1>0 DEF rights, enabled, active
  <1>3. ASSUME NEW role \in RoleIDs, NEW scope \in Scope,
               <<role, scope>> \in held(u), fits(role), scope \in scopesOf(projects)
        PROVE  \E g \in resolvable(u, op) :
                  g.permission = permission /\ g.scope \in scopesOf(projects)
    <2> DEFINE g == [permission |-> permission, role |-> role, scope |-> scope]
    <2> HIDE DEF permission
    <2>1. g \in Grant /\ g.permission = permission /\ g.role = role /\ g.scope = scope
      BY <1>1 DEF Grant
    <2> HIDE DEF g
    <2>2. g \in resolvable(u, op)
      BY <1>1, <1>2, <1>3, <2>1 DEF resolvable
    <2> QED
      BY <1>3, <2>1, <2>2
  <1>4. \/ u \in SystemAdministrators /\ fits(SystemAdministrator)
        \/ \E b \in Bindings : /\ bindings[b].status = "active"
                               /\ bindings[b].of.user = u
                               /\ bindings[b].of.project \in projects
                               /\ fits(bindings[b].of.role)
    BY <1>0 DEF rights
  <1>5. CASE u \in SystemAdministrators /\ fits(SystemAdministrator)
    <2>1. SystemAdministrator \in RoleIDs /\ Organization \in Scope
      BY RequestsAssumption DEF RoleIDs, Scope
    <2>2. <<SystemAdministrator, Organization>> \in held(u)
      BY <1>5, HeldInOrganization
    <2>3. Organization \in scopesOf(projects)
      BY DEF scopesOf
    <2> QED
      BY <1>3, <1>5, <2>1, <2>2, <2>3
  <1>6. ASSUME NEW b \in Bindings,
               bindings[b].status = "active",
               bindings[b].of.user = u,
               bindings[b].of.project \in projects,
               fits(bindings[b].of.role)
        PROVE  \E g \in resolvable(u, op) :
                  g.permission = permission /\ g.scope \in scopesOf(projects)
    <2> DEFINE role == bindings[b].of.role
               scope == Project(bindings[b].of.project)
    <2>1. bindings[b] # NoBinding
      BY <1>6 DEF NoBinding
    <2>2. role \in RoleIDs
      BY <2>1 DEF RolesTypeOK, RoleIDs
    <2>3. scope \in Scope /\ scope \in scopesOf(projects)
      BY <1>0, <1>6 DEF Scope, scopesOf
    <2>4. <<role, scope>> \in held(u)
      BY <1>6, BindingHolds
    <2>5. fits(role)
      BY <1>6
    <2> HIDE DEF role, scope, fits, permission
    <2> QED
      BY <1>3, <2>2, <2>3, <2>4, <2>5
  <1> QED
    BY <1>4, <1>5, <1>6

(* A grant that would be resolved now holds in the scope of the operation.  *)
LEMMA ResolvedIsVerified ==
    ASSUME NEW u, NEW op \in Operations, NEW g \in resolvable(u, op)
    PROVE  verified(u, op, g)
  <1>1. /\ enabled(u) /\ <<g.role, g.scope>> \in held(u)
        /\ g.permission \in operationPermissions(op)
        /\ g.role \in RoleIDs
    BY DEF resolvable, Grant
  <1>2. PICK type : <<g.permission, type>> \in roleGrants[g.role]
    BY DEF resolvable
  <1>3. \A x \in roleGrants[g.role] :
           x[1] \in operationPermissions(op) => <<x[1], requiredScope[op]>> \in roleGrants[g.role]
    BY <1>1, RequestsAssumption
  <1>4. <<g.permission, requiredScope[op]>> \in roleGrants[g.role]
    BY <1>1, <1>2, <1>3
  <1> QED
    BY <1>1, <1>4 DEF verified

(* The three ways in which an operation is bound to projects.               *)
LEMMA WaysOfScope ==
    ASSUME NEW op \in Operations, NEW t, NEW grants
    PROVE  /\ requiredScope[op] = "organization" =>
                 /\ ~listsProjects(op, t)
                 /\ allows(grants, op, t) <=> permissionsAllow(grants, op, scopesOf({}))
                 /\ visibleProjects(grants, op, t) = OwnProjects
           /\ listsProjects(op, t) =>
                 /\ requiredScope[op] # "organization"
                 /\ allows(grants, op, t) <=> (t.type = "project" =>
                       t.id \in OwnProjects /\ permissionsAllow(grants, op, scopesOf({t.id})))
                 /\ visibleProjects(grants, op, t) =
                       {p \in OwnProjects : permissionsAllow(grants, op, scopesOf({p}))}
           /\ requiredScope[op] # "organization" /\ ~listsProjects(op, t) =>
                 /\ allows(grants, op, t) <=>
                       /\ projectOfTarget(t) \in OwnProjects
                       /\ permissionsAllow(grants, op, scopesOf({projectOfTarget(t)}))
                 /\ visibleProjects(grants, op, t) = {projectOfTarget(t)}
  <1>1. listsProjects(op, t) => requiredScope[op] = "project"
    BY RequestsAssumption DEF isDictionary, listsProjects
  <1>2. scopesOf({}) = {Organization} /\ \A p : scopesOf({p}) = {Organization, Project(p)}
    BY DEF scopesOf
  <1>3. /\ allowsOrganization(grants, op) <=> permissionsAllow(grants, op, scopesOf({}))
        /\ \A p : allowsProject(grants, op, p) <=> permissionsAllow(grants, op, scopesOf({p}))
    BY <1>2 DEF allowsOrganization, allowsProject
  <1>4. /\ \A p : p \in allowedProjects(grants, op)
                   <=> p \in OwnProjects /\ permissionsAllow(grants, op, scopesOf({p}))
        /\ allowedProjects(grants, op) =
              {p \in OwnProjects : permissionsAllow(grants, op, scopesOf({p}))}
    BY <1>3 DEF allowedProjects
  <1>5. CASE requiredScope[op] = "organization"
    BY <1>1, <1>3, <1>5 DEF allows, visibleProjects
  <1>6. CASE listsProjects(op, t)
    BY <1>1, <1>4, <1>6 DEF allows, visibleProjects
  <1>7. CASE requiredScope[op] # "organization" /\ ~listsProjects(op, t)
    BY <1>3, <1>7 DEF allows, visibleProjects, owned
  <1> QED
    BY <1>5, <1>6, <1>7

(* The places of an operation, and that a target lies in one of them.       *)
LEMMA Places ==
    ASSUME NEW op
    PROVE  /\ requiredScope[op] = "organization" => {} \in placesOf(op)
           /\ requiredScope[op] # "organization" => \A p : {p} \in placesOf(op) <=> p \in OwnProjects
  <1>1. \A p, q : {p} = {q} => p = q
    OBVIOUS
  <1> QED
    BY <1>1 DEF placesOf

(* What grants let through, and the projects it is shown, the rights behind *)
(* them justify.                                                            *)
LEMMA AllowedIsJustified ==
    ASSUME NEW op \in Operations, NEW t, NEW grants, NEW rs, covers(grants, rs, op),
           allows(grants, op, t)
    PROVE  /\ justified(rs, op, t, visibleProjects(grants, op, t))
           /\ visibleProjects(grants, op, t) \subseteq OwnProjects
  <1> DEFINE allowed(place) == permissionsAllow(grants, op, scopesOf(place))
  <1>1. \A place \in placesOf(op) : allowed(place) => allParts(rs, op, place)
    BY CoveringAllows
  <1>2. CASE requiredScope[op] = "organization"
    <2>1. allowed({}) /\ ~listsProjects(op, t) /\ visibleProjects(grants, op, t) = OwnProjects
      BY <1>2, WaysOfScope
    <2>2. allParts(rs, op, {})
      BY <1>1, <1>2, <2>1, Places
    <2> HIDE DEF allowed
    <2> QED
      BY <1>2, <2>1, <2>2 DEF justified, entitling
  <1>3. ASSUME requiredScope[op] # "organization", NEW p \in OwnProjects, allowed({p})
        PROVE  allParts(rs, op, {p})
    BY <1>1, <1>3, Places
  <1>4. CASE listsProjects(op, t)
    <2>1. /\ requiredScope[op] # "organization"
          /\ t.type = "project" => t.id \in OwnProjects /\ allowed({t.id})
          /\ visibleProjects(grants, op, t) = {p \in OwnProjects : allowed({p})}
      BY <1>4, WaysOfScope
    <2> HIDE DEF allowed
    <2>2. entitling(rs, op, t)
      BY <1>3, <1>4, <2>1 DEF entitling
    <2> QED
      BY <1>3, <2>1, <2>2 DEF justified
  <1>5. CASE requiredScope[op] # "organization" /\ ~listsProjects(op, t)
    <2> DEFINE p == projectOfTarget(t)
    <2>1. p \in OwnProjects /\ allowed({p}) /\ visibleProjects(grants, op, t) = {p}
      BY <1>5, WaysOfScope
    <2>2. entitling(rs, op, t) <=> allParts(rs, op, {p})
      BY <1>5 DEF entitling
    <2> HIDE DEF allowed, p
    <2>3. allParts(rs, op, {p})
      BY <1>3, <1>5, <2>1
    <2> QED
      BY <2>1, <2>2, <2>3 DEF justified
  <1> QED
    BY <1>2, <1>4, <1>5

LEMMA AdmissibleIsJustified ==
    ASSUME NEW r \in Request, admissible(r)
    PROVE  justified(rights(r.user, r.op), r.op, r.target, visibleProjects(r.grants, r.op, r.target))
  <1>1. covers(r.grants, rights(r.user, r.op), r.op)
    BY VerifiedIsRight DEF admissible, covers
  <1> QED
    BY <1>1, AllowedIsJustified DEF admissible, Request

(* With the grants one would resolve now, the guard lets through what the   *)
(* tables allow.                                                            *)
LEMMA EntitledIsAdmissible ==
    ASSUME RolesTypeOK, NEW r \in Request, r.grants = resolvable(r.user, r.op), entitled(r)
    PROVE  admissible(r)
  <1> DEFINE u == r.user
             op == r.op
             t == r.target
             grants == resolvable(u, op)
             rs == rights(u, op)
  <1>1. op \in Operations /\ u \in Users
    BY DEF Request
  <1>2. \A g \in grants : verified(u, op, g)
    BY <1>1, ResolvedIsVerified
  <1>3. ASSUME NEW place, allParts(rs, op, place)
        PROVE  place \in placesOf(op) /\ permissionsAllow(grants, op, scopesOf(place))
    <2>1. place \in placesOf(op)
      BY <1>3 DEF allParts
    <2> QED
      BY <1>1, <1>3, <2>1, RightsResolve
  <1>4. entitling(rs, op, t)
    BY DEF entitled
  <1> HIDE DEF grants, rs
  <1>5. CASE requiredScope[op] = "organization"
    <2>1. allParts(rs, op, {})
      <3>1. ~listsProjects(op, t)
        BY <1>1, <1>5, WaysOfScope
      <3> QED
        BY <1>4, <1>5, <3>1 DEF entitling
    <2>2. permissionsAllow(grants, op, scopesOf({}))
      BY <1>3, <2>1
    <2>3. allows(grants, op, t)
      BY <1>1, <1>5, <2>2, WaysOfScope
    <2> QED
      BY <1>2, <2>3 DEF admissible, grants
  <1>6. CASE listsProjects(op, t)
    <2>1. requiredScope[op] # "organization"
      BY <1>1, <1>6, WaysOfScope
    <2>2. t.type = "project" => allParts(rs, op, {t.id})
      BY <1>4, <1>6, <2>1 DEF entitling
    <2>3. t.type = "project" =>
             t.id \in OwnProjects /\ permissionsAllow(grants, op, scopesOf({t.id}))
      BY <1>3, <2>1, <2>2, Places
    <2>4. allows(grants, op, t)
      BY <1>1, <1>6, <2>3, WaysOfScope
    <2> QED
      BY <1>2, <2>4 DEF admissible, grants
  <1>7. CASE requiredScope[op] # "organization" /\ ~listsProjects(op, t)
    <2>1. allParts(rs, op, {projectOfTarget(t)})
      BY <1>4, <1>7 DEF entitling
    <2>2. /\ projectOfTarget(t) \in OwnProjects
          /\ permissionsAllow(grants, op, scopesOf({projectOfTarget(t)}))
      BY <1>3, <1>7, <2>1, Places
    <2>3. allows(grants, op, t)
      BY <1>1, <1>7, <2>2, WaysOfScope
    <2> QED
      BY <1>2, <2>3 DEF admissible, grants
  <1> QED
    BY <1>5, <1>6, <1>7

(* The grants it looks at and the tables agree, whatever the tables say.    *)
LEMMA GuardAgrees == RequestsTypeOK => GuardAgreesWithTables
  <1> SUFFICES ASSUME RequestsTypeOK, NEW r \in requests, r.stage = "resolved",
                      r.grants = resolvable(r.user, r.op)
               PROVE  /\ admissible(r) <=> entitled(r)
                      /\ admissible(r) /\ listsProjects(r.op, r.target) =>
                            visibleProjects(r.grants, r.op, r.target) =
                               {p \in OwnProjects : mayDo(r.user, r.op, p)}
    BY DEF GuardAgreesWithTables
  <1>1. r \in Request /\ RolesTypeOK /\ r.op \in Operations /\ r.user \in Users
    BY DEF RequestsTypeOK, Request
  <1>2. admissible(r) <=> entitled(r)
    BY <1>1, AdmissibleIsJustified, EntitledIsAdmissible DEF entitled, justified
  <1>3. ASSUME admissible(r), listsProjects(r.op, r.target)
        PROVE  visibleProjects(r.grants, r.op, r.target) =
                  {p \in OwnProjects : mayDo(r.user, r.op, p)}
    <2>1. /\ requiredScope[r.op] # "organization"
          /\ visibleProjects(r.grants, r.op, r.target) =
                {p \in OwnProjects : permissionsAllow(r.grants, r.op, scopesOf({p}))}
      BY <1>1, <1>3, WaysOfScope
    <2>2. \A p \in visibleProjects(r.grants, r.op, r.target) : mayDo(r.user, r.op, p)
      BY <1>1, <1>3, <2>1, AdmissibleIsJustified DEF justified, mayDo
    <2>3. ASSUME NEW p \in OwnProjects, mayDo(r.user, r.op, p)
          PROVE  permissionsAllow(r.grants, r.op, scopesOf({p}))
      BY <1>1, <2>1, <2>3, RightsResolve DEF mayDo, allParts
    <2> QED
      BY <2>1, <2>2, <2>3
  <1> QED
    BY <1>2, <1>3

-----------------------------------------------------------------------------
(* Requests.                                                                *)

(* What the guard has verified of a request by now was right when it asked. *)
RequestsChecked ==
    \A r \in requests : r.stage # "admitted" => covers(r.grants \ r.unverified, r.had, r.op)

RequestsIInv == RolesIInv /\ RequestsTypeOK /\ RequestsChecked

LEMMA RequestsStart == RequestsInit => RequestsIInv
  <1> SUFFICES ASSUME RequestsInit PROVE RequestsIInv
    OBVIOUS
  <1>1. RolesIInv /\ requests = {}
    BY RolesStart DEF RequestsInit
  <1> QED
    BY <1>1 DEF RequestsIInv, RolesIInv, RolesInvariant, RequestsTypeOK, RequestsChecked

(* What holds of a request, whatever the tables say.                        *)
requestInOrder(s) ==
    /\ s \in Request /\ s.target \in targets(s.op) /\ s.projects \subseteq OwnProjects
    /\ s.stage # "admitted" => covers(s.grants \ s.unverified, s.had, s.op)

(* A request that is about to be guarded.                                   *)
LEMMA ResolvedRequest ==
    ASSUME NEW u \in Users, NEW op \in Operations, NEW t \in targets(op)
    PROVE  LET new == [user |-> u, op |-> op, target |-> t, stage |-> "resolved",
                       grants |-> resolvable(u, op), unverified |-> resolvable(u, op),
                       projects |-> {}, had |-> {}]
           IN  requestInOrder(new) /\ new.stage = "resolved"
  <1> DEFINE grants == resolvable(u, op)
             new == [user |-> u, op |-> op, target |-> t, stage |-> "resolved", grants |-> grants,
                     unverified |-> grants, projects |-> {}, had |-> {}]
  <1>1. t \in Targets
    BY DEF targets
  <1>2. grants \subseteq Grant
    BY DEF resolvable
  <1> HIDE DEF grants
  <1>3. /\ new \in Request /\ new.op = op /\ new.target = t /\ new.projects = {}
        /\ new.stage = "resolved" /\ new.grants \ new.unverified = {}
    BY <1>1, <1>2 DEF Request
  <1> HIDE DEF new
  <1>4. requestInOrder(new)
    BY <1>3 DEF requestInOrder, covers
  <1> QED
    BY <1>3, <1>4 DEF new, grants

(* A request after one more of its grants was verified.                     *)
LEMMA VerifiedRequest ==
    ASSUME NEW r, requestInOrder(r), r.stage # "admitted", NEW g \in r.unverified, verified(r.user, r.op, g)
    PROVE  LET new == [r EXCEPT !.stage = "verifying", !.unverified = @ \ {g},
                                !.had = @ \cup rights(r.user, r.op)]
           IN  requestInOrder(new) /\ new.stage = "verifying"
  <1> DEFINE rs == rights(r.user, r.op)
             rest == r.unverified \ {g}
             all == r.had \cup rs
             new == [r EXCEPT !.stage = "verifying", !.unverified = rest, !.had = all]
  <1>1. r \in Request /\ covers(r.grants \ r.unverified, r.had, r.op)
    BY DEF requestInOrder
  <1>2. rs \subseteq Operations \X SUBSET OwnProjects
    <2>1. partsOf(r.op) \subseteq Operations
      BY RequestsAssumption DEF partsOf, isDictionary, Request, requestInOrder
    <2>2. placesOf(r.op) \subseteq SUBSET OwnProjects
      BY DEF placesOf
    <2> QED
      BY <2>1, <2>2 DEF rights
  <1>3. rest \subseteq Grant /\ all \subseteq Operations \X SUBSET OwnProjects
    BY <1>1, <1>2 DEF Request
  <1>4. covers(r.grants \ rest, all, r.op)
    BY <1>1, VerifiedIsRight DEF covers
  <1> HIDE DEF rs, rest, all
  <1>5. /\ new \in Request /\ new.op = r.op /\ new.target = r.target
        /\ new.projects = r.projects /\ new.stage = "verifying"
        /\ new.grants = r.grants /\ new.unverified = rest /\ new.had = all
    BY <1>1, <1>3 DEF Request
  <1> HIDE DEF new
  <1>6. requestInOrder(new)
    BY <1>4, <1>5 DEF requestInOrder
  <1> QED
    BY <1>5, <1>6 DEF new, rs, rest, all

(* What the guard makes of a request in the end.                            *)
LEMMA AdmittedRequest ==
    ASSUME NEW r, requestInOrder(r), NEW projects \in SUBSET OwnProjects,
           NEW s, s = [r EXCEPT !.stage = "admitted", !.had = {}, !.projects = projects]
    PROVE  /\ requestInOrder(s)
           /\ s.user = r.user /\ s.op = r.op /\ s.target = r.target
           /\ s.stage = "admitted" /\ s.projects = projects
           /\ s.grants = r.grants /\ s.unverified = r.unverified
  <1>1. r \in Request /\ projects \in SUBSET Projects
    BY DEF requestInOrder, Projects
  <1>2. /\ s \in Request /\ s.user = r.user /\ s.op = r.op /\ s.target = r.target
        /\ s.stage = "admitted" /\ s.projects = projects
        /\ s.grants = r.grants /\ s.unverified = r.unverified
    BY <1>1 DEF Request
  <1> QED
    BY <1>2 DEF requestInOrder

(* The guard's last step lets through what was right when it asked.         *)
LEMMA AdmitJustifies ==
    ASSUME NEW r, requestInOrder(r), r.stage = "verifying", r.unverified = {}, allows(r.grants, r.op, r.target)
    PROVE  /\ justified(r.had, r.op, r.target, visibleProjects(r.grants, r.op, r.target))
           /\ visibleProjects(r.grants, r.op, r.target) \subseteq OwnProjects
  <1>1. r.grants \ r.unverified = r.grants /\ r.op \in Operations
    BY DEF requestInOrder, Request
  <1>2. covers(r.grants, r.had, r.op)
    BY <1>1 DEF requestInOrder
  <1> QED
    BY <1>1, <1>2, AllowedIsJustified

LEMMA RequestsKeep == RequestsIInv /\ [RequestsNext]_requestVars => RequestsIInv'
  <1> SUFFICES ASSUME RequestsIInv, [RequestsNext]_requestVars PROVE RequestsIInv'
    OBVIOUS
  <1>0. RolesIInv /\ \A r \in requests : requestInOrder(r)
    BY DEF RequestsIInv, RequestsTypeOK, RequestsChecked, requestInOrder
  <1>1. ASSUME [RolesNext]_memberVars, \A s \in requests' : requestInOrder(s) PROVE RequestsIInv'
    <2>1. RolesIInv'
      BY <1>0, <1>1, RolesKeep
    <2>2. RequestsTypeOK' /\ RequestsChecked'
      BY <1>1, <2>1 DEF RolesIInv, RolesInvariant, RequestsTypeOK, RequestsChecked, requestInOrder
    <2> QED
      BY <2>1, <2>2 DEF RequestsIInv
  <1>2. CASE RolesNext /\ UNCHANGED requests
    BY <1>0, <1>1, <1>2
  <1>3. CASE UNCHANGED requestVars
    <2>1. UNCHANGED memberVars /\ requests' = requests
      BY <1>3 DEF requestVars
    <2> QED
      BY <1>0, <1>1, <2>1
  <1>4. ASSUME NEW u \in Users, NEW op \in Operations, NEW t \in targets(op), Resolve(u, op, t)
        PROVE  RequestsIInv'
    BY <1>0, <1>1, <1>4, ResolvedRequest DEF Resolve
  <1>5. ASSUME NEW r \in requests, NEW g \in r.unverified, VerifyGrant(r, g) PROVE RequestsIInv'
    BY <1>0, <1>1, <1>5, VerifiedRequest DEF VerifyGrant
  <1>6. ASSUME NEW r \in requests, Admit(r) PROVE RequestsIInv'
    <2> DEFINE projects == visibleProjects(r.grants, r.op, r.target)
               new == [r EXCEPT !.stage = "admitted", !.had = {}, !.projects = projects]
    <2>1. /\ r.stage = "verifying" /\ r.unverified = {} /\ UNCHANGED memberVars
          /\ requests' \subseteq requests \cup
                (IF allows(r.grants, r.op, r.target) THEN {new} ELSE {})
      BY <1>6 DEF Admit
    <2>2. ASSUME allows(r.grants, r.op, r.target) PROVE requestInOrder(new)
      <3>1. projects \subseteq OwnProjects
        BY <1>0, <2>1, <2>2, AdmitJustifies
      <3> HIDE DEF projects
      <3> QED
        BY <1>0, <3>1, AdmittedRequest
    <2> HIDE DEF new
    <2> QED
      BY <1>0, <1>1, <2>1, <2>2
  <1>7. ASSUME NEW r \in requests, Finish(r) PROVE RequestsIInv'
    BY <1>0, <1>1, <1>7 DEF Finish
  <1> QED
    BY <1>2, <1>3, <1>4, <1>5, <1>6, <1>7 DEF RequestsNext, RequestStep

(* RequestsInvariant: whatever administrators do between the resolution of  *)
(* a request's grants and its guard, the guard decides as the tables do     *)
(* when the grants are still those, and bindings stay in order.             *)
THEOREM RequestsInvariantHolds == RequestsSpec => []RequestsInvariant
  <1>1. RequestsIInv => RequestsInvariant
    BY GuardAgrees DEF RequestsIInv, RolesIInv, RequestsInvariant
  <1> QED
    BY <1>1, RequestsStart, RequestsKeep, PTL DEF RequestsSpec

(* BindingsOnlyGrow: the history of bindings is kept and nobody disabled    *)
(* gains a role, with requests under way.                                   *)
THEOREM BindingsOnlyGrowHolds == RequestsSpec => BindingsOnlyGrow
  <1>1. [RequestsNext]_requestVars => [RolesNext]_memberVars
    BY DEF RequestsNext, RequestStep, Resolve, VerifyGrant, Admit, Finish, requestVars
  <1>2. RequestsIInv /\ [RequestsNext]_requestVars
          => [BindingHistoryKept /\ DisabledGainsNothing]_memberVars
    BY <1>1, RolesGrow DEF RequestsIInv
  <1> QED
    BY <1>2, RequestsStart, RequestsKeep, PTL DEF RequestsSpec, BindingsOnlyGrow

(* The step of AdmittedWasEntitled.                                         *)
LEMMA GuardJustifies ==
    ASSUME RequestsIInv, RequestsNext, NEW r \in requests, NEW s \in requests' \ requests,
           r.stage = "verifying",
           s = [r EXCEPT !.stage = "admitted", !.had = {}, !.projects = s.projects]
    PROVE  justified(r.had, r.op, r.target, s.projects)
  <1>1. \A q \in requests : requestInOrder(q)
    BY DEF RequestsIInv, RequestsTypeOK, RequestsChecked, requestInOrder
  <1>2. /\ s.user = r.user /\ s.op = r.op /\ s.target = r.target /\ s.stage = "admitted"
        /\ s.grants = r.grants /\ s.unverified = r.unverified
    <2>1. r \in Request
      BY <1>1 DEF requestInOrder
    <2> QED
      BY <2>1 DEF Request
  <1>3. PICK q \in requests : Admit(q)
    <2>1. ASSUME NEW u \in Users, NEW op \in Operations, NEW t \in targets(op), Resolve(u, op, t)
          PROVE  FALSE
      BY <1>2, <2>1, ResolvedRequest DEF Resolve
    <2>2. ASSUME NEW q \in requests, NEW g \in q.unverified, VerifyGrant(q, g) PROVE FALSE
      BY <1>1, <1>2, <2>2, VerifiedRequest DEF VerifyGrant
    <2> QED
      BY <2>1, <2>2 DEF RequestsNext, RequestStep, Finish
  <1> DEFINE projects == visibleProjects(q.grants, q.op, q.target)
  <1>4. /\ q.stage = "verifying" /\ q.unverified = {} /\ allows(q.grants, q.op, q.target)
        /\ s = [q EXCEPT !.stage = "admitted", !.had = {}, !.projects = projects]
    BY <1>3 DEF Admit
  <1> HIDE DEF projects
  <1>5. /\ s.op = q.op /\ s.target = q.target /\ s.grants = q.grants
        /\ s.unverified = q.unverified /\ s.projects = projects
    <2>1. q \in Request
      BY <1>1 DEF requestInOrder
    <2> QED
      BY <1>4, <2>1 DEF Request
  <1>6. /\ r.unverified = {} /\ allows(r.grants, r.op, r.target)
        /\ s.projects = visibleProjects(r.grants, r.op, r.target)
    BY <1>2, <1>4, <1>5 DEF projects
  <1> QED
    BY <1>1, <1>6, AdmitJustifies

(* AdmittedWasEntitled: no request gets through the guard on grants that    *)
(* were taken back before the guard asked for them, or into a project where *)
(* the member might not act.                                                *)
THEOREM AdmittedWasEntitledHolds == RequestsSpec => AdmittedWasEntitled
  <1>1. RequestsIInv /\ [RequestsNext]_requestVars
          => [\A r \in requests : \A s \in requests' \ requests :
                r.stage = "verifying"
                /\ s = [r EXCEPT !.stage = "admitted", !.had = {}, !.projects = s.projects] =>
                   justified(r.had, r.op, r.target, s.projects)]_requestVars
    BY GuardJustifies
  <1> QED
    BY <1>1, RequestsStart, RequestsKeep, PTL DEF RequestsSpec, AdmittedWasEntitled
=============================================================================
