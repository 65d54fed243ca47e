---------------------------- MODULE MCHumanRequests ----------------------------
(***************************************************************************)
(* A small instance of ProjectRoles and HumanRequests with rows of the     *)
(* real dictionary: an administrator and a member, two projects of the     *)
(* organization and one of another, and two project roles.  A behaviour is *)
(* one of two kinds: administrators with two calls about roles under way,  *)
(* or requests while roles and members change.                             *)
(***************************************************************************)
EXTENDS HumanRequests, TLC

CONSTANTS a1, m1, p1, org, own1, own2, foreign, w1, w2, b1, b2,
          contributor, approver, sysadmin

VARIABLE kind   \* of the behaviour

MCUsers == {a1, m1}
MCDirect == {a1}
MCPasswords == {p1}
MCOwn == {own1, own2}
MCOther == {foreign}
MCProjectRoles == {contributor, approver}
MCOtherRoles == {sysadmin}
MCBindings == {b1, b2}
(* What is asked for in a behaviour of each kind: roles include wrong ones,  *)
(* requests the three of a member of two projects.                           *)
asked(k) ==
    IF k = "roles"
    THEN {[project |-> own1, user |-> m1, role |-> contributor],
          [project |-> own1, user |-> a1, role |-> contributor],
          [project |-> own1, user |-> m1, role |-> sysadmin],
          [project |-> foreign, user |-> m1, role |-> contributor]}
    ELSE {[project |-> own1, user |-> m1, role |-> contributor],
          [project |-> own1, user |-> m1, role |-> approver],
          [project |-> own2, user |-> m1, role |-> contributor]}
MCAskedFor == asked("roles") \cup asked("requests")

MCOperations == {"dashboard.get", "items.search", "items.update", "items.update-context", "items.close"}
MCPermissionOf ==
    [op \in MCOperations |->
       CASE op = "dashboard.get" -> "dashboard.read" [] op = "items.search" -> "read"
         [] op = "items.update" -> "update" [] op = "items.update-context" -> "context.update"
         [] op = "items.close" -> "close"]
MCRequires == [op \in MCOperations |-> IF op = "items.update" THEN {"items.update-context"} ELSE {}]
MCRequiredScope ==
    [op \in MCOperations |->
       CASE op = "dashboard.get" -> "organization" [] op = "items.search" -> "project"
         [] OTHER -> "object"]
MCSearching == {"items.search"}
MCProjectOf == (w1 :> own1) @@ (w2 :> foreign)

MCReads == {<<"read", "project">>, <<"read", "object">>}
MCRoleGrants ==
    (contributor :> (MCReads \cup {<<"update", "object">>, <<"context.update", "object">>}))
    @@ (approver :> (MCReads \cup {<<"close", "object">>}))
    @@ (sysadmin :> (MCReads \cup {<<"dashboard.read", "organization">>, <<"update", "object">>,
                                   <<"context.update", "object">>, <<"close", "object">>}))

MCInit ==
    /\ RequestsInit
    /\ kind \in {"roles", "requests"}

MCNext ==
    /\ kind' = kind
    /\ \/ kind = "roles" /\ RolesNext /\ UNCHANGED requests
       \/ kind = "requests" /\ RequestsNext

MCSpec == MCInit /\ [][MCNext]_<<requestVars, kind>>

(* Bounds: in behaviours with requests one call of an administrator at a     *)
(* time, about a role or a member; and no password is reset.                 *)
Small ==
    /\ \A call \in roleCalls : call.op = "assign" => call.of \in asked(kind)
    /\ \A call \in prepared : call.op # "reset"
    /\ kind = "requests" => Cardinality(roleCalls) + Cardinality(prepared) <= 1

symmetry == Permutations(MCBindings)
=============================================================================
