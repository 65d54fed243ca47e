------------------------------- MODULE Migrations -------------------------------
(***************************************************************************)
(* The schema migrations of the store.  Each is one transaction on the     *)
(* database, described by a record of                                      *)
(*   ledger       iotd_schema_migrations                                   *)
(*   schema       migrations whose tables, columns and triggers are there  *)
(*   permissions  [Permissions -> status], the dictionary with its grants  *)
(*   operations   groups of rows of service_operations                     *)
(*   users, latch users, and iotd_local_admin_bootstrap_state              *)
(* and here by an operator that maps the database to the set of databases  *)
(* it may leave behind: none when the migration refuses.                   *)
(***************************************************************************)
EXTENDS Naturals, Sequences

(* The migrations in the order in which they were released.                *)
History == <<"identity", "serviceCredentials", "authorization", "serviceGrants",
             "audit", "config", "configGrants", "projects", "planning", "itemReads",
             "views", "health", "credentials", "bootstrap", "memberAdmin", "sessions",
             "sessionControl", "projectRoles", "throttle">>

MigrationIDs == {History[k] : k \in 1..Len(History)}

(* Groups of permissions; "core" were in the first dictionary.              *)
Permissions == {"core", "config", "projects", "planning", "views", "users", "roleBindings"}

(* Groups of operations, and the permissions that they need.                *)
needs == [core |-> {"core"}, config |-> {"config"}, projects |-> {"projects"},
          planning |-> {"planning"}, itemReads |-> {"core"}, views |-> {"views"},
          health |-> {"core", "projects"}]

Operations == DOMAIN needs

(* Groups that were added to the dictionary after its first release.        *)
AddedPermissions == {"projects", "planning", "views"}
AddedOperations == {"projects", "planning", "itemReads", "views", "health"}

NoLatch == [reason |-> "open", user |-> "none"]

-----------------------------------------------------------------------------
has(d, m) == m \in d.ledger

(* The foreign key of service_operations.                                   *)
permitted(d, operations) ==
    \A o \in operations : \A p \in needs[o] : d.permissions[p] # "absent"

(* The first four migrations, whose rows in the ledger are trusted.         *)
CoreMigrations == {"identity", "serviceCredentials", "authorization", "serviceGrants"}

(* seedAuthorizationDictionary: the dictionary of this release.             *)
dictionary(d) ==
    IF has(d, "authorization") THEN d.permissions ELSE [p \in Permissions |-> "active"]

(* ensureProjectReadAuthorization: an addition that the ledger knows has to *)
(* be there, one that it does not know is made unless it is there.          *)
ensured(d, permissions) ==
    IF \E p \in AddedPermissions : has(d, p) /\ permissions[p] = "absent" THEN {}
    ELSE {[p \in Permissions |-> IF p \in AddedPermissions THEN "active" ELSE permissions[p]]}

(* seedServiceOperations.                                                   *)
seeded(d) ==
    IF has(d, "serviceGrants") THEN {d.operations}
    ELSE IF permitted(d, Operations) THEN {Operations} ELSE {}

(* Faulty variant: what the ledger knows is not looked at.                  *)
ensuredOperations_Trusting(d, operations) ==
    {operations \cup {o \in AddedOperations : ~has(d, o)}}

(* ensureProjectReadServiceOperation.                                       *)
ensuredOperations(d, operations) ==
    IF \E o \in AddedOperations \ operations : has(d, o) THEN {}
    ELSE {operations \cup AddedOperations}

(* identitycore: the first four migrations and the five additions.          *)
withDictionary(d, permissions, operations) ==
    [d EXCEPT !.ledger = @ \cup CoreMigrations \cup AddedOperations,
              !.schema = @ \cup (CoreMigrations \ d.ledger) \cup AddedOperations,
              !.permissions = permissions,
              !.operations = operations]

IdentityCore(d) ==
    UNION {UNION {{withDictionary(d, p, o) : o \in ensuredOperations(d, s)} :
                    s \in seeded([d EXCEPT !.permissions = p])} :
             p \in ensured(d, dictionary(d))}

(* Migrations that create what is missing, whatever the ledger says.        *)
installed(d, m) == [d EXCEPT !.ledger = @ \cup {m}, !.schema = @ \cup {m}]

LocalCredentials(d) == IF "identity" \in d.schema THEN {installed(d, "credentials")} ELSE {}

(* closeForPreexistingIdentity.                                             *)
closed(d) == IF d.latch = NoLatch /\ d.users # {}
             THEN [d EXCEPT !.latch = [reason |-> "preexisting_identity", user |-> "none"]] ELSE d

Bootstrap(d) ==
    IF {"identity", "authorization", "credentials"} \subseteq d.schema
    THEN {closed(installed(d, "bootstrap"))} ELSE {}

(* The permission and its grant are inserted unless they are there.         *)
granted(d, p) == [d EXCEPT !.permissions[p] = "active"]

MemberAdmin(d) ==
    IF {"identity", "authorization", "credentials"} \subseteq d.schema
    THEN {granted(installed(d, "memberAdmin"), "users")} ELSE {}

(* ... or reserved, and then activated.                                     *)
ensureManagePermission(d) == granted(d, "roleBindings")

ProjectRoles(d) ==
    IF {"identity", "authorization"} \subseteq d.schema
    THEN {ensureManagePermission(installed(d, "projectRoles"))} ELSE {}

(* The revision of the sessions and its triggers.                           *)
SessionControl(d) == installed(d, "sessionControl")

Throttle(d) == installed(d, "throttle")

Sessions(d) ==
    IF {"identity", "credentials"} \subseteq d.schema
    THEN {Throttle(SessionControl(installed(d, "sessions")))} ELSE {}

(* Migrations that refuse when they are in the ledger and not in the schema. *)
verified(d, m) ==
    IF has(d, m) /\ m \notin d.schema THEN {}
    ELSE {[d EXCEPT !.ledger = @ \cup {m}, !.schema = @ \cup {m}]}

Audit(d) == verified(d, "audit")

(* seedConfigAuthorization, INSERT OR IGNORE.                               *)
seedConfig(d) ==
    IF has(d, "configGrants") THEN d
    ELSE [d EXCEPT !.permissions["config"] = IF @ = "absent" THEN "active" ELSE @,
                   !.operations = @ \cup {"config"}]

(* verifyConfigAuthorizationSeed.                                           *)
configSeeded(d) == d.permissions["config"] = "active" /\ "config" \in d.operations

(* The revisions; and their authorization once there is a dictionary.       *)
Config(d) ==
    UNION {IF "authorization" \notin e.schema THEN {e}
           ELSE {f \in verified(seedConfig(e), "configGrants") : configSeeded(f)} :
             e \in verified(d, "config")}

(* The migrations of a start, in the order in which they are applied.       *)
Steps == <<"identity core", "local credentials", "bootstrap", "member administration",
           "project roles", "sessions", "config", "audit">>

Apply(step, d) ==
    CASE step = "identity core"         -> IdentityCore(d)
      [] step = "local credentials"     -> LocalCredentials(d)
      [] step = "bootstrap"             -> Bootstrap(d)
      [] step = "member administration" -> MemberAdmin(d)
      [] step = "project roles"         -> ProjectRoles(d)
      [] step = "sessions"              -> Sessions(d)
      [] step = "config"                -> Config(d)
      [] step = "audit"                 -> Audit(d)

-----------------------------------------------------------------------------
(* The database that the first n migrations of History leave behind, when   *)
(* no later release was ever started on it.                                 *)
released(n) == {History[k] : k \in 1..n}

(* Permissions and operations that came with a migration of another name.   *)
permissionSince(p) ==
    CASE p = "core" -> "authorization" [] p = "config" -> "configGrants"
      [] p = "users" -> "memberAdmin" [] p = "roleBindings" -> "authorization" [] OTHER -> p

operationSince(o) ==
    CASE o = "core" -> "serviceGrants" [] o = "config" -> "configGrants" [] OTHER -> o

Database(n) ==
    [ledger |-> released(n), schema |-> released(n),
     permissions |-> [p \in Permissions |->
        IF permissionSince(p) \notin released(n) THEN "absent"
        ELSE IF p = "roleBindings" /\ "projectRoles" \notin released(n) THEN "reserved"
        ELSE "active"],
     operations |-> {o \in Operations : operationSince(o) \in released(n)},
     users |-> {}, latch |-> NoLatch]

(* What a database of this release is like, apart from users and latch.     *)
Complete(d) ==
    /\ d.ledger = MigrationIDs /\ d.schema = MigrationIDs
    /\ \A p \in Permissions : d.permissions[p] = "active"
    /\ d.operations = Operations
=============================================================================
