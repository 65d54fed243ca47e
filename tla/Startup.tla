-------------------------------- MODULE Startup --------------------------------
(***************************************************************************)
(* Processes of this release start on the database of an earlier one, of   *)
(* none, or of their own (bootstrap), and the first administrator is made  *)
(* (localbootstrap).                                                       *)
(*                                                                         *)
(* A migration is one step: SQLite refuses the writes of a transaction on  *)
(* a stale snapshot, and then, as when the database is busy or the process *)
(* crashes, the start fails without a trace.                               *)
(***************************************************************************)
EXTENDS Migrations

CONSTANTS
    Processes,
    UserIDs

None == "none"

ASSUME StartupAssumption == None \notin UserIDs

VARIABLES
    db,         \* the database, see Migrations
    items,      \* columns of iotd_delivery_items: "none", "old", "revised"
    rights,     \* the rows a bootstrap makes: users that have a binding, ...
    process,    \* [Processes -> what it is at]
    release,    \* how many migrations the release had that made the database
    forged      \* a migration that was put into the ledger by other means

startupVars == <<db, items, rights, process, release, forged>>

-----------------------------------------------------------------------------
(* at is the number of migrations that are applied, of a running one all.   *)
States == [state : {"down", "refused", "failed"}, at : {0}]
             \cup [state : {"opening", "altering"}, at : {0}]
             \cup [state : {"starting"}, at : 0..(Len(Steps) - 1)]
             \cup [state : {"running"}, at : {Len(Steps)}]

StartupTypeOK ==
    /\ db.ledger \subseteq MigrationIDs /\ db.schema \subseteq MigrationIDs
    /\ db.permissions \in [Permissions -> {"absent", "reserved", "active"}]
    /\ db.operations \subseteq Operations
    /\ db.users \subseteq UserIDs
    /\ db.latch.reason \in {"open", "initialized", "preexisting_identity"}
    /\ db.latch.user \in UserIDs \cup {None}
    /\ items \in {"none", "old", "revised"}
    /\ rights \in [{"binding", "credential", "audit"} -> SUBSET UserIDs]
    /\ process \in [Processes -> States]
    /\ release \in 0..Len(History) /\ forged \in MigrationIDs \cup {None}

(* The ledger may have a row more than the release wrote, but for the first *)
(* four migrations.  Users came with external identities or are the first   *)
(* administrator; the latch tells, once it is closed.                       *)
StartupInit ==
    /\ release \in 0..Len(History)
    /\ forged \in {None} \cup (MigrationIDs \ (released(release) \cup CoreMigrations))
    /\ \E users \in SUBSET UserIDs, first \in UserIDs \cup {None}, latched \in BOOLEAN :
          LET d == [Database(release) EXCEPT !.users = users]
              l == IF first # None THEN [reason |-> "initialized", user |-> first]
                   ELSE IF latched THEN closed(d).latch ELSE NoLatch IN
          /\ users # {} => "identity" \in d.schema
          /\ first # None => first \in users /\ "bootstrap" \in d.schema
          /\ latched => "bootstrap" \in d.schema
          /\ db = [d EXCEPT !.latch = l, !.ledger = @ \cup ({forged} \ {None})]
          /\ rights = [r \in {"binding", "credential", "audit"} |-> {first} \ {None}]
    /\ items \in (IF release = 0 THEN {"none"} ELSE {"old", "revised"})
    /\ process = [p \in Processes |-> [state |-> "down", at |-> 0]]

-----------------------------------------------------------------------------
to(p, state, at) == process' = [process EXCEPT ![p] = [state |-> state, at |-> at]]

is(p, state) == process[p].state = state

(* NewSQLiteRepository creates the tables that are missing ...              *)
Open(p) ==
    /\ is(p, "down") \/ is(p, "failed")
    /\ items' = IF items = "none" THEN "revised" ELSE items
    /\ to(p, "opening", 0)
    /\ UNCHANGED <<db, rights, release, forged>>

(* ... and looks for a column of theirs, outside any transaction ...        *)
Inspect(p) ==
    /\ is(p, "opening")
    /\ IF items = "revised" THEN to(p, "starting", 0) ELSE to(p, "altering", 0)
    /\ UNCHANGED <<db, items, rights, release, forged>>

(* ... which it adds, unless another process has just done so.              *)
Alter(p) ==
    /\ is(p, "altering")
    /\ IF items = "revised" THEN to(p, "failed", 0) ELSE to(p, "starting", 0)
    /\ items' = "revised"
    /\ UNCHANGED <<db, rights, release, forged>>

(* The next migration.  A process that is refused is not started again.     *)
Migrate(p) ==
    LET results == Apply(Steps[process[p].at + 1], db) IN
    /\ is(p, "starting")
    /\ IF results = {} THEN to(p, "refused", 0) /\ UNCHANGED db
       ELSE /\ db' \in results
            /\ IF process[p].at + 1 = Len(Steps) THEN to(p, "running", Len(Steps))
               ELSE to(p, "starting", process[p].at + 1)
    /\ UNCHANGED <<items, rights, release, forged>>

(* The database is busy, or the process crashes or is stopped.              *)
Fail(p) ==
    /\ process[p].state \in {"opening", "altering", "starting", "running"}
    /\ to(p, "failed", 0)
    /\ UNCHANGED <<db, items, rights, release, forged>>

-----------------------------------------------------------------------------
(* An external identity is seen for the first time (IdentityBinding).       *)
Bind(p, u) ==
    /\ is(p, "running") /\ u \notin db.users
    /\ db' = [db EXCEPT !.users = @ \cup {u}]
    /\ UNCHANGED <<items, rights, process, release, forged>>

(* Faulty variant: only the latch closes the bootstrap.                     *)
preexisting_Latched(d) == FALSE

preexisting(d) == d.users # {}

(* The claim of the latch, the user, its rights and their audit entry.  The *)
(* claim finds no other row, because it is on the snapshot on which the     *)
(* latch was open.                                                          *)
claimBootstrap(u) ==
    /\ db' = [db EXCEPT !.latch = [reason |-> "initialized", user |-> u],
                        !.users = @ \cup {u}]
    /\ rights' = [r \in DOMAIN rights |-> rights[r] \cup {u}]

(* Initialize, one transaction.                                             *)
Initialize(p, u) ==
    /\ is(p, "running") /\ u \notin db.users
    /\ db.latch = NoLatch
    /\ IF preexisting(db) THEN db' = closed(db) /\ UNCHANGED rights
       ELSE claimBootstrap(u)
    /\ UNCHANGED <<items, process, release, forged>>

StartupNext ==
    \E p \in Processes :
       \/ Open(p) \/ Inspect(p) \/ Alter(p) \/ Migrate(p) \/ Fail(p)
       \/ \E u \in UserIDs : Bind(p, u) \/ Initialize(p, u)

StartupSpec == StartupInit /\ [][StartupNext]_startupVars

-----------------------------------------------------------------------------
(* Properties.                                                              *)

(* Wherever it started from, and whatever the ledger claimed, a process     *)
(* that runs has the schema and the dictionary of its release.              *)
RunningIsComplete == \A p \in Processes : is(p, "running") => Complete(db)

(* Migrations whose row in the ledger is not believed.                      *)
Checked == AddedOperations \cup {"audit", "config", "configGrants"}

(* A start is only refused for a ledger that lies, or on a database with    *)
(* the authorization dictionary and without the grants of services: its     *)
(* dictionary lacks the permissions of the configuration, which the         *)
(* operations of services refer to and which are only seeded later.         *)
RefusedForReason ==
    \A p \in Processes : is(p, "refused") =>
       forged \in Checked \/ (released(release) \cap CoreMigrations
                            = {"identity", "serviceCredentials", "authorization"})

(* The latch names the one user that the bootstrap gave a role, a password  *)
(* and an audit entry, all or nothing.                                      *)
LatchIsTrue ==
    /\ \A r \in DOMAIN rights : rights[r] = {db.latch.user} \ {None}
    /\ rights["binding"] \subseteq db.users
    /\ db.latch.reason = "initialized" <=> db.latch.user # None

(* What holds at any time.                                                  *)
StartupInvariant == StartupTypeOK /\ RunningIsComplete /\ RefusedForReason /\ LatchIsTrue

(* An administrator is only made where there was no user at all, by one     *)
(* call ever; and the latch, once closed, stays as it is, however often     *)
(* processes crash and start again.                                         *)
FirstUserOnly ==
    [][/\ rights' # rights => db.users = {} /\ db.latch = NoLatch
       /\ db.latch # NoLatch => db'.latch = db.latch]_startupVars
=============================================================================
