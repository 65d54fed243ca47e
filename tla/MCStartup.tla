------------------------------- MODULE MCStartup -------------------------------
(***************************************************************************)
(* Small instances of Startup and of EventRuntime, in behaviours of three  *)
(* kinds: two processes and two users on the database of every release;    *)
(* one process with its reminders; and two processes that export.          *)
(***************************************************************************)
EXTENDS Startup, EventRuntime, TLC

CONSTANTS p1, p2, u1, u2, i1, i2

VARIABLE kind

MCVars == <<startupVars, runtimeVars, kind>>

MCProcesses == {p1, p2}
MCUserIDs == {u1, u2}
MCItems == {i1, i2}
MCFiles == <<Overview, i1, i2>>

withoutDue == \A i \in Items : workItems[i].due = 0 /\ workItems[i].open

MCInit ==
    /\ StartupInit /\ RuntimeInit
    /\ \/ /\ kind = "startup" /\ withoutDue
          /\ u2 \in db.users => u1 \in db.users
          /\ db.latch.user # u2
       \/ /\ release = 0 /\ forged = None
          /\ \/ kind = "reminders"
             \/ kind = "projection" /\ withoutDue

(* One process, which exports nothing, and one item that is edited.         *)
Reminding ==
    /\ RuntimeNext
    /\ life'[p2] = "down" /\ exports'[p1].stage # "claimed"
    /\ workItems'[i2] = workItems[i2]

(* Items that nobody is reminded of, and no ticks; two edits in all, and     *)
(* one of the processes only ends by a crash.                               *)
Projecting ==
    /\ RuntimeNext
    /\ withoutDue' /\ today' = today
    /\ workItems'[i1].revision + workItems'[i2].revision <= 2
    /\ life'[p2] # "stopping"
    /\ \A p \in Applications : life[p] # "starting" => reminders'[p].stage # "listed"

(* The first process to start is called p1, the first user u1.              *)
Starting ==
    /\ StartupNext
    /\ process'[p2].state # "down" => process'[p1].state # "down"
    /\ u2 \in db'.users => u1 \in db'.users

MCNext ==
    /\ kind' = kind
    /\ \/ kind = "startup" /\ Starting /\ UNCHANGED runtimeVars
       \/ kind = "reminders" /\ Reminding /\ UNCHANGED startupVars
       \/ kind = "projection" /\ Projecting /\ UNCHANGED startupVars

MCSpec ==
    /\ MCInit /\ [][MCNext]_MCVars
    /\ WF_runtimeVars(kind = "reminders" /\ Remind(p1))
=============================================================================
