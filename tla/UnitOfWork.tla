----------------------------- MODULE UnitOfWork -----------------------------
(***************************************************************************)
(* The root transaction of a write, step by step, in several processes     *)
(* that share one SQLite file: localtx begins it, delivery/service.go      *)
(* reads the row, stages the event and saves the row on it, the audited    *)
(* decorator appends the entry, the executor commits or rolls back, and    *)
(* the recording executor reports a failure afterwards on its own.         *)
(*                                                                         *)
(* Every process has one pooled connection, so it has at most one open     *)
(* transaction.  SQLite (WAL) is modelled by what it does: a transaction   *)
(* sees the database as of its first read and its own writes; its first    *)
(* write takes the one write lock, and is refused when somebody committed  *)
(* since that read.                                                        *)
(***************************************************************************)
EXTENDS Naturals, FiniteSets

CONSTANTS
    Processes,
    Requests,     \* write requests, each is sent once
    Items,        \* the rows they write
    NoProcess, NoTransaction,
    MaxCrashes    \* bound on process crashes

ASSUME NoProcessAssumption == NoProcess \notin Processes
ASSUME MaxCrashesAssumption == MaxCrashes \in Nat

VARIABLES
    db,       \* the committed database
    lock,     \* the process that holds SQLite's write lock, or NoProcess
    tx,       \* the open transaction of each process's connection
    phase,    \* how far each request has come
    request,  \* its process, row, number of parts and expected revision
    crashes

vars == <<db, lock, tx, phase, request, crashes>>

-----------------------------------------------------------------------------
(* Data.                                                                   *)

Steps == {"read", "stage", "save", "audit", "commit"}

(* "new" is not sent yet; "failing" has rolled back and may still have to   *)
(* be reported; "lost" was cut off by a crash.                             *)
Phases == {"new", "waiting", "running", "committed", "failing", "failed",
           "lost"}

Events == Requests \X {1, 2}
Entries == (Requests \X {1, 2} \X {"success"}) \cup
           (Requests \X {0} \X {"failure"})

(* version counts the commits: SQLite compares it with a transaction's.     *)
Databases ==
    [version : Nat, rows : [Items -> Nat], outbox : SUBSET Events,
     audit : SUBSET Entries]

Transactions ==
    [request : Requests, part : {1, 2}, step : Steps, view : Databases]

RequestType ==
    [process : Processes, item : Items, parts : {1, 2}, expected : Nat]

ASSUME NoTransactionAssumption == NoTransaction \notin Transactions

Init ==
    /\ db = [version |-> 0, rows |-> [i \in Items |-> 0], outbox |-> {},
             audit |-> {}]
    /\ lock = NoProcess
    /\ tx = [p \in Processes |-> NoTransaction]
    /\ phase = [r \in Requests |-> "new"]
    /\ request \in [Requests -> [process : Processes, item : Items,
                                 parts : {1, 2}, expected : {0}]]
    /\ crashes = 0

Idle(p) == tx[p] = NoTransaction
Row(p) == request[tx[p].request].item

SetPhase(r, value) == phase' = [phase EXCEPT ![r] = value]

-----------------------------------------------------------------------------
(* One request.                                                            *)

(* The client sends the revision it sees now; 0 creates the row.  It is     *)
(* stale when the transaction starts after somebody else's.                *)
Send(r) ==
    /\ phase[r] = "new"
    /\ SetPhase(r, "waiting")
    /\ request' = [request EXCEPT ![r].expected = db.rows[request[r].item]]
    /\ UNCHANGED <<db, lock, tx, crashes>>

(* The executor has authorized the call and gets the connection: BEGIN is   *)
(* deferred, nothing is read or locked yet.                                *)
Begin(p, r) ==
    /\ phase[r] = "waiting"
    /\ request[r].process = p
    /\ Idle(p)
    /\ SetPhase(r, "running")
    /\ tx' = [tx EXCEPT ![p] =
                 [request |-> r, part |-> 1, step |-> "read", view |-> db]]
    /\ UNCHANGED <<db, lock, request, crashes>>

(* Faulty variant: the statement asks the pool, whose only connection is    *)
(* the one of the open transaction.                                        *)
executor_Pool(p) == Idle(p)

(* A statement of p's transaction has a connection to run on: the           *)
(* execution frame's own transaction.                                      *)
executor(p) == ~Idle(p)

(* Faulty variant: the revision is not compared.                            *)
expectedRevision_Unchecked(p) == TRUE

(* The second part of a combined patch expects what the first one made.     *)
expectedRevision(p) ==
    tx[p].view.rows[Row(p)] =
        request[tx[p].request].expected + (tx[p].part - 1)

(* The service reads the row, and with it SQLite fixes the snapshot.  The   *)
(* second part reads through the same transaction.                         *)
Read(p) ==
    /\ ~Idle(p)
    /\ executor(p)
    /\ tx[p].step = "read"
    /\ LET view == IF tx[p].part = 1 THEN db ELSE tx[p].view
       IN  tx' = [tx EXCEPT ![p].step = "stage", ![p].view = view]
    /\ UNCHANGED <<db, lock, phase, request, crashes>>

mayWrite(p) ==
    \/ lock = p
    \/ lock = NoProcess /\ tx[p].view.version = db.version

(* persistMutation: the event is inserted first, then the row is written.   *)
Stage(p) ==
    /\ ~Idle(p)
    /\ executor(p)
    /\ tx[p].step = "stage"
    /\ expectedRevision(p)
    /\ mayWrite(p)
    /\ lock' = p
    /\ tx' = [tx EXCEPT
                 ![p].step = "save",
                 ![p].view.outbox = @ \cup {<<tx[p].request, tx[p].part>>}]
    /\ UNCHANGED <<db, phase, request, crashes>>

Save(p) ==
    /\ ~Idle(p)
    /\ executor(p)
    /\ tx[p].step = "save"
    /\ expectedRevision(p)
    /\ tx' = [tx EXCEPT ![p].step = "audit", ![p].view.rows[Row(p)] = @ + 1]
    /\ UNCHANGED <<db, lock, phase, request, crashes>>

(* The entries an append without error writes on the transaction.           *)
auditEntry(p) == {{<<tx[p].request, tx[p].part, "success">>}}

(* Faulty variant: every part ends with a commit of its own.                *)
isLastPart_Always(p) == TRUE
isLastPart(p) == tx[p].part = request[tx[p].request].parts

(* The decorator appends the entry after the service returned; the child    *)
(* operation of a combined patch then joins the same transaction.          *)
Audit(p) ==
    /\ ~Idle(p)
    /\ executor(p)
    /\ tx[p].step = "audit"
    /\ \E entries \in auditEntry(p) :
          tx' = [tx EXCEPT
                    ![p].view.audit = @ \cup entries,
                    ![p].step = IF isLastPart(p) THEN "commit" ELSE "read",
                    ![p].part = IF isLastPart(p) THEN @ ELSE @ + 1]
    /\ UNCHANGED <<db, lock, phase, request, crashes>>

(* While p holds the lock nobody else commits, so its view becomes the      *)
(* database as it is.                                                      *)
Commit(p) ==
    /\ ~Idle(p)
    /\ tx[p].step = "commit"
    /\ db' = [tx[p].view EXCEPT !.version = @ + 1]
    /\ lock' = NoProcess
    /\ tx' = [tx EXCEPT ![p] = NoTransaction]
    /\ SetPhase(tx[p].request, "committed")
    /\ UNCHANGED <<request, crashes>>

(* Faulty variant: closing the unit of work commits what it wrote so far.   *)
discard_Commits(p) ==
    IF lock = p THEN [tx[p].view EXCEPT !.version = @ + 1] ELSE db

discard(p) == db

(* An error at any step: a failed validation, a revision conflict, a busy   *)
(* database (at once with an old snapshot, after the timeout with a held    *)
(* lock), an actor the audit does not trust, a cancelled context, a COMMIT  *)
(* that failed.  The executor rolls back.  A statement that waits for a     *)
(* connection returns no error.                                            *)
Rollback(p) ==
    /\ ~Idle(p)
    /\ executor(p)
    /\ db' = discard(p)
    /\ lock' = IF lock = p THEN NoProcess ELSE lock
    /\ tx' = [tx EXCEPT ![p] = NoTransaction]
    /\ SetPhase(tx[p].request, "failing")
    /\ UNCHANGED <<request, crashes>>

(* RecordApplicationRollback writes its entry after the rollback, in a      *)
(* statement of its own.                                                   *)
RecordApplicationRollback(p, r) ==
    /\ phase[r] = "failing"
    /\ request[r].process = p
    /\ Idle(p)
    /\ lock = NoProcess
    /\ db' = [db EXCEPT !.version = @ + 1,
                        !.audit = @ \cup {<<r, 0, "failure">>}]
    /\ SetPhase(r, "failed")
    /\ UNCHANGED <<lock, tx, request, crashes>>

(* An error of that statement is ignored.                                  *)
GiveUpRecording(p, r) ==
    /\ phase[r] = "failing"
    /\ request[r].process = p
    /\ SetPhase(r, "failed")
    /\ UNCHANGED <<db, lock, tx, request, crashes>>

(* The process dies and starts again; SQLite forgets its transaction.       *)
Crash(p) ==
    /\ crashes < MaxCrashes
    /\ crashes' = crashes + 1
    /\ lock' = IF lock = p THEN NoProcess ELSE lock
    /\ tx' = [tx EXCEPT ![p] = NoTransaction]
    /\ phase' = [r \in Requests |->
                    IF request[r].process = p
                         /\ phase[r] \in {"waiting", "running", "failing"}
                    THEN "lost" ELSE phase[r]]
    /\ UNCHANGED <<db, request>>

Work(p) ==
    \/ \E r \in Requests :
          Begin(p, r) \/ RecordApplicationRollback(p, r) \/ GiveUpRecording(p, r)
    \/ Read(p) \/ Stage(p) \/ Save(p) \/ Audit(p) \/ Commit(p) \/ Rollback(p)

Next ==
    \/ \E r \in Requests : Send(r)
    \/ \E p \in Processes : Work(p) \/ Crash(p)

(* A process keeps working on what it accepted; nobody has to send          *)
(* anything, and nothing has to crash.                                     *)
Spec == Init /\ [][Next]_vars /\ \A p \in Processes : WF_vars(Work(p))

-----------------------------------------------------------------------------
(* Properties.                                                             *)

TypeOK ==
    /\ db \in Databases
    /\ lock \in Processes \cup {NoProcess}
    /\ tx \in [Processes -> Transactions \cup {NoTransaction}]
    /\ phase \in [Requests -> Phases]
    /\ request \in [Requests -> RequestType]
    /\ crashes \in 0..MaxCrashes

Of(i, records) == {e \in records : request[e[1]].item = i}
Successes == {e \in db.audit : e[3] = "success"}

(* In the committed database each revision of a row has one event and one   *)
(* audit entry: neither crash nor conflict nor a combined patch separates   *)
(* the three (persistMutation, auditedDeliveryService).                    *)
Lockstep ==
    \A i \in Items :
        /\ db.rows[i] = Cardinality(Of(i, db.outbox))
        /\ db.rows[i] = Cardinality(Of(i, Successes))

(* A request took effect with all its parts or with none, and the process   *)
(* that answered "committed" or "failed" told the truth.                   *)
AllOrNothing ==
    \A r \in Requests :
        LET parts == {e[2] : e \in {x \in db.outbox : x[1] = r}}
        IN  /\ parts \in {{}, 1..request[r].parts}
            /\ phase[r] = "committed" => parts # {}
            /\ phase[r] \in {"failing", "failed"} => parts = {}
            /\ <<r, 0, "failure">> \in db.audit => parts = {}

(* Who holds SQLite's write lock works on the database as it is, so its     *)
(* commit replaces nothing that others committed in between.               *)
LockedViewIsCurrent ==
    \A p \in Processes :
        lock = p =>
            /\ tx[p] # NoTransaction
            /\ tx[p].view.version = db.version

(* What holds between rows, events, entries and answers at any time.        *)
WriteInvariant == TypeOK /\ Lockstep /\ AllOrNothing /\ LockedViewIsCurrent

(* Only an up-to-date request changes a row, whatever process it came in    *)
(* through: the row it replaces has the revision its client saw.           *)
NoOverwrite ==
    [][\A i \in Items :
          db'.rows[i] # db.rows[i] =>
              \E r \in Requests :
                  /\ request[r].item = i
                  /\ phase'[r] = "committed" /\ phase[r] = "running"
                  /\ request[r].expected = db.rows[i]]_vars

(* Every request that was sent gets an answer or dies with its process: no  *)
(* transaction waits for a lock or a connection for ever.                  *)
EveryRequestEnds ==
    \A r \in Requests :
        phase[r] = "waiting" ~> phase[r] \in {"committed", "failed", "lost"}

(* The transactions implement the atomic writes of AtomicWrites.            *)
Atomic == INSTANCE AtomicWrites WITH
              rows <- db.rows, outbox <- db.outbox, audit <- db.audit

AtomicSpec == Atomic!Spec
=============================================================================
