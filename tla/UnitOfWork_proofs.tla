------------------------- MODULE UnitOfWork_proofs -------------------------
(***************************************************************************)
(* Proofs about UnitOfWork: its invariant, NoOverwrite, and that its steps *)
(* are the atomic writes of AtomicWrites.                                  *)
(***************************************************************************)
EXTENDS UnitOfWork, FiniteSetTheorems, TLAPS

-----------------------------------------------------------------------------
(* The inductive invariant: what an open transaction has done so far, and  *)
(* that its view is the database plus exactly that.                        *)

(* How many parts have their event inserted, their row written, their      *)
(* entry appended.                                                         *)
Staged(t) == IF t.step \in {"read", "stage"} THEN t.part - 1 ELSE t.part
Saved(t) == IF t.step \in {"audit", "commit"} THEN t.part ELSE t.part - 1
Audited(t) == IF t.step = "commit" THEN t.part ELSE t.part - 1

EventsOf(r, n) == {<<r, part>> : part \in 1..n}
EntriesOf(r, n) == {<<r, part, "success">> : part \in 1..n}

(* t works on d: what it sees is d with its own parts.                     *)
Shows(t, i, d) ==
    /\ t.view.rows = [d.rows EXCEPT ![i] = @ + Saved(t)]
    /\ t.view.outbox = d.outbox \cup EventsOf(t.request, Staged(t))
    /\ t.view.audit = d.audit \cup EntriesOf(t.request, Audited(t))

(* The write lock is held from the first event to the end.                 *)
HolderStaged ==
    \A p \in Processes :
        lock = p <=> tx[p] # NoTransaction /\ Staged(tx[p]) > 0

TransactionsRun ==
    \A p \in Processes :
        tx[p] # NoTransaction =>
            /\ phase[tx[p].request] = "running"
            /\ request[tx[p].request].process = p
            /\ tx[p].part <= request[tx[p].request].parts
            /\ tx[p].step = "commit" =>
                 tx[p].part = request[tx[p].request].parts

ViewsFollow ==
    \A p \in Processes :
        tx[p] # NoTransaction =>
            /\ tx[p].view.version <= db.version
            /\ tx[p].view.version = db.version => Shows(tx[p], Row(p), db)
            /\ lock = p =>
                 /\ tx[p].view.version = db.version
                 /\ db.rows[Row(p)] = request[tx[p].request].expected

(* Before its commit nothing of a request is in the database, and a        *)
(* failure is reported of a request that ended with one.                   *)
NothingBeforeCommit ==
    \A r \in Requests :
        /\ phase[r] # "committed" =>
             \A k \in {1, 2} : /\ <<r, k>> \notin db.outbox
                               /\ <<r, k, "success">> \notin db.audit
        /\ phase[r] = "committed" =>
             \A k \in {1, 2} : <<r, k>> \in db.outbox <=> k <= request[r].parts
        /\ <<r, 0, "failure">> \in db.audit => phase[r] = "failed"

FiniteLogs == IsFiniteSet(db.outbox) /\ IsFiniteSet(db.audit)

IInv ==
    /\ TypeOK
    /\ HolderStaged
    /\ TransactionsRun
    /\ ViewsFollow
    /\ NothingBeforeCommit
    /\ FiniteLogs
    /\ Lockstep

-----------------------------------------------------------------------------
(* Type correctness.                                                       *)

LEMMA InitTypes == Init => TypeOK
<1>. SUFFICES ASSUME Init PROVE TypeOK
  OBVIOUS
<1>1. db \in Databases
  BY DEF Init, Databases
<1>2. request \in [Requests -> RequestType]
  BY DEF Init, RequestType
<1>. QED
  BY <1>1, <1>2, MaxCrashesAssumption DEF Init, TypeOK, Phases

(* A transaction that is open has the fields of one.                       *)
LEMMA OpenTypes ==
  ASSUME TypeOK, NEW p \in Processes, tx[p] # NoTransaction
  PROVE  /\ tx[p] \in Transactions
         /\ tx[p].request \in Requests
         /\ tx[p].part \in {1, 2}
         /\ tx[p].step \in Steps
         /\ tx[p].view \in Databases
         /\ tx[p].view.version \in Nat
         /\ tx[p].view.rows \in [Items -> Nat]
         /\ tx[p].view.outbox \subseteq Events
         /\ tx[p].view.audit \subseteq Entries
         /\ request[tx[p].request] \in RequestType
         /\ request[tx[p].request].parts \in {1, 2}
         /\ request[tx[p].request].expected \in Nat
         /\ Row(p) \in Items
<1>1. tx[p] \in Transactions
  BY DEF TypeOK
<1>2. tx[p].request \in Requests /\ tx[p].view \in Databases
  BY <1>1 DEF Transactions
<1>3. request[tx[p].request] \in RequestType
  BY <1>2 DEF TypeOK
<1>. QED
  BY <1>1, <1>2, <1>3 DEF Transactions, Databases, RequestType, Row

(* What each statement makes of the transaction it runs on.                *)
LEMMA ReadDoes ==
  ASSUME TypeOK, NEW p \in Processes, Read(p)
  PROVE  \E t \in Transactions :
            /\ tx' = [tx EXCEPT ![p] = t]
            /\ t = [tx[p] EXCEPT
                      !.step = "stage",
                      !.view = IF tx[p].part = 1 THEN db ELSE tx[p].view]
<1>1. tx[p] \in Transactions /\ tx[p].view \in Databases /\ db \in Databases
  BY OpenTypes DEF Read, Idle, TypeOK
<1>. DEFINE t == [tx[p] EXCEPT
                    !.step = "stage",
                    !.view = IF tx[p].part = 1 THEN db ELSE tx[p].view]
<1>2. t \in Transactions
  BY <1>1 DEF Transactions, Steps
<1>3. tx' = [tx EXCEPT ![p] = t]
  BY DEF Read
<1>. QED
  BY <1>2, <1>3

LEMMA StageDoes ==
  ASSUME TypeOK, NEW p \in Processes, Stage(p)
  PROVE  \E t \in Transactions :
            /\ tx' = [tx EXCEPT ![p] = t]
            /\ t = [tx[p] EXCEPT
                      !.step = "save",
                      !.view = [tx[p].view EXCEPT
                        !.outbox = @ \cup {<<tx[p].request, tx[p].part>>}]]
<1>1. /\ tx[p] \in Transactions /\ tx[p].view \in Databases
      /\ tx[p].request \in Requests /\ tx[p].part \in {1, 2}
      /\ tx[p].view.outbox \subseteq Events
  BY OpenTypes DEF Stage, Idle
<1>. DEFINE v == [tx[p].view EXCEPT
                    !.outbox = @ \cup {<<tx[p].request, tx[p].part>>}]
            t == [tx[p] EXCEPT !.step = "save", !.view = v]
<1>2. <<tx[p].request, tx[p].part>> \in Events
  BY <1>1 DEF Events
<1>3. v \in Databases
  BY <1>1, <1>2 DEF Databases
<1>4. t \in Transactions
  <2>. HIDE DEF v
  <2>. QED
    BY <1>1, <1>3 DEF Transactions, Steps
<1>5. tx' = [tx EXCEPT ![p] = t]
  BY <1>1 DEF Stage, TypeOK, Transactions, Databases
<1>. QED
  BY <1>4, <1>5

LEMMA SaveDoes ==
  ASSUME TypeOK, NEW p \in Processes, Save(p)
  PROVE  \E t \in Transactions :
            /\ tx' = [tx EXCEPT ![p] = t]
            /\ t = [tx[p] EXCEPT
                      !.step = "audit",
                      !.view = [tx[p].view EXCEPT
                        !.rows = [tx[p].view.rows EXCEPT ![Row(p)] = @ + 1]]]
<1>1. /\ tx[p] \in Transactions /\ tx[p].view \in Databases
      /\ tx[p].view.rows \in [Items -> Nat] /\ Row(p) \in Items
  BY OpenTypes DEF Save, Idle
<1>. DEFINE rows == [tx[p].view.rows EXCEPT ![Row(p)] = @ + 1]
            v == [tx[p].view EXCEPT !.rows = rows]
            t == [tx[p] EXCEPT !.step = "audit", !.view = v]
<1>2. rows \in [Items -> Nat]
  BY <1>1
<1>3. v \in Databases
  <2>. HIDE DEF rows
  <2>. QED
    BY <1>1, <1>2 DEF Databases
<1>4. t \in Transactions
  <2>. HIDE DEF v
  <2>. QED
    BY <1>1, <1>3 DEF Transactions, Steps
<1>5. tx' = [tx EXCEPT ![p] = t]
  BY <1>1 DEF Save, TypeOK, Transactions, Databases
<1>. QED
  BY <1>4, <1>5

LEMMA AuditDoes ==
  ASSUME TypeOK, TransactionsRun, NEW p \in Processes, Audit(p)
  PROVE  \E t \in Transactions :
            /\ tx' = [tx EXCEPT ![p] = t]
            /\ t = [tx[p] EXCEPT
                      !.view = [tx[p].view EXCEPT
                        !.audit = @ \cup
                           {<<tx[p].request, tx[p].part, "success">>}],
                      !.step = IF isLastPart(p) THEN "commit" ELSE "read",
                      !.part = IF isLastPart(p) THEN @ ELSE @ + 1]
            /\ ~isLastPart(p) => tx[p].part = 1 /\ t.part = 2
<1>1. /\ tx[p] \in Transactions /\ tx[p].view \in Databases
      /\ tx[p].request \in Requests /\ tx[p].part \in {1, 2}
      /\ tx[p].view.audit \subseteq Entries
  BY OpenTypes DEF Audit, Idle
<1>. DEFINE v == [tx[p].view EXCEPT
                    !.audit = @ \cup {<<tx[p].request, tx[p].part, "success">>}]
            step == IF isLastPart(p) THEN "commit" ELSE "read"
            part == IF isLastPart(p) THEN tx[p].part ELSE tx[p].part + 1
            t == [tx[p] EXCEPT !.view = v, !.step = step, !.part = part]
<1>2. <<tx[p].request, tx[p].part, "success">> \in Entries
  BY <1>1 DEF Entries
<1>3. v \in Databases
  BY <1>1, <1>2 DEF Databases
<1>4. ~isLastPart(p) => tx[p].part = 1
  <2>1. tx[p].part <= request[tx[p].request].parts
    BY DEF Audit, Idle, TransactionsRun
  <2>2. request[tx[p].request].parts \in {1, 2}
    BY OpenTypes DEF Audit, Idle
  <2>. QED
    BY <1>1, <2>1, <2>2 DEF isLastPart
<1>5. part \in {1, 2} /\ step \in Steps /\ (~isLastPart(p) => part = 2)
  BY <1>1, <1>4 DEF Steps
<1>6. t \in Transactions /\ t.part = part
  <2>. HIDE DEF v, part, step
  <2>. QED
    BY <1>1, <1>3, <1>5 DEF Transactions
<1>7. tx' = [tx EXCEPT ![p] = t]
  BY <1>1 DEF Audit, auditEntry, TypeOK, Transactions, Databases
<1>. QED
  BY <1>4, <1>5, <1>6, <1>7

LEMMA TypeStep ==
  ASSUME TypeOK, TransactionsRun, [Next]_vars
  PROVE  TypeOK'
<1>1. ASSUME NEW r \in Requests, Send(r)
      PROVE  TypeOK'
  <2>1. db.rows[request[r].item] \in Nat
    BY DEF TypeOK, Databases, RequestType
  <2>2. request[r] \in RequestType
    BY DEF TypeOK
  <2>3. ASSUME NEW n \in Nat
        PROVE  [request[r] EXCEPT !.expected = n] \in RequestType
    BY <2>2 DEF RequestType
  <2>4. request' = [request EXCEPT ![r] =
                      [request[r] EXCEPT !.expected = db.rows[request[r].item]]]
    BY <1>1 DEF Send
  <2>5. request' \in [Requests -> RequestType]
    BY <2>1, <2>3, <2>4 DEF TypeOK
  <2>. QED
    BY <1>1, <2>5 DEF TypeOK, Send, SetPhase, Phases
<1>2. ASSUME NEW p \in Processes, NEW r \in Requests, Begin(p, r)
      PROVE  TypeOK'
  <2>1. [request |-> r, part |-> 1, step |-> "read", view |-> db] \in Transactions
    BY DEF TypeOK, Transactions, Steps
  <2>. QED
    BY <1>2, <2>1 DEF TypeOK, Begin, SetPhase, Phases
<1>3. ASSUME NEW p \in Processes, NEW r \in Requests,
             RecordApplicationRollback(p, r) \/ GiveUpRecording(p, r)
      PROVE  TypeOK'
  <2>1. <<r, 0, "failure">> \in Entries
    BY DEF Entries
  <2>2. /\ db \in Databases /\ db.version \in Nat /\ db.version + 1 \in Nat
        /\ db.audit \cup {<<r, 0, "failure">>} \in SUBSET Entries
    BY <2>1 DEF TypeOK, Databases
  <2>3. [db EXCEPT !.version = db.version + 1,
                   !.audit = db.audit \cup {<<r, 0, "failure">>}] \in Databases
    BY <2>2 DEF Databases
  <2>4. db' \in Databases
    BY <1>3, <2>2, <2>3 DEF RecordApplicationRollback, GiveUpRecording
  <2>. QED
    BY <1>3, <2>4
    DEF TypeOK, RecordApplicationRollback, GiveUpRecording, SetPhase, Phases
<1>4. ASSUME NEW p \in Processes, NEW t \in Transactions,
             tx' = [tx EXCEPT ![p] = t],
             lock' \in {lock, p},
             UNCHANGED <<db, phase, request, crashes>>
      PROVE  TypeOK'
  BY <1>4 DEF TypeOK
<1>5. ASSUME NEW p \in Processes, Read(p) \/ Stage(p) \/ Save(p) \/ Audit(p)
      PROVE  TypeOK'
  <2>1. \E t \in Transactions : tx' = [tx EXCEPT ![p] = t]
    <3>1. CASE Read(p)
      BY <3>1, ReadDoes
    <3>2. CASE Stage(p)
      BY <3>2, StageDoes
    <3>3. CASE Save(p)
      BY <3>3, SaveDoes
    <3>4. CASE Audit(p)
      BY <3>4, AuditDoes
    <3>. QED
      BY <1>5, <3>1, <3>2, <3>3, <3>4
  <2>2. lock' \in {lock, p} /\ UNCHANGED <<db, phase, request, crashes>>
    BY <1>5 DEF Read, Stage, Save, Audit
  <2>. QED
    BY <1>4, <2>1, <2>2
<1>6. ASSUME NEW p \in Processes, Commit(p) \/ Rollback(p)
      PROVE  TypeOK'
  <2>1. tx[p].view \in Databases /\ tx[p].request \in Requests
    BY <1>6, OpenTypes DEF Commit, Rollback, Idle
  <2>2. db' \in Databases
    BY <1>6, <2>1 DEF TypeOK, Databases, Commit, Rollback, discard
  <2>. QED
    BY <1>6, <2>1, <2>2 DEF TypeOK, Commit, Rollback, SetPhase, Phases
<1>7. ASSUME NEW p \in Processes, Crash(p)
      PROVE  TypeOK'
  BY <1>7, MaxCrashesAssumption DEF TypeOK, Crash, Phases
<1>8. CASE UNCHANGED vars
  BY <1>8 DEF TypeOK, vars
<1>. QED
  BY <1>1, <1>2, <1>3, <1>5, <1>6, <1>7, <1>8 DEF Next, Work

-----------------------------------------------------------------------------
(* Views.                                                                  *)

LEMMA PartsGrow ==
  ASSUME NEW r, NEW n \in {1, 2}
  PROVE  /\ EventsOf(r, n) = EventsOf(r, n - 1) \cup {<<r, n>>}
         /\ EntriesOf(r, n) = EntriesOf(r, n - 1) \cup {<<r, n, "success">>}
<1>1. 1..n = 1..(n - 1) \cup {n}
  OBVIOUS
<1>. QED
  BY <1>1 DEF EventsOf, EntriesOf

LEMMA NoParts ==
  ASSUME NEW r
  PROVE  EventsOf(r, 0) = {} /\ EntriesOf(r, 0) = {}
<1>1. 1..0 = {}
  OBVIOUS
<1>. QED
  BY <1>1 DEF EventsOf, EntriesOf

(* A transaction that has written nothing shows what it read.              *)
LEMMA FreshShows ==
  ASSUME NEW d \in Databases, NEW i \in Items, NEW t,
         t.view = d, t.part = 1, t.step \in {"read", "stage"}
  PROVE  Shows(t, i, d)
<1>1. Saved(t) = 0 /\ Staged(t) = 0 /\ Audited(t) = 0
  BY DEF Saved, Staged, Audited
<1>2. d.rows \in [Items -> Nat]
  BY DEF Databases
<1>3. d.rows = [d.rows EXCEPT ![i] = @ + 0]
  BY <1>2
<1>. QED
  BY <1>1, <1>3, NoParts DEF Shows

(* Only the holder of the lock has staged something, and the others' views *)
(* keep what they are worth.                                               *)
LEMMA StatementKeeps ==
  ASSUME TypeOK, HolderStaged, TransactionsRun, ViewsFollow,
         NEW p \in Processes, tx[p] # NoTransaction,
         NEW t \in Transactions, tx' = [tx EXCEPT ![p] = t],
         UNCHANGED <<db, phase, request>>,
         t.request = tx[p].request,
         t.part <= request[t.request].parts,
         t.step = "commit" => t.part = request[t.request].parts,
         lock' = IF Staged(t) > 0 THEN p ELSE lock,
         IF Staged(t) > 0 THEN lock \in {p, NoProcess} ELSE lock # p,
         t.view.version <= db.version,
         t.view.version = db.version => Shows(t, Row(p), db),
         Staged(t) > 0 => /\ t.view.version = db.version
                          /\ db.rows[Row(p)] = request[t.request].expected
  PROVE  HolderStaged' /\ TransactionsRun' /\ ViewsFollow'
<1>1. /\ tx'[p] = t /\ t # NoTransaction
      /\ \A q \in Processes \ {p} : tx'[q] = tx[q]
  BY NoTransactionAssumption DEF TypeOK
<1>2. \A q \in Processes \ {p} : lock' = q <=> lock = q
  BY NoProcessAssumption
<1>3. Row(p)' = Row(p) /\ \A q \in Processes \ {p} : Row(q)' = Row(q)
  BY <1>1 DEF Row
<1>4. HolderStaged'
  <2>1. lock' = p <=> tx'[p] # NoTransaction /\ Staged(t) > 0
    BY <1>1
  <2>2. ASSUME NEW q \in Processes \ {p}
        PROVE  lock' = q <=> tx'[q] # NoTransaction /\ Staged(tx'[q]) > 0
    BY <1>1, <1>2 DEF HolderStaged
  <2>. QED
    BY <1>1, <2>1, <2>2 DEF HolderStaged
<1>5. TransactionsRun'
  BY <1>1 DEF TransactionsRun
<1>6. ViewsFollow'
  <2>1. ASSUME NEW q \in Processes \ {p}, tx'[q] # NoTransaction
        PROVE  /\ tx'[q].view.version <= db'.version
               /\ tx'[q].view.version = db'.version => Shows(tx'[q], Row(q)', db')
               /\ lock' = q =>
                    /\ tx'[q].view.version = db'.version
                    /\ db'.rows[Row(q)'] = request'[tx'[q].request].expected
    BY <2>1, <1>1, <1>2, <1>3 DEF ViewsFollow
  <2>2. /\ tx'[p].view.version <= db'.version
        /\ tx'[p].view.version = db'.version => Shows(tx'[p], Row(p)', db')
        /\ lock' = p =>
             /\ tx'[p].view.version = db'.version
             /\ db'.rows[Row(p)'] = request'[tx'[p].request].expected
    BY <1>1, <1>3
  <2>. QED
    BY <2>1, <2>2 DEF ViewsFollow
<1>. QED
  BY <1>4, <1>5, <1>6

LEMMA StatementStep ==
  ASSUME TypeOK, HolderStaged, TransactionsRun, ViewsFollow,
         NEW p \in Processes, Read(p) \/ Stage(p) \/ Save(p) \/ Audit(p)
  PROVE  HolderStaged' /\ TransactionsRun' /\ ViewsFollow'
<1>1. /\ tx[p] # NoTransaction /\ UNCHANGED <<db, phase, request>>
  BY DEF Read, Stage, Save, Audit, Idle
<1>. DEFINE r == tx[p].request
            k == tx[p].part
            i == Row(p)
<1>2. /\ tx[p] \in Transactions /\ r \in Requests /\ k \in {1, 2}
      /\ tx[p].view \in Databases /\ tx[p].view.rows \in [Items -> Nat]
      /\ tx[p].view.version \in Nat
      /\ request[r].parts \in {1, 2} /\ request[r].expected \in Nat
      /\ i \in Items
  BY <1>1, OpenTypes
<1>3. /\ db \in Databases /\ db.version \in Nat /\ db.rows \in [Items -> Nat]
  BY DEF TypeOK, Databases
<1>4. /\ k <= request[r].parts
      /\ tx[p].view.version <= db.version
      /\ tx[p].view.version = db.version => Shows(tx[p], i, db)
      /\ lock = p => /\ tx[p].view.version = db.version
                     /\ db.rows[i] = request[r].expected
      /\ lock = p <=> Staged(tx[p]) > 0
  BY <1>1 DEF TransactionsRun, ViewsFollow, HolderStaged
<1>. HIDE DEF r, k, i
<1>5. CASE Read(p)
  <2>1. PICK t \in Transactions :
          /\ tx' = [tx EXCEPT ![p] = t]
          /\ t = [tx[p] EXCEPT !.step = "stage",
                               !.view = IF k = 1 THEN db ELSE tx[p].view]
    BY <1>5, ReadDoes DEF k
  <2>2. /\ t.request = r /\ t.part = k /\ t.step = "stage"
        /\ t.view = IF k = 1 THEN db ELSE tx[p].view
    BY <1>2, <2>1 DEF Transactions, r, k
  <2>3. tx[p].step = "read" /\ lock' = lock
    BY <1>5 DEF Read
  <2>4. Staged(t) = k - 1 /\ Staged(tx[p]) = k - 1
    BY <2>2, <2>3 DEF Staged, k
  <2>5. t.view.version = db.version => Shows(t, i, db)
    <3>1. CASE k = 1
      BY <3>1, <2>2, <1>2, <1>3, FreshShows
    <3>2. CASE k = 2
      <4>1. /\ Saved(t) = Saved(tx[p]) /\ Audited(t) = Audited(tx[p])
            /\ t.view = tx[p].view
        BY <3>2, <2>2, <2>3 DEF Saved, Audited, k
      <4>. QED
        BY <4>1, <2>2, <2>4, <1>4 DEF Shows, r
    <3>. QED
      BY <3>1, <3>2, <1>2
  <2>6. t.view.version <= db.version
    BY <2>2, <1>3, <1>4
  <2>7. Staged(t) > 0 => lock = p /\ t.view = tx[p].view
    BY <2>2, <2>4, <1>2, <1>4
  <2>. QED
    BY <1>1, <1>4, <2>1, <2>2, <2>3, <2>4, <2>5, <2>6, <2>7, StatementKeeps DEF r, i
<1>6. CASE Stage(p)
  <2>1. PICK t \in Transactions :
          /\ tx' = [tx EXCEPT ![p] = t]
          /\ t = [tx[p] EXCEPT
                    !.step = "save",
                    !.view = [tx[p].view EXCEPT !.outbox = @ \cup {<<r, k>>}]]
    BY <1>6, StageDoes DEF r, k
  <2>2. /\ t.request = r /\ t.part = k /\ t.step = "save"
        /\ t.view = [tx[p].view EXCEPT !.outbox = @ \cup {<<r, k>>}]
    BY <1>2, <2>1 DEF Transactions, r, k
  <2>3. /\ t.view.version = tx[p].view.version
        /\ t.view.rows = tx[p].view.rows
        /\ t.view.outbox = tx[p].view.outbox \cup {<<r, k>>}
        /\ t.view.audit = tx[p].view.audit
    BY <1>2, <2>2 DEF Databases
  <2>4. /\ tx[p].step = "stage" /\ lock' = p /\ lock \in {p, NoProcess}
        /\ tx[p].view.version = db.version
        /\ tx[p].view.rows[i] = request[r].expected + (k - 1)
    BY <1>4, <1>6 DEF Stage, mayWrite, expectedRevision, r, i, k
  <2>5. /\ Staged(t) = k /\ Staged(tx[p]) = k - 1
        /\ Saved(t) = k - 1 /\ Saved(tx[p]) = k - 1
        /\ Audited(t) = k - 1 /\ Audited(tx[p]) = k - 1
    BY <2>2, <2>4 DEF Staged, Saved, Audited, k
  <2>6. Shows(tx[p], i, db)
    BY <1>4, <2>4
  <2>7. /\ tx[p].view.rows = [db.rows EXCEPT ![i] = @ + (k - 1)]
        /\ tx[p].view.outbox = db.outbox \cup EventsOf(r, k - 1)
        /\ tx[p].view.audit = db.audit \cup EntriesOf(r, k - 1)
    BY <2>5, <2>6 DEF Shows, r
  <2>8. Shows(t, i, db)
    <3>1. t.view.outbox = db.outbox \cup EventsOf(r, k)
      BY <1>2, <2>3, <2>7, PartsGrow
    <3>. QED
      BY <2>2, <2>3, <2>5, <2>7, <3>1 DEF Shows
  <2>9. db.rows[i] = request[r].expected
    <3>1. tx[p].view.rows[i] = db.rows[i] + (k - 1)
      BY <1>2, <1>3, <2>7
    <3>2. db.rows[i] \in Nat
      BY <1>2, <1>3
    <3>. QED
      BY <1>2, <2>4, <3>1, <3>2
  <2>10. Staged(t) > 0
    BY <1>2, <2>5
  <2>11. t.view.version = db.version /\ t.view.version <= db.version
    BY <1>3, <2>3, <2>4
  <2>. QED
    BY <1>1, <1>4, <2>1, <2>2, <2>4, <2>8, <2>9, <2>10, <2>11, StatementKeeps
    DEF r, i
<1>7. CASE Save(p)
  <2>1. PICK t \in Transactions :
          /\ tx' = [tx EXCEPT ![p] = t]
          /\ t = [tx[p] EXCEPT
                    !.step = "audit",
                    !.view = [tx[p].view EXCEPT
                      !.rows = [tx[p].view.rows EXCEPT ![i] = @ + 1]]]
    BY <1>7, SaveDoes DEF i
  <2>2. /\ t.request = r /\ t.part = k /\ t.step = "audit"
        /\ t.view = [tx[p].view EXCEPT
                       !.rows = [tx[p].view.rows EXCEPT ![i] = @ + 1]]
    BY <1>2, <2>1 DEF Transactions, r, k
  <2>3. /\ t.view.version = tx[p].view.version
        /\ t.view.rows = [tx[p].view.rows EXCEPT ![i] = @ + 1]
        /\ t.view.outbox = tx[p].view.outbox
        /\ t.view.audit = tx[p].view.audit
    BY <1>2, <2>2 DEF Databases
  <2>4. tx[p].step = "save" /\ lock' = lock
    BY <1>7 DEF Save
  <2>5. /\ Staged(t) = k /\ Staged(tx[p]) = k
        /\ Saved(t) = k /\ Saved(tx[p]) = k - 1
        /\ Audited(t) = k - 1 /\ Audited(tx[p]) = k - 1
    BY <2>2, <2>4 DEF Staged, Saved, Audited, k
  <2>6. lock = p /\ Staged(t) > 0
    BY <1>2, <1>4, <2>5
  <2>7. /\ tx[p].view.rows = [db.rows EXCEPT ![i] = @ + (k - 1)]
        /\ tx[p].view.outbox = db.outbox \cup EventsOf(r, k)
        /\ tx[p].view.audit = db.audit \cup EntriesOf(r, k - 1)
    BY <1>4, <2>5, <2>6 DEF Shows, r
  <2>8. Shows(t, i, db)
    <3>1. t.view.rows = [db.rows EXCEPT ![i] = @ + k]
      BY <1>2, <1>3, <2>3, <2>7
    <3>. QED
      BY <2>2, <2>3, <2>5, <2>7, <3>1 DEF Shows
  <2>9. t.view.version = db.version /\ t.view.version <= db.version
    BY <1>3, <1>4, <2>3, <2>6
  <2>. QED
    BY <1>1, <1>4, <2>1, <2>2, <2>4, <2>6, <2>8, <2>9, StatementKeeps
    DEF r, i
<1>8. CASE Audit(p)
  <2>1. PICK t \in Transactions :
          /\ tx' = [tx EXCEPT ![p] = t]
          /\ t = [tx[p] EXCEPT
                    !.view = [tx[p].view EXCEPT
                                !.audit = @ \cup {<<r, k, "success">>}],
                    !.step = IF isLastPart(p) THEN "commit" ELSE "read",
                    !.part = IF isLastPart(p) THEN @ ELSE @ + 1]
          /\ ~isLastPart(p) => k = 1 /\ t.part = 2
    BY <1>8, AuditDoes DEF r, k
  <2>2. /\ t.request = r
        /\ t.part = IF isLastPart(p) THEN k ELSE k + 1
        /\ t.step = IF isLastPart(p) THEN "commit" ELSE "read"
        /\ t.view = [tx[p].view EXCEPT !.audit = @ \cup {<<r, k, "success">>}]
    BY <1>2, <2>1 DEF Transactions, r, k
  <2>3. /\ t.view.version = tx[p].view.version
        /\ t.view.rows = tx[p].view.rows
        /\ t.view.outbox = tx[p].view.outbox
        /\ t.view.audit = tx[p].view.audit \cup {<<r, k, "success">>}
    BY <1>2, <2>2 DEF Databases
  <2>4. tx[p].step = "audit" /\ lock' = lock
    BY <1>8 DEF Audit
  <2>5. /\ Staged(t) = k /\ Staged(tx[p]) = k
        /\ Saved(t) = k /\ Saved(tx[p]) = k
        /\ Audited(t) = k /\ Audited(tx[p]) = k - 1
    <3>1. CASE isLastPart(p)
      BY <2>2, <2>4, <3>1 DEF Staged, Saved, Audited, k
    <3>2. CASE ~isLastPart(p)
      BY <2>1, <2>2, <2>4, <3>2 DEF Staged, Saved, Audited, k
    <3>. QED
      BY <3>1, <3>2
  <2>6. lock = p /\ Staged(t) > 0
    BY <1>2, <1>4, <2>5
  <2>7. /\ tx[p].view.rows = [db.rows EXCEPT ![i] = @ + k]
        /\ tx[p].view.outbox = db.outbox \cup EventsOf(r, k)
        /\ tx[p].view.audit = db.audit \cup EntriesOf(r, k - 1)
    BY <1>4, <2>5, <2>6 DEF Shows, r
  <2>8. Shows(t, i, db)
    <3>1. t.view.audit = db.audit \cup EntriesOf(r, k)
      BY <1>2, <2>3, <2>7, PartsGrow
    <3>. QED
      BY <2>2, <2>3, <2>5, <2>7, <3>1 DEF Shows
  <2>9. t.view.version = db.version /\ t.view.version <= db.version
    BY <1>3, <1>4, <2>3, <2>6
  <2>10. /\ t.part <= request[r].parts
         /\ t.step = "commit" => t.part = request[r].parts
    <3>1. CASE isLastPart(p)
      BY <1>2, <2>2, <3>1 DEF isLastPart, r, k
    <3>2. CASE ~isLastPart(p)
      BY <1>2, <1>4, <2>1, <2>2, <3>2 DEF isLastPart, r, k
    <3>. QED
      BY <3>1, <3>2
  <2>. QED
    BY <1>1, <1>4, <2>1, <2>2, <2>4, <2>6, <2>8, <2>9, <2>10, StatementKeeps
    DEF r, i
<1>. QED
  BY <1>5, <1>6, <1>7, <1>8

-----------------------------------------------------------------------------
(* The steps that begin and end transactions.                              *)

(* The commit of a request's last part moves its row on by its parts and   *)
(* adds their events and entries, to the database as it is.                *)
LEMMA CommitDoes ==
  ASSUME TypeOK, HolderStaged, TransactionsRun, ViewsFollow,
         NEW p \in Processes, Commit(p)
  PROVE  \E r \in Requests :
            /\ r = tx[p].request /\ phase[r] = "running"
            /\ request[r].item = Row(p)
            /\ lock = p
            /\ db.rows[Row(p)] = request[r].expected
            /\ db' \in Databases
            /\ db'.version = db.version + 1
            /\ db'.rows = [db.rows EXCEPT ![Row(p)] = @ + request[r].parts]
            /\ db'.outbox = db.outbox \cup EventsOf(r, request[r].parts)
            /\ db'.audit = db.audit \cup EntriesOf(r, request[r].parts)
            /\ phase' = [phase EXCEPT ![r] = "committed"]
<1>. DEFINE r == tx[p].request
<1>1. tx[p] # NoTransaction /\ tx[p].step = "commit"
  BY DEF Commit, Idle
<1>2. /\ r \in Requests /\ tx[p].part \in {1, 2}
      /\ tx[p].view \in Databases /\ tx[p].view.version \in Nat
      /\ request[r].item = Row(p)
  BY <1>1, OpenTypes DEF Row
<1>3. /\ phase[r] = "running" /\ tx[p].part = request[r].parts
      /\ Staged(tx[p]) = tx[p].part
      /\ Saved(tx[p]) = tx[p].part
      /\ Audited(tx[p]) = tx[p].part
  BY <1>1 DEF TransactionsRun, Staged, Saved, Audited
<1>4. lock = p
  BY <1>1, <1>2, <1>3 DEF HolderStaged
<1>5. /\ tx[p].view.version = db.version
      /\ db.rows[Row(p)] = request[r].expected
      /\ Shows(tx[p], Row(p), db)
  BY <1>1, <1>4 DEF ViewsFollow
<1>6. [tx[p].view EXCEPT !.version = tx[p].view.version + 1] \in Databases
  BY <1>2 DEF Databases
<1>7. db' = [tx[p].view EXCEPT !.version = tx[p].view.version + 1]
  BY DEF Commit
<1>8. /\ db'.version = tx[p].view.version + 1 /\ db'.rows = tx[p].view.rows
      /\ db'.outbox = tx[p].view.outbox /\ db'.audit = tx[p].view.audit
  BY <1>2, <1>7 DEF Databases
<1>9. phase' = [phase EXCEPT ![r] = "committed"]
  BY DEF Commit, SetPhase
<1>10. /\ db'.version = db.version + 1
       /\ db'.rows = [db.rows EXCEPT ![Row(p)] = @ + request[r].parts]
       /\ db'.outbox = db.outbox \cup EventsOf(r, request[r].parts)
       /\ db'.audit = db.audit \cup EntriesOf(r, request[r].parts)
  BY <1>3, <1>5, <1>8 DEF Shows
<1>11. db' \in Databases
  BY <1>6, <1>7
<1>12. r = tx[p].request
  OBVIOUS
<1>. HIDE DEF r
<1>. QED
  BY <1>2, <1>3, <1>4, <1>5, <1>9, <1>10, <1>11, <1>12

LEMMA ReportDoes ==
  ASSUME TypeOK, NEW p \in Processes, NEW r \in Requests,
         RecordApplicationRollback(p, r)
  PROVE  /\ db'.version = db.version + 1
         /\ db'.rows = db.rows
         /\ db'.outbox = db.outbox
         /\ db'.audit = db.audit \cup {<<r, 0, "failure">>}
  BY DEF TypeOK, Databases, RecordApplicationRollback

(* A client learns the revision of its row when it sends; what it asks for *)
(* never changes.                                                          *)
LEMMA RequestsStay ==
  ASSUME TypeOK, [Next]_vars
  PROVE  \A r \in Requests : /\ request'[r].item = request[r].item
                             /\ request'[r].parts = request[r].parts
                             /\ request'[r].process = request[r].process
                             /\ phase[r] # "new" => request'[r] = request[r]
<1>1. ASSUME NEW s \in Requests, Send(s), NEW r \in Requests
      PROVE  /\ request'[r].item = request[r].item
             /\ request'[r].parts = request[r].parts
             /\ request'[r].process = request[r].process
             /\ phase[r] # "new" => request'[r] = request[r]
  <2>1. request[r] \in RequestType
    BY DEF TypeOK
  <2>2. r # s => request'[r] = request[r]
    BY <1>1 DEF TypeOK, Send
  <2>3. r = s => /\ request'[r].item = request[r].item
                 /\ request'[r].parts = request[r].parts
                 /\ request'[r].process = request[r].process
                 /\ phase[r] = "new"
    BY <1>1, <2>1 DEF TypeOK, Send, RequestType
  <2>. QED
    BY <2>2, <2>3
<1>2. (\A s \in Requests : ~Send(s)) => UNCHANGED request
  BY DEF Next, Work, Begin, RecordApplicationRollback, GiveUpRecording, Read,
         Stage, Save, Audit, Commit, Rollback, Crash, vars
<1>. QED
  BY <1>1, <1>2

(* p's transaction is gone or was none, the others keep theirs, and what   *)
(* has been committed meanwhile only makes their views older.              *)
LEMMA OthersStay ==
  ASSUME HolderStaged, TransactionsRun, ViewsFollow, TypeOK,
         NEW p \in Processes,
         tx' = [tx EXCEPT ![p] = NoTransaction],
         \A r \in Requests : request[r].process # p => phase'[r] = phase[r],
         \/ db' = db
         \/ db'.version = db.version + 1 /\ lock \in {p, NoProcess},
         lock' = IF lock = p THEN NoProcess ELSE lock,
         UNCHANGED request
  PROVE  HolderStaged' /\ TransactionsRun' /\ ViewsFollow'
<1>1. tx'[p] = NoTransaction /\ \A q \in Processes \ {p} : tx'[q] = tx[q]
  BY DEF TypeOK
<1>2. lock' # p /\ \A q \in Processes \ {p} : lock' = q <=> lock = q
  BY NoProcessAssumption
<1>3. ASSUME NEW q \in Processes \ {p}, tx[q] # NoTransaction
      PROVE  /\ tx'[q] = tx[q] /\ Row(q)' = Row(q)
             /\ phase'[tx[q].request] = phase[tx[q].request]
             /\ tx[q].view.version \in Nat /\ db.version \in Nat
  <2>1. tx[q].request \in Requests /\ request[tx[q].request].process # p
    BY <1>3, OpenTypes DEF TransactionsRun
  <2>2. tx[q].view.version \in Nat /\ db.version \in Nat
    BY <1>3, OpenTypes DEF TypeOK, Databases
  <2>. QED
    BY <1>1, <2>1, <2>2 DEF Row
<1>4. HolderStaged'
  BY <1>1, <1>2 DEF HolderStaged
<1>5. TransactionsRun'
  BY <1>1, <1>3 DEF TransactionsRun
<1>6. ViewsFollow'
  <2>1. ASSUME NEW q \in Processes, tx'[q] # NoTransaction
        PROVE  /\ tx'[q].view.version <= db'.version
               /\ tx'[q].view.version = db'.version => Shows(tx'[q], Row(q)', db')
               /\ lock' = q =>
                    /\ tx'[q].view.version = db'.version
                    /\ db'.rows[Row(q)'] = request'[tx'[q].request].expected
    <3>1. q \in Processes \ {p} /\ tx'[q] = tx[q] /\ Row(q)' = Row(q)
      BY <1>1, <1>3, <2>1
    <3>2. /\ tx[q].view.version <= db.version
          /\ tx[q].view.version = db.version => Shows(tx[q], Row(q), db)
          /\ lock = q =>
               /\ tx[q].view.version = db.version
               /\ db.rows[Row(q)] = request[tx[q].request].expected
      BY <2>1, <3>1 DEF ViewsFollow
    <3>3. CASE db' = db
      BY <1>2, <3>1, <3>2, <3>3
    <3>4. CASE db'.version = db.version + 1 /\ lock \in {p, NoProcess}
      <4>1. lock' # q
        BY <1>2, <3>1, <3>4, NoProcessAssumption
      <4>2. tx[q].view.version < db'.version
        BY <1>3, <2>1, <3>1, <3>2, <3>4
      <4>3. tx[q].view.version \in Nat /\ db'.version \in Nat
        BY <1>3, <2>1, <3>1, <3>4
      <4>. QED
        BY <3>1, <4>1, <4>2, <4>3
    <3>. QED
      BY <3>3, <3>4
  <2>. QED
    BY <2>1 DEF ViewsFollow
<1>. QED
  BY <1>4, <1>5, <1>6

LEMMA TransactionsStep ==
  ASSUME TypeOK, HolderStaged, TransactionsRun, ViewsFollow, [Next]_vars
  PROVE  HolderStaged' /\ TransactionsRun' /\ ViewsFollow'
<1>1. ASSUME UNCHANGED <<db, lock, tx>>,
             \A r \in Requests : phase[r] = "running" =>
                phase'[r] = "running" /\ request'[r] = request[r]
      PROVE  HolderStaged' /\ TransactionsRun' /\ ViewsFollow'
  <2>1. ASSUME NEW q \in Processes, tx[q] # NoTransaction
        PROVE  /\ phase'[tx[q].request] = phase[tx[q].request]
               /\ request'[tx[q].request] = request[tx[q].request]
               /\ Row(q)' = Row(q)
    <3>1. tx[q].request \in Requests /\ phase[tx[q].request] = "running"
      BY <2>1, OpenTypes DEF TransactionsRun
    <3>. QED
      BY <1>1, <3>1 DEF Row
  <2>2. HolderStaged'
    BY <1>1 DEF HolderStaged
  <2>3. TransactionsRun'
    BY <1>1, <2>1 DEF TransactionsRun
  <2>4. ViewsFollow'
    BY <1>1, <2>1 DEF ViewsFollow
  <2>. QED
    BY <2>2, <2>3, <2>4
<1>2. ASSUME NEW r \in Requests, Send(r)
      PROVE  HolderStaged' /\ TransactionsRun' /\ ViewsFollow'
  <2>1. UNCHANGED <<db, lock, tx>>
    BY <1>2 DEF Send
  <2>2. ASSUME NEW s \in Requests, phase[s] = "running"
        PROVE  phase'[s] = "running" /\ request'[s] = request[s]
    BY <1>2, <2>2 DEF TypeOK, Send, SetPhase
  <2>. QED
    BY <1>1, <2>1, <2>2
<1>3. ASSUME NEW p \in Processes, NEW r \in Requests, Begin(p, r)
      PROVE  HolderStaged' /\ TransactionsRun' /\ ViewsFollow'
  <2>. DEFINE t == [request |-> r, part |-> 1, step |-> "read", view |-> db]
  <2>1. /\ tx'[p] = t /\ \A q \in Processes \ {p} : tx'[q] = tx[q]
        /\ UNCHANGED <<db, lock, request>>
    BY <1>3 DEF Begin, TypeOK
  <2>2. /\ t.request = r /\ t.part = 1 /\ t.step = "read" /\ t.view = db
    OBVIOUS
  <2>. HIDE DEF t
  <2>3. Staged(t) = 0 /\ lock # p
    BY <1>3, <2>2 DEF Staged, Begin, Idle, HolderStaged
  <2>4. /\ db \in Databases /\ db.version \in Nat
        /\ request[r].item \in Items /\ request[r].parts \in {1, 2}
    BY DEF TypeOK, Databases, RequestType
  <2>5. Shows(t, request[r].item, db)
    BY <2>2, <2>4, FreshShows
  <2>6. phase'[r] = "running" /\ \A s \in Requests \ {r} : phase'[s] = phase[s]
    BY <1>3 DEF Begin, SetPhase, TypeOK
  <2>7. request[r].process = p
    BY <1>3 DEF Begin
  <2>8. ASSUME NEW q \in Processes \ {p}, tx[q] # NoTransaction
        PROVE  phase'[tx[q].request] = phase[tx[q].request]
    <3>1. tx[q].request \in Requests /\ request[tx[q].request].process = q
      BY <2>8, OpenTypes DEF TransactionsRun
    <3>. QED
      BY <2>6, <2>7, <3>1
  <2>9. Row(p)' = request[r].item /\ \A q \in Processes \ {p} : Row(q)' = Row(q)
    BY <2>1, <2>2 DEF Row
  <2>10. HolderStaged'
    BY <2>1, <2>3 DEF HolderStaged
  <2>11. TransactionsRun'
    BY <2>1, <2>2, <2>4, <2>6, <2>7, <2>8 DEF TransactionsRun
  <2>12. ViewsFollow'
    <3>1. /\ tx'[p].view.version <= db'.version
          /\ Shows(tx'[p], Row(p)', db')
          /\ lock' # p
      BY <2>1, <2>2, <2>3, <2>4, <2>5, <2>9
    <3>2. ASSUME NEW q \in Processes \ {p}, tx'[q] # NoTransaction
          PROVE  /\ tx'[q].view.version <= db'.version
                 /\ tx'[q].view.version = db'.version =>
                      Shows(tx'[q], Row(q)', db')
                 /\ lock' = q =>
                      /\ tx'[q].view.version = db'.version
                      /\ db'.rows[Row(q)'] = request'[tx'[q].request].expected
      BY <2>1, <2>9, <3>2 DEF ViewsFollow
    <3>. QED
      BY <3>1, <3>2 DEF ViewsFollow
  <2>. QED
    BY <2>10, <2>11, <2>12
<1>4. ASSUME NEW p \in Processes, NEW r \in Requests,
             RecordApplicationRollback(p, r)
      PROVE  HolderStaged' /\ TransactionsRun' /\ ViewsFollow'
  <2>1. /\ tx[p] = NoTransaction /\ lock = NoProcess /\ UNCHANGED <<tx, lock, request>>
        /\ request[r].process = p /\ phase' = [phase EXCEPT ![r] = "failed"]
    BY <1>4 DEF RecordApplicationRollback, Idle, SetPhase
  <2>2. tx' = [tx EXCEPT ![p] = NoTransaction]
    BY <2>1 DEF TypeOK
  <2>3. db'.version = db.version + 1
    BY <1>4, ReportDoes
  <2>4. \A s \in Requests : request[s].process # p => phase'[s] = phase[s]
    BY <2>1 DEF TypeOK
  <2>5. lock' = IF lock = p THEN NoProcess ELSE lock
    BY <2>1
  <2>. QED
    BY <2>1, <2>2, <2>3, <2>4, <2>5, OthersStay
<1>5. ASSUME NEW p \in Processes, NEW r \in Requests, GiveUpRecording(p, r)
      PROVE  HolderStaged' /\ TransactionsRun' /\ ViewsFollow'
  <2>1. UNCHANGED <<db, lock, tx, request>>
    BY <1>5 DEF GiveUpRecording
  <2>2. ASSUME NEW s \in Requests, phase[s] = "running"
        PROVE  phase'[s] = "running"
    BY <1>5, <2>2 DEF TypeOK, GiveUpRecording, SetPhase
  <2>. QED
    BY <1>1, <2>1, <2>2
<1>6. ASSUME NEW p \in Processes, Read(p) \/ Stage(p) \/ Save(p) \/ Audit(p)
      PROVE  HolderStaged' /\ TransactionsRun' /\ ViewsFollow'
  BY <1>6, StatementStep
<1>7. ASSUME NEW p \in Processes, Commit(p) \/ Rollback(p)
      PROVE  HolderStaged' /\ TransactionsRun' /\ ViewsFollow'
  <2>1. /\ tx' = [tx EXCEPT ![p] = NoTransaction] /\ UNCHANGED request
        /\ tx[p] # NoTransaction
    BY <1>7 DEF Commit, Rollback, Idle
  <2>2. tx[p].request \in Requests /\ request[tx[p].request].process = p
    BY <2>1, OpenTypes DEF TransactionsRun
  <2>3. \A s \in Requests : request[s].process # p => phase'[s] = phase[s]
    BY <1>7, <2>2 DEF TypeOK, Commit, Rollback, SetPhase
  <2>4. lock' = IF lock = p THEN NoProcess ELSE lock
    <3>1. CASE Commit(p)
      BY <3>1, CommitDoes DEF Commit
    <3>2. CASE Rollback(p)
      BY <3>2 DEF Rollback
    <3>. QED
      BY <1>7, <3>1, <3>2
  <2>5. \/ db' = db
        \/ db'.version = db.version + 1 /\ lock \in {p, NoProcess}
    <3>1. CASE Commit(p)
      BY <3>1, CommitDoes
    <3>2. CASE Rollback(p)
      BY <3>2 DEF Rollback, discard
    <3>. QED
      BY <1>7, <3>1, <3>2
  <2>. QED
    BY <2>1, <2>3, <2>4, <2>5, OthersStay
<1>8. ASSUME NEW p \in Processes, Crash(p)
      PROVE  HolderStaged' /\ TransactionsRun' /\ ViewsFollow'
  <2>1. \A s \in Requests : request[s].process # p => phase'[s] = phase[s]
    BY <1>8 DEF Crash
  <2>. QED
    BY <1>8, <2>1, OthersStay DEF Crash
<1>9. CASE UNCHANGED vars
  BY <1>1, <1>9 DEF vars
<1>. QED
  BY <1>2, <1>3, <1>4, <1>5, <1>6, <1>7, <1>8, <1>9 DEF Next, Work

-----------------------------------------------------------------------------
(* What is in the database.                                                *)

(* The steps that write the database are the commit and the report of a    *)
(* failure.                                                                *)
LEMMA WhoWrites ==
  ASSUME [Next]_vars
  PROVE  \/ db' = db
         \/ \E p \in Processes : Commit(p)
         \/ \E p \in Processes, r \in Requests : RecordApplicationRollback(p, r)
  BY DEF Next, Work, Send, Begin, GiveUpRecording, Read, Stage, Save, Audit,
         Rollback, discard, Crash, vars

(* How a request's phase moves.                                            *)
LEMMA PhaseStep ==
  ASSUME TypeOK, TransactionsRun, [Next]_vars, NEW r \in Requests
  PROVE  /\ phase[r] \in {"committed", "failed"} => phase'[r] = phase[r]
         /\ phase'[r] = "committed" /\ phase[r] # "committed" =>
               \E p \in Processes : Commit(p) /\ tx[p].request = r
<1>. DEFINE Moves ==
       /\ phase[r] \in {"committed", "failed"} => phase'[r] = phase[r]
       /\ phase'[r] = "committed" /\ phase[r] # "committed" =>
             \E p \in Processes : Commit(p) /\ tx[p].request = r
<1>1. ASSUME NEW s \in Requests, NEW value,
             phase[s] \notin {"committed", "failed"}, SetPhase(s, value),
             value # "committed"
      PROVE  Moves
  <2>1. phase'[r] = IF r = s THEN value ELSE phase[r]
    BY <1>1 DEF SetPhase, TypeOK
  <2>. QED
    BY <1>1, <2>1
<1>2. ASSUME NEW s \in Requests, Send(s)
      PROVE  Moves
  <2>1. phase[s] = "new" /\ SetPhase(s, "waiting")
    BY <1>2 DEF Send
  <2>. HIDE DEF Moves
  <2>. QED
    BY <2>1, <1>1
<1>3. ASSUME NEW p \in Processes, NEW s \in Requests,
             \/ Begin(p, s)
             \/ RecordApplicationRollback(p, s)
             \/ GiveUpRecording(p, s)
      PROVE  Moves
  <2>1. /\ phase[s] \in {"waiting", "failing"}
        /\ SetPhase(s, "running") \/ SetPhase(s, "failed")
    BY <1>3 DEF Begin, RecordApplicationRollback, GiveUpRecording
  <2>. HIDE DEF Moves
  <2>. QED
    BY <2>1, <1>1
<1>4. ASSUME NEW p \in Processes, Commit(p) \/ Rollback(p)
      PROVE  Moves
  <2>1. tx[p].request \in Requests /\ phase[tx[p].request] = "running"
    BY <1>4, OpenTypes DEF Commit, Rollback, Idle, TransactionsRun
  <2>2. CASE Commit(p)
    <3>1. phase' = [phase EXCEPT ![tx[p].request] = "committed"]
      BY <2>2 DEF Commit, SetPhase
    <3>2. phase'[r] = IF r = tx[p].request THEN "committed" ELSE phase[r]
      BY <2>1, <3>1 DEF TypeOK
    <3>. QED
      BY <2>1, <2>2, <3>2
  <2>3. CASE Rollback(p)
    <3>1. SetPhase(tx[p].request, "failing")
      BY <2>3 DEF Rollback
    <3>. HIDE DEF Moves
    <3>. QED
      BY <2>1, <3>1, <1>1
  <2>. QED
    BY <1>4, <2>2, <2>3
<1>5. ASSUME NEW p \in Processes, Crash(p)
      PROVE  Moves
  BY <1>5 DEF Crash
<1>6. ASSUME UNCHANGED phase
      PROVE  Moves
  BY <1>6
<1>7. ASSUME NEW p \in Processes, Read(p) \/ Stage(p) \/ Save(p) \/ Audit(p)
      PROVE  Moves
  <2>1. UNCHANGED phase
    BY <1>7 DEF Read, Stage, Save, Audit
  <2>. QED
    BY <1>6, <2>1
<1>8. ASSUME UNCHANGED vars
      PROVE  Moves
  BY <1>6, <1>8 DEF vars
<1>. HIDE DEF Moves
<1>9. Moves
  BY <1>2, <1>3, <1>4, <1>5, <1>7, <1>8 DEF Next, Work
<1>. QED
  BY <1>9 DEF Moves

LEMMA NothingBeforeCommitStep ==
  ASSUME TypeOK, HolderStaged, TransactionsRun, ViewsFollow,
         NothingBeforeCommit, [Next]_vars
  PROVE  NothingBeforeCommit'
<1>. SUFFICES
       ASSUME NEW r \in Requests
       PROVE  /\ phase'[r] # "committed" =>
                   \A k \in {1, 2} : /\ <<r, k>> \notin db'.outbox
                                     /\ <<r, k, "success">> \notin db'.audit
              /\ phase'[r] = "committed" =>
                   \A k \in {1, 2} :
                      <<r, k>> \in db'.outbox <=> k <= request'[r].parts
              /\ <<r, 0, "failure">> \in db'.audit => phase'[r] = "failed"
  BY DEF NothingBeforeCommit
<1>1. /\ phase[r] # "committed" =>
            \A k \in {1, 2} : /\ <<r, k>> \notin db.outbox
                              /\ <<r, k, "success">> \notin db.audit
      /\ phase[r] = "committed" =>
            \A k \in {1, 2} : <<r, k>> \in db.outbox <=> k <= request[r].parts
      /\ <<r, 0, "failure">> \in db.audit => phase[r] = "failed"
  BY DEF NothingBeforeCommit
<1>2. request'[r].parts = request[r].parts /\ request[r].parts \in {1, 2}
  BY RequestsStay DEF TypeOK, RequestType
<1>3. /\ phase[r] \in {"committed", "failed"} => phase'[r] = phase[r]
      /\ phase'[r] = "committed" /\ phase[r] # "committed" =>
            \E p \in Processes : Commit(p) /\ tx[p].request = r
  BY PhaseStep
<1>4. ASSUME NEW p \in Processes, NEW s \in Requests,
             RecordApplicationRollback(p, s)
      PROVE  /\ \A k \in {1, 2} :
                   /\ <<r, k>> \in db'.outbox <=> <<r, k>> \in db.outbox
                   /\ <<r, k, "success">> \in db'.audit <=>
                         <<r, k, "success">> \in db.audit
             /\ <<r, 0, "failure">> \in db'.audit =>
                   <<r, 0, "failure">> \in db.audit \/ phase'[r] = "failed"
             /\ phase'[r] = "committed" => phase[r] = "committed"
  <2>1. /\ db'.outbox = db.outbox
        /\ db'.audit = db.audit \cup {<<s, 0, "failure">>}
    BY <1>4, ReportDoes
  <2>2. phase'[r] = IF r = s THEN "failed" ELSE phase[r]
    BY <1>4 DEF RecordApplicationRollback, SetPhase, TypeOK
  <2>. QED
    BY <2>1, <2>2
<1>5. ASSUME NEW p \in Processes, Commit(p)
      PROVE  /\ phase'[r] # "committed" =>
                   \A k \in {1, 2} : /\ <<r, k>> \notin db'.outbox
                                     /\ <<r, k, "success">> \notin db'.audit
             /\ phase'[r] = "committed" =>
                   \A k \in {1, 2} :
                      <<r, k>> \in db'.outbox <=> k <= request[r].parts
             /\ <<r, 0, "failure">> \in db'.audit => phase'[r] = "failed"
  <2>1. PICK s \in Requests :
          /\ phase[s] = "running"
          /\ db'.outbox = db.outbox \cup EventsOf(s, request[s].parts)
          /\ db'.audit = db.audit \cup EntriesOf(s, request[s].parts)
          /\ phase' = [phase EXCEPT ![s] = "committed"]
    BY <1>5, CommitDoes
  <2>2. phase'[r] = IF r = s THEN "committed" ELSE phase[r]
    BY <2>1 DEF TypeOK
  <2>3. \A k \in {1, 2} :
           /\ <<r, k>> \in EventsOf(s, request[s].parts) <=>
                 r = s /\ k <= request[s].parts
           /\ <<r, k, "success">> \in EntriesOf(s, request[s].parts) => r = s
    BY DEF EventsOf, EntriesOf, TypeOK, RequestType
  <2>4. <<r, 0, "failure">> \notin EntriesOf(s, request[s].parts)
    BY DEF EntriesOf
  <2>5. CASE r = s
    BY <1>1, <2>1, <2>2, <2>3, <2>4, <2>5
  <2>6. CASE r # s
    BY <1>1, <2>1, <2>2, <2>3, <2>4, <2>6
  <2>. QED
    BY <2>5, <2>6
<1>6. CASE db' = db /\ ~(\E p \in Processes : Commit(p))
  BY <1>1, <1>2, <1>3, <1>6
<1>. QED
  BY <1>1, <1>2, <1>3, <1>4, <1>5, <1>6, WhoWrites

-----------------------------------------------------------------------------
(* Counting.                                                               *)

(* New parts are counted one by one.                                       *)
LEMMA AddPair ==
  ASSUME NEW S, IsFiniteSet(S), NEW a, NEW b, a # b, a \notin S, b \notin S
  PROVE  Cardinality(S \cup {a} \cup {b}) = Cardinality(S) + 2
<1>1. /\ IsFiniteSet(S \cup {a})
      /\ Cardinality(S \cup {a}) = Cardinality(S) + 1
  BY FS_AddElement
<1>2. b \notin S \cup {a}
  OBVIOUS
<1>3. Cardinality(S \cup {a} \cup {b}) = Cardinality(S \cup {a}) + 1
  BY <1>1, <1>2, FS_AddElement
<1>4. Cardinality(S) \in Nat
  BY FS_CardinalityType
<1>. QED
  BY <1>1, <1>3, <1>4

LEMMA AddParts ==
  ASSUME NEW S, IsFiniteSet(S), NEW r, NEW n \in {1, 2},
         \A k \in {1, 2} : <<r, k>> \notin S
  PROVE  /\ IsFiniteSet(S \cup EventsOf(r, n))
         /\ Cardinality(S \cup EventsOf(r, n)) = Cardinality(S) + n
<1>1. EventsOf(r, 1) = {<<r, 1>>} /\ EventsOf(r, 2) = {<<r, 1>>} \cup {<<r, 2>>}
  BY PartsGrow, NoParts
<1>2. CASE n = 1
  BY <1>1, <1>2, FS_AddElement
<1>3. CASE n = 2
  <2>1. S \cup EventsOf(r, n) = S \cup {<<r, 1>>} \cup {<<r, 2>>}
    BY <1>1, <1>3
  <2>2. IsFiniteSet(S \cup {<<r, 1>>} \cup {<<r, 2>>})
    <3>1. IsFiniteSet(S \cup {<<r, 1>>})
      BY FS_AddElement
    <3>. QED
      BY <3>1, FS_AddElement
  <2>3. <<r, 1>> # <<r, 2>> /\ <<r, 1>> \notin S /\ <<r, 2>> \notin S
    OBVIOUS
  <2>4. Cardinality(S \cup {<<r, 1>>} \cup {<<r, 2>>}) = Cardinality(S) + 2
    BY <2>3, AddPair
  <2>. QED
    BY <1>3, <2>1, <2>2, <2>4
<1>. QED
  BY <1>2, <1>3

LEMMA AddEntries ==
  ASSUME NEW S, IsFiniteSet(S), NEW r, NEW n \in {1, 2},
         \A k \in {1, 2} : <<r, k, "success">> \notin S
  PROVE  /\ IsFiniteSet(S \cup EntriesOf(r, n))
         /\ Cardinality(S \cup EntriesOf(r, n)) = Cardinality(S) + n
<1>. DEFINE a == <<r, 1, "success">>
            b == <<r, 2, "success">>
<1>1. EntriesOf(r, 1) = {a} /\ EntriesOf(r, 2) = {a} \cup {b}
  BY PartsGrow, NoParts
<1>2. a # b /\ a \notin S /\ b \notin S
  OBVIOUS
<1>. HIDE DEF a, b
<1>3. CASE n = 1
  BY <1>1, <1>2, <1>3, FS_AddElement
<1>4. CASE n = 2
  <2>1. S \cup EntriesOf(r, n) = S \cup {a} \cup {b}
    BY <1>1, <1>4
  <2>2. IsFiniteSet(S \cup {a} \cup {b})
    <3>1. IsFiniteSet(S \cup {a})
      BY FS_AddElement
    <3>. QED
      BY <3>1, FS_AddElement
  <2>. QED
    BY <1>2, <1>4, <2>1, <2>2, AddPair
<1>. QED
  BY <1>3, <1>4

(* Lockstep's sets, with everything they depend on as a parameter.         *)
Counted(i, records, req) == {e \in records : req[e[1]].item = i}
Passed(records) == {e \in records : e[3] = "success"}

LEMMA CountingStep ==
  ASSUME TypeOK, HolderStaged, TransactionsRun, ViewsFollow,
         NothingBeforeCommit, FiniteLogs, Lockstep, [Next]_vars
  PROVE  FiniteLogs' /\ Lockstep'
<1>1. \A i \in Items :
         /\ db.rows[i] = Cardinality(Counted(i, db.outbox, request))
         /\ db.rows[i] = Cardinality(Counted(i, Passed(db.audit), request))
  BY DEF Lockstep, Of, Successes, Counted, Passed
<1>2. ASSUME \A i \in Items :
                /\ db'.rows[i] = Cardinality(Counted(i, db'.outbox, request'))
                /\ db'.rows[i] =
                      Cardinality(Counted(i, Passed(db'.audit), request'))
      PROVE  Lockstep'
  BY <1>2 DEF Lockstep, Of, Successes, Counted, Passed
<1>3. /\ db.outbox \subseteq Events /\ db.audit \subseteq Entries
      /\ db.rows \in [Items -> Nat]
  BY DEF TypeOK, Databases
<1>4. /\ \A e \in db.outbox : e[1] \in Requests
      /\ \A e \in db.audit : e[1] \in Requests
  BY <1>3 DEF Events, Entries
<1>5. /\ \A i : Counted(i, db.outbox, request') = Counted(i, db.outbox, request)
      /\ \A i : Counted(i, Passed(db.audit), request') =
                Counted(i, Passed(db.audit), request)
  BY <1>4, RequestsStay DEF Counted, Passed
<1>6. CASE db' = db
  <2>1. FiniteLogs'
    BY <1>6 DEF FiniteLogs
  <2>. QED
    BY <1>1, <1>2, <1>5, <1>6, <2>1
<1>7. ASSUME NEW p \in Processes, NEW r \in Requests,
             RecordApplicationRollback(p, r)
      PROVE  FiniteLogs' /\ Lockstep'
  <2>1. /\ db'.rows = db.rows /\ db'.outbox = db.outbox
        /\ db'.audit = db.audit \cup {<<r, 0, "failure">>}
    BY <1>7, ReportDoes
  <2>2. Passed(db'.audit) = Passed(db.audit)
    BY <2>1 DEF Passed
  <2>3. FiniteLogs'
    BY <2>1, FS_AddElement DEF FiniteLogs
  <2>. QED
    BY <1>1, <1>2, <1>5, <2>1, <2>2, <2>3
<1>8. ASSUME NEW p \in Processes, Commit(p)
      PROVE  FiniteLogs' /\ Lockstep'
  <2>1. PICK r \in Requests :
          /\ phase[r] = "running" /\ request[r].item = Row(p)
          /\ db'.rows = [db.rows EXCEPT ![Row(p)] = @ + request[r].parts]
          /\ db'.outbox = db.outbox \cup EventsOf(r, request[r].parts)
          /\ db'.audit = db.audit \cup EntriesOf(r, request[r].parts)
    BY <1>8, CommitDoes
  <2>. DEFINE n == request[r].parts
  <2>2. n \in {1, 2} /\ request' = request
    BY <1>8 DEF TypeOK, RequestType, Commit
  <2>3. \A k \in {1, 2} : <<r, k>> \notin db.outbox /\ <<r, k, "success">> \notin db.audit
    BY <2>1 DEF NothingBeforeCommit
  <2>4. IsFiniteSet(db.outbox) /\ IsFiniteSet(db.audit)
    BY DEF FiniteLogs
  <2>5. FiniteLogs'
    <3>1. IsFiniteSet(db.outbox \cup EventsOf(r, n))
      BY <2>2, <2>3, <2>4, AddParts
    <3>2. IsFiniteSet(db.audit \cup EntriesOf(r, n))
      BY <2>2, <2>3, <2>4, AddEntries
    <3>. QED
      BY <2>1, <3>1, <3>2 DEF FiniteLogs
  <2>6. ASSUME NEW i \in Items
        PROVE  /\ db'.rows[i] = Cardinality(Counted(i, db'.outbox, request'))
               /\ db'.rows[i] =
                     Cardinality(Counted(i, Passed(db'.audit), request'))
    <3>1. CASE i # request[r].item
      <4>1. db'.rows[i] = db.rows[i]
        BY <1>3, <2>1, <3>1
      <4>2. Counted(i, db'.outbox, request') = Counted(i, db.outbox, request)
        BY <2>1, <2>2, <3>1 DEF Counted, EventsOf
      <4>3. Counted(i, Passed(db'.audit), request') =
              Counted(i, Passed(db.audit), request)
        BY <2>1, <2>2, <3>1 DEF Counted, Passed, EntriesOf
      <4>. QED
        BY <1>1, <4>1, <4>2, <4>3
    <3>2. CASE i = request[r].item
      <4>. DEFINE evts == Counted(i, db.outbox, request)
                  ents == Counted(i, Passed(db.audit), request)
      <4>1. db'.rows[i] = db.rows[i] + n
        BY <1>3, <2>1, <3>2
      <4>2. Counted(i, db'.outbox, request') = evts \cup EventsOf(r, n)
        BY <2>1, <2>2, <3>2 DEF Counted, EventsOf
      <4>3. Counted(i, Passed(db'.audit), request') = ents \cup EntriesOf(r, n)
        BY <2>1, <2>2, <3>2 DEF Counted, Passed, EntriesOf
      <4>4. evts \in SUBSET db.outbox /\ ents \in SUBSET db.audit
        BY DEF Counted, Passed
      <4>5. IsFiniteSet(evts) /\ IsFiniteSet(ents)
        BY <2>4, <4>4, FS_Subset
      <4>6. \A k \in {1, 2} : <<r, k>> \notin evts /\ <<r, k, "success">> \notin ents
        BY <2>3, <4>4
      <4>7. db.rows[i] = Cardinality(evts) /\ db.rows[i] = Cardinality(ents)
        BY <1>1
      <4>. HIDE DEF evts, ents, n
      <4>8. Cardinality(evts \cup EventsOf(r, n)) = Cardinality(evts) + n
        BY <2>2, <4>5, <4>6, AddParts
      <4>9. Cardinality(ents \cup EntriesOf(r, n)) = Cardinality(ents) + n
        BY <2>2, <4>5, <4>6, AddEntries
      <4>. QED
        BY <4>1, <4>2, <4>3, <4>7, <4>8, <4>9
    <3>. QED
      BY <3>1, <3>2
  <2>. QED
    BY <1>2, <2>5, <2>6
<1>. QED
  BY <1>6, <1>7, <1>8, WhoWrites

-----------------------------------------------------------------------------
(* The theorems.                                                           *)

LEMMA InitIInv == Init => IInv
<1>. SUFFICES ASSUME Init PROVE IInv
  OBVIOUS
<1>1. /\ tx = [p \in Processes |-> NoTransaction] /\ lock = NoProcess
      /\ phase = [r \in Requests |-> "new"]
      /\ db.outbox = {} /\ db.audit = {} /\ db.rows = [i \in Items |-> 0]
  BY DEF Init
<1>2. TypeOK
  BY InitTypes
<1>3. HolderStaged /\ TransactionsRun /\ ViewsFollow
  BY <1>1, NoProcessAssumption DEF HolderStaged, TransactionsRun, ViewsFollow
<1>4. NothingBeforeCommit
  BY <1>1 DEF NothingBeforeCommit
<1>5. FiniteLogs
  BY <1>1, FS_EmptySet DEF FiniteLogs
<1>6. Lockstep
  <2>1. \A i \in Items : Of(i, db.outbox) = {} /\ Of(i, Successes) = {}
    BY <1>1 DEF Of, Successes
  <2>. QED
    BY <1>1, <2>1, FS_EmptySet DEF Lockstep
<1>. QED
  BY <1>2, <1>3, <1>4, <1>5, <1>6 DEF IInv

LEMMA IInvStep == IInv /\ [Next]_vars => IInv'
<1>. SUFFICES ASSUME IInv, [Next]_vars PROVE IInv'
  OBVIOUS
<1>. USE DEF IInv
<1>1. TypeOK'
  BY TypeStep
<1>2. HolderStaged' /\ TransactionsRun' /\ ViewsFollow'
  BY TransactionsStep
<1>3. NothingBeforeCommit'
  BY NothingBeforeCommitStep
<1>4. FiniteLogs' /\ Lockstep'
  BY CountingStep
<1>. QED
  BY <1>1, <1>2, <1>3, <1>4

LEMMA IInvAlways == Spec => []IInv
  BY InitIInv, IInvStep, PTL DEF Spec

LEMMA AllOrNothingHolds ==
  ASSUME IInv
  PROVE  AllOrNothing
<1>. SUFFICES
       ASSUME NEW r \in Requests
       PROVE  LET parts == {e[2] : e \in {x \in db.outbox : x[1] = r}}
              IN  /\ parts \in {{}, 1..request[r].parts}
                  /\ phase[r] = "committed" => parts # {}
                  /\ phase[r] \in {"failing", "failed"} => parts = {}
                  /\ <<r, 0, "failure">> \in db.audit => parts = {}
  BY DEF AllOrNothing
<1>. DEFINE parts == {e[2] : e \in {x \in db.outbox : x[1] = r}}
<1>1. db.outbox \subseteq Events /\ request[r].parts \in {1, 2}
  BY DEF IInv, TypeOK, Databases, RequestType
<1>2. parts = {k \in {1, 2} : <<r, k>> \in db.outbox}
  <2>1. \A x \in db.outbox : x[2] \in {1, 2} /\ x = <<x[1], x[2]>>
    BY <1>1 DEF Events
  <2>. QED
    BY <2>1
<1>. HIDE DEF parts
<1>3. /\ phase[r] # "committed" => \A k \in {1, 2} : <<r, k>> \notin db.outbox
      /\ phase[r] = "committed" =>
           \A k \in {1, 2} : <<r, k>> \in db.outbox <=> k <= request[r].parts
      /\ <<r, 0, "failure">> \in db.audit => phase[r] = "failed"
  BY DEF IInv, NothingBeforeCommit
<1>4. phase[r] # "committed" => parts = {}
  BY <1>2, <1>3
<1>5. phase[r] = "committed" => parts = 1..request[r].parts
  <2>1. 1..request[r].parts = {k \in {1, 2} : k <= request[r].parts}
    BY <1>1
  <2>. QED
    BY <1>2, <1>3, <2>1
<1>6. 1 \in 1..request[r].parts
  BY <1>1
<1>7. /\ parts \in {{}, 1..request[r].parts}
      /\ phase[r] = "committed" => parts # {}
      /\ phase[r] \in {"failing", "failed"} => parts = {}
      /\ <<r, 0, "failure">> \in db.audit => parts = {}
  BY <1>3, <1>4, <1>5, <1>6
<1>. QED
  BY <1>7 DEF parts

(* Rows, events, audit entries and answers agree in every reachable state, *)
(* for any number of processes, rows and requests and whatever crashes:    *)
(* the unit of work of delivery/service.go.                                *)
THEOREM WriteInvariantHolds == Spec => []WriteInvariant
<1>1. IInv => WriteInvariant
  <2>1. IInv => LockedViewIsCurrent
    BY DEF IInv, HolderStaged, ViewsFollow, LockedViewIsCurrent
  <2>. QED
    BY <2>1, AllOrNothingHolds DEF IInv, WriteInvariant
<1>. QED
  BY <1>1, IInvAlways, PTL

(* A row changes only by the commit of a request whose client saw the      *)
(* revision it replaces.                                                   *)
THEOREM NoOverwriteHolds == Spec => NoOverwrite
<1>1. ASSUME IInv, [Next]_vars, NEW i \in Items, db'.rows[i] # db.rows[i]
      PROVE  \E r \in Requests :
                /\ request[r].item = i
                /\ phase'[r] = "committed" /\ phase[r] = "running"
                /\ request[r].expected = db.rows[i]
  <2>1. \A p \in Processes, r \in Requests : ~RecordApplicationRollback(p, r)
    BY <1>1, ReportDoes DEF IInv
  <2>2. PICK p \in Processes : Commit(p)
    BY <1>1, <2>1, WhoWrites
  <2>3. PICK r \in Requests :
          /\ phase[r] = "running"
          /\ request[r].item = Row(p)
          /\ db.rows[Row(p)] = request[r].expected
          /\ db'.rows = [db.rows EXCEPT ![Row(p)] = @ + request[r].parts]
          /\ phase' = [phase EXCEPT ![r] = "committed"]
    BY <1>1, <2>2, CommitDoes DEF IInv
  <2>4. i = Row(p)
    BY <1>1, <2>3 DEF IInv, TypeOK, Databases
  <2>5. phase'[r] = "committed"
    BY <1>1, <2>3 DEF IInv, TypeOK
  <2>. QED
    BY <2>3, <2>4, <2>5
<1>2. IInv /\ [Next]_vars =>
        [\A i \in Items :
            db'.rows[i] # db.rows[i] =>
              \E r \in Requests :
                  /\ request[r].item = i
                  /\ phase'[r] = "committed" /\ phase[r] = "running"
                  /\ request[r].expected = db.rows[i]]_vars
  BY <1>1
<1>. QED
  BY <1>2, IInvAlways, PTL DEF NoOverwrite, Spec

(* Statements, crashes, rollbacks and retries of several processes amount  *)
(* to the atomic writes and failure reports of AtomicWrites.               *)
THEOREM ImplementsAtomicWrites == Spec => AtomicSpec
<1>1. Init => Atomic!Init
  BY DEF Init, Atomic!Init
<1>2. IInv /\ [Next]_vars => [Atomic!Next]_(Atomic!avars)
  <2>. SUFFICES ASSUME IInv, [Next]_vars
                PROVE  Atomic!Next \/ UNCHANGED Atomic!avars
    OBVIOUS
  <2>1. CASE db' = db
    BY <2>1 DEF Atomic!avars
  <2>2. ASSUME NEW p \in Processes, Commit(p)
        PROVE  Atomic!Next
    <3>1. PICK r \in Requests :
            /\ phase[r] = "running"
            /\ db'.rows = [db.rows EXCEPT ![Row(p)] = @ + request[r].parts]
            /\ db'.outbox = db.outbox \cup EventsOf(r, request[r].parts)
            /\ db'.audit = db.audit \cup EntriesOf(r, request[r].parts)
      BY <2>2, CommitDoes DEF IInv
    <3>2. Row(p) \in Items
      BY <2>2, OpenTypes DEF IInv, Commit, Idle
    <3>3. request[r].parts \in {1, 2}
      BY DEF IInv, TypeOK, RequestType
    <3>4. /\ <<r, 1>> \notin db.outbox
          /\ <<r, 0, "failure">> \notin db.audit
      BY <3>1 DEF IInv, NothingBeforeCommit
    <3>5. Atomic!Apply(r, Row(p), request[r].parts)
      BY <3>1, <3>4 DEF Atomic!Apply, Atomic!Applied, EventsOf, EntriesOf
    <3>. QED
      BY <3>2, <3>3, <3>5 DEF Atomic!Next
  <2>3. ASSUME NEW p \in Processes, NEW r \in Requests,
               RecordApplicationRollback(p, r)
        PROVE  Atomic!Next
    <3>1. /\ db'.rows = db.rows /\ db'.outbox = db.outbox
          /\ db'.audit = db.audit \cup {<<r, 0, "failure">>}
      BY <2>3, ReportDoes DEF IInv
    <3>2. <<r, 1>> \notin db.outbox
      BY <2>3 DEF IInv, NothingBeforeCommit, RecordApplicationRollback
    <3>3. Atomic!ReportFailure(r)
      BY <3>1, <3>2 DEF Atomic!ReportFailure, Atomic!Applied
    <3>. QED
      BY <3>3 DEF Atomic!Next
  <2>. QED
    BY <2>1, <2>2, <2>3, WhoWrites
<1>. QED
  BY <1>1, <1>2, IInvAlways, PTL DEF Spec, AtomicSpec, Atomic!Spec
=============================================================================
