---------------------------- MODULE ConfigRevisions ----------------------------
(***************************************************************************)
(* Configuration revisions: the append-only table with its conditional     *)
(* insert (configrevision) and the audited operations on it                *)
(* (configapplication).                                                    *)
(*                                                                         *)
(* An operation is a deferred transaction: its first read takes a snapshot *)
(* and its insert takes the one write lock, which SQLite refuses when the  *)
(* lock is taken or the snapshot is no longer the state of the database.   *)
(* The store can also be used without a transaction; its insert is then    *)
(* tried again while the database is busy, and a reading takes two         *)
(* statements.                                                             *)
(***************************************************************************)
EXTENDS Naturals, FiniteSets

CONSTANTS
    Keys,                 \* organization, kind and key of a chain
    Payloads, NoPayload,  \* canonical payloads
    Callers, Nobody,      \* calls of any process
    HistoryLimit,         \* of a reading of the history
    MaxAttempts,          \* inserts that a call outside transactions tries
    MaxRevision           \* bound on what callers expect

ASSUME ConfigAssumption ==
    /\ NoPayload \notin Payloads /\ Nobody \notin Callers
    /\ HistoryLimit \in Nat \ {0} /\ MaxAttempts \in Nat \ {0}
    /\ MaxRevision \in Nat \ {0}

VARIABLES
    rows,       \* iotd_config_revisions
    audit,      \* audit entries about configuration
    outbox,     \* events about configuration
    lock,       \* who has the write lock of the database
    calls       \* [Callers -> the call it makes]

vars == <<rows, audit, outbox, lock, calls>>

-----------------------------------------------------------------------------
Row ==
    [key : Keys, revision : 1..MaxRevision, parent : 0..(MaxRevision - 1), payload : Payloads,
     by : Callers, audited : BOOLEAN]

(* source is the revision a rollback names, and 0 of a change.              *)
Entry == [key : Keys, revision : 1..MaxRevision, source : 0..MaxRevision]

Ask ==
    [op : {"change", "append"}, key : Keys, expected : 0..(MaxRevision - 1),
     source : {0}, payload : Payloads]
    \cup [op : {"rollback"}, key : Keys, expected : 0..(MaxRevision - 1),
          source : 1..MaxRevision, payload : {NoPayload}]
    \cup [op : {"latest", "history"}, key : Keys, expected : {0}, source : {0},
          payload : {NoPayload}]

Answers == {"appended", "conflict", "busy", "failed", "missing", "read", "incomplete"}

Idle == [stage |-> "idle"]

(* Types; and rows that the CHECKs and the unique indexes allow.            *)
TypeOK ==
    /\ rows \subseteq Row
    /\ audit \subseteq Entry /\ outbox \subseteq Entry
    /\ lock \in Callers \cup {Nobody}
    /\ \A c \in Callers :
          \/ calls[c] = Idle
          \/ /\ calls[c].stage \in {"asked", "prepared", "inserted", "found", "answered"}
             /\ calls[c].ask \in Ask
    /\ \A x \in rows : x.revision = x.parent + 1
    /\ \A x, y \in rows : x.key = y.key /\ x.revision = y.revision => x = y

Init ==
    /\ rows = {} /\ audit = {} /\ outbox = {}
    /\ lock = Nobody
    /\ calls = [c \in Callers |-> Idle]

-----------------------------------------------------------------------------
stage(c) == calls[c].stage
ask(c) == calls[c].ask

isOperation(c) == ask(c).op \in {"change", "rollback"}

isReading(c) == ask(c).op \in {"latest", "history"}

Start(c, a) ==
    /\ stage(c) = "idle"
    /\ calls' = [calls EXCEPT ![c] = [stage |-> "asked", ask |-> a, attempts |-> 0]]
    /\ UNCHANGED <<rows, audit, outbox, lock>>

answer(c, text) ==
    calls' = [calls EXCEPT ![c] = [stage |-> "answered", ask |-> ask(c), answer |-> text]]

at(k, revision) == {x \in rows : x.key = k /\ x.revision = revision}

exists(k, revision) == at(k, revision) # {}

-----------------------------------------------------------------------------
(* Change and Rollback.                                                     *)

(* Faulty variant: a rollback repeats the revision before.                  *)
content_Parent(a) ==
    IF a.op = "rollback" /\ a.expected > 0
    THEN (CHOOSE x \in at(a.key, a.expected) : TRUE).payload
    ELSE IF a.op = "rollback" THEN (CHOOSE x \in at(a.key, a.source) : TRUE).payload
    ELSE a.payload

(* What a rollback copies, and what a change brings along.                  *)
content(a) ==
    IF a.op = "rollback" THEN (CHOOSE x \in at(a.key, a.source) : TRUE).payload ELSE a.payload

(* The readings before the insert.  There are none, and so no snapshot,     *)
(* when a change expects no revision.                                       *)
Prepare(c) ==
    LET a == ask(c)
        sourceFound == a.op = "rollback" => exists(a.key, a.source)
        parentFound == a.expected > 0 => exists(a.key, a.expected) IN
    /\ stage(c) = "asked" /\ isOperation(c)
    /\ CASE ~sourceFound -> answer(c, "missing")
         [] sourceFound /\ ~parentFound -> answer(c, "conflict")
         [] OTHER -> calls' = [calls EXCEPT ![c] =
               [stage |-> "prepared", ask |-> a, payload |-> content(a), seen |-> rows,
                reads |-> a.op = "rollback" \/ a.expected > 0]]
    /\ UNCHANGED <<rows, audit, outbox, lock>>

(* The WHERE of the conditional insert.                                     *)
isLatest(k, expected) ==
    /\ expected > 0 => exists(k, expected)
    /\ ~ \E x \in rows : x.key = k /\ x.revision > expected

row(c, payload) ==
    [key |-> ask(c).key, revision |-> ask(c).expected + 1, parent |-> ask(c).expected,
     payload |-> payload, by |-> c, audited |-> isOperation(c)]

(* The unique indexes of the table.                                         *)
admits(x) == ~exists(x.key, x.revision)

(* A transaction gives up when the database is busy.                        *)
Insert(c) ==
    LET a == ask(c) IN
    /\ stage(c) = "prepared"
    /\ \/ /\ lock # Nobody \/ (calls[c].reads /\ calls[c].seen # rows)
          /\ answer(c, "busy")
          /\ UNCHANGED lock
       \/ /\ lock = Nobody /\ (calls[c].reads => calls[c].seen = rows)
          /\ CASE ~isLatest(a.key, a.expected) -> answer(c, "conflict") /\ UNCHANGED lock
               [] isLatest(a.key, a.expected) /\ ~admits(row(c, calls[c].payload)) ->
                     answer(c, "failed") /\ UNCHANGED lock
               [] OTHER ->
                     /\ calls' = [calls EXCEPT ![c] =
                           [stage |-> "inserted", ask |-> a, payload |-> calls[c].payload]]
                     /\ lock' = c
    /\ UNCHANGED <<rows, audit, outbox>>

(* Faulty variant: the entry is best effort.                                *)
entered_BestEffort(log, entry) == {log, log \cup {entry}}

entered(log, entry) == {log \cup {entry}}

(* The audit entry and the event, then the commit of all three.             *)
Commit(c) ==
    LET entry == [key |-> ask(c).key, revision |-> ask(c).expected + 1, source |-> ask(c).source] IN
    /\ stage(c) = "inserted"
    /\ rows' = rows \cup {row(c, calls[c].payload)}
    /\ audit' \in entered(audit, entry)
    /\ outbox' \in entered(outbox, entry)
    /\ lock' = Nobody
    /\ answer(c, "appended")

(* A statement fails, the caller is gone or its process crashes.            *)
Abort(c) ==
    /\ stage(c) \in {"asked", "prepared", "inserted", "found"}
    /\ answer(c, "failed")
    /\ lock' = IF lock = c THEN Nobody ELSE lock
    /\ UNCHANGED <<rows, audit, outbox>>

-----------------------------------------------------------------------------
(* The store on its own.                                                    *)

(* appendConditionally, one attempt: the statement commits by itself.       *)
Attempt(c) ==
    LET a == ask(c) IN
    /\ stage(c) = "asked" /\ a.op = "append"
    /\ \/ /\ lock # Nobody
          /\ IF calls[c].attempts + 1 < MaxAttempts
             THEN calls' = [calls EXCEPT ![c].attempts = @ + 1]
             ELSE answer(c, "busy")
          /\ UNCHANGED rows
       \/ /\ lock = Nobody
          /\ IF isLatest(a.key, a.expected) /\ admits(row(c, a.payload))
             THEN rows' = rows \cup {row(c, a.payload)} /\ answer(c, "appended")
             ELSE UNCHANGED rows /\ answer(c, "conflict")
    /\ UNCHANGED <<audit, outbox, lock>>

revisions(k) == {x.revision : x \in {y \in rows : y.key = k}}

(* The last revision that a reading returns: the latest of all, or of the   *)
(* first ones up to the limit.                                              *)
lastOf(a) ==
    LET read == IF a.op = "latest" THEN revisions(a.key)
                ELSE {r \in revisions(a.key) : Cardinality({s \in revisions(a.key) : s <= r})
                                                  <= HistoryLimit} IN
    CHOOSE r \in read : \A s \in read : s <= r

Read(c) ==
    /\ stage(c) = "asked" /\ isReading(c)
    /\ IF revisions(ask(c).key) = {}
       THEN answer(c, "missing")
       ELSE calls' = [calls EXCEPT ![c] =
               [stage |-> "found", ask |-> ask(c), last |-> lastOf(ask(c))]]
    /\ UNCHANGED <<rows, audit, outbox, lock>>

(* validateChain of the rows up to a revision.                              *)
complete(k, through) == {r \in revisions(k) : r <= through} = 1..through

Verify(c) ==
    /\ stage(c) = "found"
    /\ answer(c, IF complete(ask(c).key, calls[c].last) THEN "read" ELSE "incomplete")
    /\ UNCHANGED <<rows, audit, outbox, lock>>

Next ==
    \/ \E c \in Callers, a \in Ask : Start(c, a)
    \/ \E c \in Callers :
          \/ Prepare(c) \/ Insert(c) \/ Commit(c)
          \/ Attempt(c)
          \/ Read(c) \/ Verify(c)
          \/ Abort(c)

Spec == Init /\ [][Next]_vars

-----------------------------------------------------------------------------
(* Properties.                                                              *)

told(c, text) == stage(c) = "answered" /\ calls[c].answer = text

(* Whoever is told so has extended the chain, with what it sent or named,   *)
(* and nobody else has: a caller that is told of a conflict, a busy         *)
(* database or a failure may try again, because nothing of it was kept.     *)
AnswersAreTrue ==
    /\ \A c \in Callers : told(c, "appended") <=> \E x \in rows : x.by = c
    /\ \A x \in rows : x.key = ask(x.by).key /\ x.parent = ask(x.by).expected

(* Each revision that an operation made has one audit entry and one event,  *)
(* and neither speaks of a revision there is not; a rollback has the        *)
(* content of the revision that its entry names.                            *)
EveryRevisionExplained ==
    /\ audit = outbox
    /\ {<<e.key, e.revision>> : e \in audit} = {<<x.key, x.revision>> : x \in {y \in rows : y.audited}}
    /\ \A e, f \in audit : e.key = f.key /\ e.revision = f.revision => e = f
    /\ \A e \in audit : e.source > 0 =>
          {x.payload : x \in at(e.key, e.revision)} = {x.payload : x \in at(e.key, e.source)}

(* No reader ever takes a chain for damaged because somebody appends to it  *)
(* between the two statements of the reading.                               *)
ReadersSeeCompleteChains == \A c \in Callers : ~told(c, "incomplete")

(* What holds at any time.                                                  *)
ConfigInvariant ==
    TypeOK /\ AnswersAreTrue /\ EveryRevisionExplained /\ ReadersSeeCompleteChains

(* The tables implement ConfigChains.  The mapping has no meaning unless    *)
(* the revisions of a key are 1 to n; a gap is mapped to no chain.          *)
chain ==
    [k \in Keys |->
       [r \in revisions(k) |->
          [payload |-> (CHOOSE x \in at(k, r) : TRUE).payload,
           source |-> IF \E e \in audit : e.key = k /\ e.revision = r
                      THEN (CHOOSE e \in audit : e.key = k /\ e.revision = r).source ELSE 0]]]

Chains == INSTANCE ConfigChains

ImplementsChains == Chains!Spec
=============================================================================
