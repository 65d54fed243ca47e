------------------------- MODULE ConfigRevisions_proofs -------------------------
(***************************************************************************)
(* Safety of ConfigRevisions and the refinement of ConfigChains, for all   *)
(* keys, payloads, callers and limits; and, in the second part, safety of  *)
(* ServiceAccounts and of ServiceRequests, by which services reach the     *)
(* configuration, for all accounts, rows, grants and dictionaries.         *)
(***************************************************************************)
EXTENDS ConfigRevisions, ServiceRequests, FiniteSetTheorems, SequenceTheorems, TLAPS

(* The rows of a key end with a revision.                                   *)
endsWith(rs, k, revision) ==
    /\ revision > 0 => \E x \in rs : x.key = k /\ x.revision = revision
    /\ \A x \in rs : x.key = k => x.revision <= revision

(* What a call has reached is true of the rows, also when others append.    *)
callInOrder(c, call, rs, holder) ==
    /\ call.stage = "inserted" <=> holder = c
    /\ call.stage \in {"prepared", "inserted"} =>
          /\ call.ask.op \in {"change", "rollback"}
          /\ call.payload \in Payloads
          /\ call.ask.op = "rollback" =>
                \E x \in rs : x.key = call.ask.key /\ x.revision = call.ask.source
                              /\ x.payload = call.payload
    /\ call.stage = "inserted" => endsWith(rs, call.ask.key, call.ask.expected)
    /\ call.stage = "found" =>
          \E x \in rs : x.key = call.ask.key /\ x.revision = call.last
    /\ call.stage = "answered" => call.answer # "incomplete"
    /\ (call.stage = "answered" /\ call.answer = "appended") <=> \E x \in rs : x.by = c

CallsInOrder ==
    /\ calls = [c \in Callers |-> calls[c]]
    /\ \A c \in Callers : callInOrder(c, calls[c], rows, lock)

(* No revision without the one before, and none that its caller did not ask *)
(* for.                                                                     *)
RowsInOrder ==
    /\ \A x \in rows : \A r \in 1..x.revision : \E y \in rows : y.key = x.key /\ y.revision = r
    /\ \A x \in rows : /\ x.key = calls[x.by].ask.key
                       /\ x.parent = calls[x.by].ask.expected

IInv == TypeOK /\ CallsInOrder /\ RowsInOrder /\ EveryRevisionExplained

typed(call) ==
    \/ call = Idle
    \/ /\ call.stage \in {"asked", "prepared", "inserted", "found", "answered"}
       /\ call.ask \in Ask

-----------------------------------------------------------------------------
(* Steps of one caller.                                                     *)

(* The step leaves the tables alone.                                        *)
LEMMA TablesUntouched ==
    ASSUME IInv, NEW c \in Callers, NEW new, NEW holder \in {lock, c, Nobody},
           calls' = [calls EXCEPT ![c] = new], typed(new),
           calls[c].stage # "answered",
           callInOrder(c, new, rows, holder),
           \A d \in Callers \ {c} : lock = d <=> holder = d,
           lock' = holder, UNCHANGED <<rows, audit, outbox>>
    PROVE  IInv'
  <1>1. /\ calls'[c] = new
        /\ \A d \in Callers \ {c} : calls'[d] = calls[d]
        /\ calls' = [d \in Callers |-> calls'[d]]
    BY DEF IInv, CallsInOrder
  <1>2. TypeOK'
    <2>1. \A d \in Callers : typed(calls'[d])
      BY <1>1 DEF IInv, TypeOK, typed
    <2>2. lock' \in Callers \cup {Nobody}
      BY DEF IInv, TypeOK
    <2> QED
      BY <2>1, <2>2 DEF IInv, TypeOK, typed
  <1>3. ASSUME NEW d \in Callers PROVE callInOrder(d, calls'[d], rows', lock')
    <2>1. CASE d = c
      BY <1>1, <2>1
    <2>2. CASE d # c
      <3>1. callInOrder(d, calls[d], rows, lock)
        BY DEF IInv, CallsInOrder
      <3> QED
        BY <1>1, <2>2, <3>1 DEF callInOrder
    <2> QED
      BY <2>1, <2>2
  <1>4. RowsInOrder'
    <2>1. \A x \in rows : x.by # c /\ x.by \in Callers
      <3>1. callInOrder(c, calls[c], rows, lock)
        BY DEF IInv, CallsInOrder
      <3> QED
        BY <3>1 DEF callInOrder, IInv, TypeOK, Row
    <2> QED
      BY <1>1, <2>1 DEF IInv, RowsInOrder
  <1>5. EveryRevisionExplained'
    BY DEF IInv, EveryRevisionExplained, at
  <1> QED
    BY <1>1, <1>2, <1>3, <1>4, <1>5 DEF IInv, CallsInOrder

(* A row is appended and its caller told.                                   *)
LEMMA RowAppended ==
    ASSUME IInv, NEW c \in Callers, NEW payload \in Payloads,
           calls[c].stage \in {"asked", "inserted"}, calls[c].ask \in Ask,
           calls[c].ask.op \in {"change", "rollback", "append"},
           endsWith(rows, calls[c].ask.key, calls[c].ask.expected),
           rows' = rows \cup {row(c, payload)},
           answer(c, "appended"),
           lock \in {c, Nobody}, lock' = Nobody
    PROVE  /\ CallsInOrder' /\ RowsInOrder'
           /\ rows' \subseteq Row
           /\ \A x \in rows' : x.revision = x.parent + 1
           /\ \A x, y \in rows' : x.key = y.key /\ x.revision = y.revision => x = y
           /\ \A d \in Callers : typed(calls'[d])
           /\ \A x \in rows : ~(x.key = calls[c].ask.key /\ x.revision = calls[c].ask.expected + 1)
  <1> DEFINE a == calls[c].ask
             new == row(c, payload)
  <1> USE ConfigAssumption
  <1>1. a.key \in Keys /\ a.expected \in 0..(MaxRevision - 1)
    BY DEF Ask
  <1>2. /\ new \in Row /\ new.key = a.key /\ new.revision = a.expected + 1
        /\ new.parent = a.expected /\ new.by = c
    BY <1>1 DEF row, ask, Row, isOperation
  <1>3. rows \subseteq Row /\ \A x \in rows : x.revision \in Nat /\ x.by \in Callers
    BY DEF IInv, TypeOK, Row
  <1>4. \A x \in rows : ~(x.key = a.key /\ x.revision = a.expected + 1)
    BY <1>1, <1>3 DEF endsWith
  <1>5. \A x \in rows : x.by # c
    <2>1. callInOrder(c, calls[c], rows, lock)
      BY DEF IInv, CallsInOrder
    <2> QED
      BY <2>1 DEF callInOrder
  <1>6. /\ calls'[c] = [stage |-> "answered", ask |-> a, answer |-> "appended"]
        /\ \A d \in Callers \ {c} : calls'[d] = calls[d]
        /\ calls' = [d \in Callers |-> calls'[d]]
    BY DEF IInv, CallsInOrder, answer, ask
  <1> HIDE DEF new
  <1>7. \A x \in rows' : x \in rows \/ x = new
    BY DEF new
  <1>8. rows' \subseteq Row /\ \A x \in rows' : x.revision = x.parent + 1
    BY <1>1, <1>2, <1>3, <1>7 DEF IInv, TypeOK
  <1>9. \A x, y \in rows' : x.key = y.key /\ x.revision = y.revision => x = y
    BY <1>2, <1>4, <1>7 DEF IInv, TypeOK
  <1>10. \A d \in Callers : typed(calls'[d])
    BY <1>6 DEF IInv, TypeOK, typed
  <1>11. rows \subseteq rows' /\ new \in rows'
    BY DEF new
  <1>12. RowsInOrder'
    <2>1. ASSUME NEW x \in rows', NEW r \in 1..x.revision
          PROVE  \E y \in rows' : y.key = x.key /\ y.revision = r
      <3>1. CASE x \in rows
        BY <1>11, <2>1, <3>1 DEF IInv, RowsInOrder
      <3>2. CASE x = new /\ r = a.expected + 1
        BY <1>2, <1>11, <3>2
      <3>3. CASE x = new /\ r # a.expected + 1
        <4>1. r \in 1..a.expected /\ a.expected > 0
          BY <1>1, <1>2, <3>3
        <4>2. PICK y \in rows : y.key = a.key /\ y.revision = a.expected
          BY <4>1 DEF endsWith
        <4>3. PICK z \in rows : z.key = y.key /\ z.revision = r
          BY <4>1, <4>2 DEF IInv, RowsInOrder
        <4> QED
          BY <1>2, <1>11, <3>3, <4>2, <4>3
      <3> QED
        BY <1>7, <3>1, <3>2, <3>3
    <2>2. ASSUME NEW x \in rows'
          PROVE  x.key = calls'[x.by].ask.key /\ x.parent = calls'[x.by].ask.expected
      <3>1. CASE x \in rows
        BY <1>3, <1>5, <1>6, <3>1 DEF IInv, RowsInOrder
      <3>2. CASE x = new
        BY <1>2, <1>6, <3>2
      <3> QED
        BY <1>7, <3>1, <3>2
    <2> QED
      BY <2>1, <2>2 DEF RowsInOrder
  <1>13. ASSUME NEW d \in Callers PROVE callInOrder(d, calls'[d], rows', lock')
    <2>1. CASE d = c
      BY <1>2, <1>6, <1>11, <2>1 DEF callInOrder
    <2>2. CASE d # c
      <3>1. callInOrder(d, calls[d], rows, lock)
        BY DEF IInv, CallsInOrder
      <3>2. calls[d].stage # "inserted"
        BY <2>2, <3>1 DEF callInOrder
      <3>3. (\E x \in rows : x.by = d) <=> (\E x \in rows' : x.by = d)
        BY <1>2, <1>7, <1>11, <2>2
      <3> QED
        BY <1>6, <1>11, <2>2, <3>1, <3>2, <3>3 DEF callInOrder
    <2> QED
      BY <2>1, <2>2
  <1> QED
    BY <1>4, <1>6, <1>8, <1>9, <1>10, <1>12, <1>13 DEF CallsInOrder

-----------------------------------------------------------------------------
(* The steps that leave the tables alone.                                   *)

LEMMA CallOf ==
    ASSUME IInv, NEW c \in Callers
    PROVE  /\ callInOrder(c, calls[c], rows, lock)
           /\ typed(calls[c])
           /\ calls[c].stage \in {"asked", "prepared", "inserted", "found", "answered"}
                 => calls[c].ask \in Ask
  BY DEF IInv, CallsInOrder, TypeOK, typed, Idle

(* Every answer but "appended" and "incomplete" may be given at any time by *)
(* a caller that has not been answered and gives up the lock.               *)
LEMMA Answered ==
    ASSUME IInv, NEW c \in Callers, NEW text \in Answers \ {"appended", "incomplete"},
           calls[c].stage \in {"asked", "prepared", "inserted", "found"},
           answer(c, text), UNCHANGED <<rows, audit, outbox>>,
           lock' = IF lock = c THEN Nobody ELSE lock
    PROVE  IInv'
  <1> DEFINE new == [stage |-> "answered", ask |-> calls[c].ask, answer |-> text]
             holder == IF lock = c THEN Nobody ELSE lock
  <1> USE ConfigAssumption
  <1>1. calls' = [calls EXCEPT ![c] = new]
    BY DEF answer, ask
  <1>2. typed(new)
    BY CallOf DEF typed
  <1>3. callInOrder(c, new, rows, holder)
    BY CallOf DEF callInOrder
  <1>4. holder \in {lock, c, Nobody} /\ \A d \in Callers \ {c} : lock = d <=> holder = d
    OBVIOUS
  <1>5. lock' = holder
    OBVIOUS
  <1> HIDE DEF new, holder
  <1> QED
    BY <1>1, <1>2, <1>3, <1>4, <1>5, TablesUntouched

LEMMA StartKeeps ==
    ASSUME IInv, NEW c \in Callers, NEW a \in Ask, Start(c, a) PROVE IInv'
  <1> DEFINE new == [stage |-> "asked", ask |-> a, attempts |-> 0]
  <1>1. calls' = [calls EXCEPT ![c] = new] /\ calls[c].stage = "idle"
        /\ UNCHANGED <<rows, audit, outbox>> /\ lock' = lock
    BY DEF Start, stage
  <1>2. typed(new)
    BY DEF typed
  <1>3. callInOrder(c, new, rows, lock)
    BY <1>1, CallOf DEF callInOrder
  <1> HIDE DEF new
  <1> QED
    BY <1>1, <1>2, <1>3, TablesUntouched

LEMMA PrepareKeeps ==
    ASSUME IInv, NEW c \in Callers, Prepare(c) PROVE IInv'
  <1> DEFINE a == calls[c].ask
             new == [stage |-> "prepared", ask |-> a, payload |-> content(a), seen |-> rows,
                     reads |-> a.op = "rollback" \/ a.expected > 0]
  <1>1. /\ calls[c].stage = "asked" /\ a.op \in {"change", "rollback"} /\ a \in Ask
        /\ UNCHANGED <<rows, audit, outbox>> /\ lock' = lock /\ lock # c
    BY CallOf DEF Prepare, stage, isOperation, ask, callInOrder
  <1>2. CASE answer(c, "missing") \/ answer(c, "conflict")
    <2>1. lock' = IF lock = c THEN Nobody ELSE lock
      BY <1>1
    <2> QED
      BY <1>1, <1>2, <2>1, Answered DEF Answers
  <1>3. CASE /\ a.op = "rollback" => exists(a.key, a.source)
             /\ calls' = [calls EXCEPT ![c] = new]
    <2>1. typed(new)
      BY <1>1 DEF typed
    <2>2. /\ content(a) \in Payloads
          /\ a.op = "rollback" => \E x \in rows : /\ x.key = a.key /\ x.revision = a.source
                                                  /\ x.payload = content(a)
      <3>1. CASE a.op = "change"
        BY <1>1, <3>1 DEF content, Ask
      <3>2. CASE a.op = "rollback"
        <4>1. \E x : x \in at(a.key, a.source)
          BY <1>3, <3>2 DEF exists
        <4>2. (CHOOSE x \in at(a.key, a.source) : TRUE) \in at(a.key, a.source)
          BY <4>1
        <4> QED
          BY <3>2, <4>2 DEF content, at, IInv, TypeOK, Row
      <3> QED
        BY <1>1, <3>1, <3>2
    <2>3. callInOrder(c, new, rows, lock)
      BY <1>1, <2>2, CallOf DEF callInOrder
    <2> HIDE DEF new
    <2> QED
      BY <1>1, <1>3, <2>1, <2>3, TablesUntouched
  <1> QED
    BY <1>1, <1>2, <1>3 DEF Prepare, ask

LEMMA InsertKeeps ==
    ASSUME IInv, NEW c \in Callers, Insert(c) PROVE IInv'
  <1> DEFINE a == calls[c].ask
             new == [stage |-> "inserted", ask |-> a, payload |-> calls[c].payload]
  <1> USE ConfigAssumption
  <1>1. /\ calls[c].stage = "prepared" /\ a \in Ask
        /\ UNCHANGED <<rows, audit, outbox>> /\ lock # c
    BY CallOf DEF Insert, stage, callInOrder
  <1>2. CASE (answer(c, "busy") \/ answer(c, "conflict") \/ answer(c, "failed")) /\ lock' = lock
    <2>1. lock' = IF lock = c THEN Nobody ELSE lock
      BY <1>1, <1>2
    <2> QED
      BY <1>1, <1>2, <2>1, Answered DEF Answers
  <1>3. CASE /\ isLatest(a.key, a.expected)
             /\ lock = Nobody /\ lock' = c /\ calls' = [calls EXCEPT ![c] = new]
    <2>1. typed(new)
      BY <1>1 DEF typed
    <2>2. a.expected \in Nat
      BY <1>1 DEF Ask
    <2>3. endsWith(rows, a.key, a.expected)
      <3>1. \A x \in rows : x.revision \in Nat
        BY DEF IInv, TypeOK, Row
      <3>2. a.expected > 0 => \E x \in rows : x.key = a.key /\ x.revision = a.expected
        BY <1>3 DEF isLatest, exists, at
      <3>3. \A x \in rows : x.key = a.key => x.revision <= a.expected
        BY <1>3, <2>2, <3>1 DEF isLatest
      <3> QED
        BY <3>2, <3>3 DEF endsWith
    <2>4. callInOrder(c, new, rows, c)
      BY <1>1, <2>3, CallOf DEF callInOrder
    <2>5. \A d \in Callers \ {c} : lock = d <=> c = d
      BY <1>3
    <2> HIDE DEF new
    <2> QED
      BY <1>1, <1>3, <2>1, <2>4, <2>5, TablesUntouched
  <1> QED
    BY <1>1, <1>2, <1>3 DEF Insert, ask

LEMMA AbortKeeps ==
    ASSUME IInv, NEW c \in Callers, Abort(c) PROVE IInv'
  <1>1. /\ calls[c].stage \in {"asked", "prepared", "inserted", "found"}
        /\ answer(c, "failed")
        /\ UNCHANGED <<rows, audit, outbox>>
        /\ lock' = IF lock = c THEN Nobody ELSE lock
    BY DEF Abort, stage
  <1> QED
    BY <1>1, Answered DEF Answers

-----------------------------------------------------------------------------
(* Readings.                                                                *)

(* A set without gaps below its elements is an interval: it has as many     *)
(* elements as its largest one says.                                        *)
LEMMA NoGaps ==
    ASSUME NEW bound \in Nat, NEW S \in SUBSET (1..bound),
           \A r \in S : 1..r \subseteq S
    PROVE  \E n \in 0..bound : S = 1..n
  <1> DEFINE n == Cardinality(S)
  <1>1. IsFiniteSet(1..bound) /\ Cardinality(1..bound) = bound
    BY FS_Interval
  <1>2. IsFiniteSet(S) /\ n \in 0..bound
    <2>1. IsFiniteSet(S) /\ n <= bound
      BY <1>1, FS_Subset
    <2>2. n \in Nat
      BY <2>1, FS_CardinalityType
    <2> QED
      BY <2>1, <2>2
  <1>3. ASSUME NEW r \in S PROVE r <= n
    <2>1. r \in Nat /\ r >= 1 /\ IsFiniteSet(1..r)
      BY FS_Interval
    <2>2. Cardinality(1..r) = r
      BY <2>1, FS_Interval
    <2> QED
      BY <1>2, <2>2, FS_Subset
  <1>4. IsFiniteSet(1..n) /\ Cardinality(1..n) = n
    BY <1>2, FS_Interval
  <1>5. S \subseteq 1..n
    BY <1>2, <1>3
  <1>6. S = 1..n
    BY <1>4, <1>5, FS_Subset
  <1> QED
    BY <1>2, <1>6

LEMMA RevisionsOf ==
    ASSUME IInv, NEW k \in Keys
    PROVE  \E n \in 0..MaxRevision : revisions(k) = 1..n
  <1>1. revisions(k) \in SUBSET (1..MaxRevision)
    BY DEF revisions, IInv, TypeOK, Row
  <1>2. ASSUME NEW r \in revisions(k) PROVE 1..r \subseteq revisions(k)
    <2>1. PICK x \in rows : x.key = k /\ x.revision = r
      BY DEF revisions
    <2>2. \A q \in 1..r : \E y \in rows : y.key = k /\ y.revision = q
      BY <2>1 DEF IInv, RowsInOrder
    <2> QED
      BY <2>2 DEF revisions
  <1>3. MaxRevision \in Nat
    BY ConfigAssumption
  <1> QED
    BY <1>1, <1>2, <1>3, NoGaps

LEMMA LastIsRevision ==
    ASSUME IInv, NEW a \in Ask, revisions(a.key) # {}
    PROVE  lastOf(a) \in revisions(a.key)
  <1> USE ConfigAssumption
  <1>1. a.key \in Keys
    BY DEF Ask
  <1>2. PICK n \in 0..MaxRevision : revisions(a.key) = 1..n
    BY <1>1, RevisionsOf
  <1>3. n >= 1
    BY <1>2
  <1> DEFINE first == {r \in revisions(a.key) :
                          Cardinality({s \in revisions(a.key) : s <= r}) <= HistoryLimit}
             read == IF a.op = "latest" THEN revisions(a.key) ELSE first
             largest == IF a.op = "latest" \/ n <= HistoryLimit THEN n ELSE HistoryLimit
  <1>4. first = {r \in 1..n : r <= HistoryLimit}
    <2>1. ASSUME NEW r \in 1..n PROVE Cardinality({s \in revisions(a.key) : s <= r}) = r
      <3>1. {s \in revisions(a.key) : s <= r} = 1..r
        BY <1>2
      <3>2. Cardinality(1..r) = r
        BY FS_Interval
      <3> QED
        BY <3>1, <3>2
    <2> QED
      BY <1>2, <2>1
  <1>5. largest \in read /\ \A s \in read : s <= largest
    <2>1. CASE a.op = "latest"
      BY <1>2, <1>3, <2>1
    <2>2. CASE a.op # "latest"
      <3>1. read = {r \in 1..n : r <= HistoryLimit}
        BY <1>4, <2>2
      <3>2. largest \in 1..n /\ largest <= HistoryLimit /\ \A s \in 1..n : s <= HistoryLimit => s <= largest
        BY <1>3, <2>2
      <3> HIDE DEF read, largest
      <3> QED
        BY <3>1, <3>2
    <2> QED
      BY <2>1, <2>2
  <1>6. lastOf(a) = CHOOSE r \in read : \A s \in read : s <= r
    BY DEF lastOf
  <1> HIDE DEF read, largest
  <1>7. lastOf(a) \in read
    BY <1>5, <1>6
  <1> QED
    BY <1>7 DEF read

LEMMA ReadKeeps ==
    ASSUME IInv, NEW c \in Callers, Read(c) PROVE IInv'
  <1> DEFINE a == calls[c].ask
             new == [stage |-> "found", ask |-> a, last |-> lastOf(a)]
  <1>1. /\ calls[c].stage = "asked" /\ a \in Ask
        /\ UNCHANGED <<rows, audit, outbox>> /\ lock' = lock /\ lock # c
    BY CallOf DEF Read, stage, callInOrder
  <1>2. CASE answer(c, "missing")
    <2>1. lock' = IF lock = c THEN Nobody ELSE lock
      BY <1>1
    <2> QED
      BY <1>1, <1>2, <2>1, Answered DEF Answers
  <1>3. CASE revisions(a.key) # {} /\ calls' = [calls EXCEPT ![c] = new]
    <2>1. typed(new)
      BY <1>1 DEF typed
    <2>2. lastOf(a) \in revisions(a.key)
      BY <1>1, <1>3, LastIsRevision
    <2>3. \E x \in rows : x.key = a.key /\ x.revision = lastOf(a)
      BY <2>2 DEF revisions
    <2>4. callInOrder(c, new, rows, lock)
      BY <1>1, <2>3, CallOf DEF callInOrder
    <2> HIDE DEF new
    <2> QED
      BY <1>1, <1>3, <2>1, <2>4, TablesUntouched
  <1> QED
    BY <1>2, <1>3 DEF Read, ask

(* The rows below the one that was found are there, whoever appended.       *)
LEMMA VerifyKeeps ==
    ASSUME IInv, NEW c \in Callers, Verify(c) PROVE IInv'
  <1> DEFINE a == calls[c].ask
  <1>1. /\ calls[c].stage = "found" /\ a \in Ask
        /\ UNCHANGED <<rows, audit, outbox>> /\ lock' = lock /\ lock # c
    BY CallOf DEF Verify, stage, callInOrder
  <1>2. a.key \in Keys
    BY <1>1 DEF Ask
  <1>3. PICK n \in 0..MaxRevision : revisions(a.key) = 1..n
    BY <1>2, RevisionsOf
  <1>4. calls[c].last \in revisions(a.key)
    BY <1>1, CallOf DEF callInOrder, revisions
  <1>5. complete(a.key, calls[c].last)
    BY <1>3, <1>4, ConfigAssumption DEF complete
  <1>6. answer(c, "read")
    BY <1>5 DEF Verify, ask
  <1>7. lock' = IF lock = c THEN Nobody ELSE lock
    BY <1>1
  <1> QED
    BY <1>1, <1>6, <1>7, Answered DEF Answers

-----------------------------------------------------------------------------
(* The steps that append a row.                                             *)

(* A rollback's entry, one row at a time.                                   *)
copied(e, rs) ==
    \E x, y \in rs : /\ x.key = e.key /\ x.revision = e.revision
                     /\ y.key = e.key /\ y.revision = e.source
                     /\ x.payload = y.payload

LEMMA CopiedRowByRow ==
    ASSUME TypeOK, NEW e,
           \E x \in rows : x.key = e.key /\ x.revision = e.revision
    PROVE  {x.payload : x \in at(e.key, e.revision)} = {x.payload : x \in at(e.key, e.source)}
              <=> copied(e, rows)
  <1>1. PICK x \in rows : x.key = e.key /\ x.revision = e.revision
    OBVIOUS
  <1>2. at(e.key, e.revision) = {x}
    BY <1>1 DEF at, TypeOK
  <1>3. ASSUME copied(e, rows)
        PROVE  {z.payload : z \in at(e.key, e.revision)} = {z.payload : z \in at(e.key, e.source)}
    <2>1. PICK y \in rows : y.key = e.key /\ y.revision = e.source /\ x.payload = y.payload
      BY <1>1, <1>3 DEF copied, TypeOK
    <2>2. at(e.key, e.source) = {y}
      BY <2>1 DEF at, TypeOK
    <2> QED
      BY <1>2, <2>1, <2>2
  <1>4. ASSUME {z.payload : z \in at(e.key, e.revision)} = {z.payload : z \in at(e.key, e.source)}
        PROVE  copied(e, rows)
    <2>1. x.payload \in {z.payload : z \in at(e.key, e.source)}
      BY <1>2, <1>4
    <2>2. PICK y \in at(e.key, e.source) : x.payload = y.payload
      BY <2>1
    <2> QED
      BY <1>1, <2>2 DEF copied, at
  <1> QED
    BY <1>3, <1>4

LEMMA EntriesHaveRows ==
    ASSUME EveryRevisionExplained, NEW e \in audit
    PROVE  \E x \in rows : x.audited /\ x.key = e.key /\ x.revision = e.revision
  <1>1. <<e.key, e.revision>> \in {<<x.key, x.revision>> : x \in {y \in rows : y.audited}}
    BY DEF EveryRevisionExplained
  <1> QED
    BY <1>1

LEMMA CommitKeeps ==
    ASSUME IInv, NEW c \in Callers, Commit(c) PROVE IInv'
  <1> DEFINE a == calls[c].ask
             entry == [key |-> a.key, revision |-> a.expected + 1, source |-> a.source]
             new == row(c, calls[c].payload)
  <1> USE ConfigAssumption
  <1>1. /\ calls[c].stage = "inserted" /\ a \in Ask /\ lock = c
        /\ a.op \in {"change", "rollback"} /\ calls[c].payload \in Payloads
        /\ a.op = "rollback" => \E x \in rows : /\ x.key = a.key /\ x.revision = a.source
                                               /\ x.payload = calls[c].payload
        /\ endsWith(rows, a.key, a.expected)
    BY CallOf DEF Commit, stage, callInOrder
  <1>2. /\ rows' = rows \cup {new} /\ answer(c, "appended") /\ lock' = Nobody
        /\ audit' = audit \cup {entry} /\ outbox' = outbox \cup {entry}
    BY DEF Commit, ask, entered
  <1>3. /\ CallsInOrder' /\ RowsInOrder'
        /\ rows' \subseteq Row
        /\ \A x \in rows' : x.revision = x.parent + 1
        /\ \A x, y \in rows' : x.key = y.key /\ x.revision = y.revision => x = y
        /\ \A d \in Callers : typed(calls'[d])
        /\ \A x \in rows : ~(x.key = a.key /\ x.revision = a.expected + 1)
    BY <1>1, <1>2, RowAppended
  <1>4. /\ a.key \in Keys /\ a.expected \in 0..(MaxRevision - 1) /\ a.source \in 0..MaxRevision
        /\ a.op = "change" => a.source = 0
    BY <1>1 DEF Ask
  <1>5. entry \in Entry
    BY <1>4 DEF Entry
  <1>6. TypeOK'
    BY <1>2, <1>3, <1>5 DEF IInv, TypeOK, typed
  <1>7. /\ new.key = a.key /\ new.revision = a.expected + 1 /\ new.audited
        /\ new.payload = calls[c].payload
    BY <1>1 DEF row, ask, isOperation
  <1> HIDE DEF new
  <1>8. audit = outbox /\ audit' = outbox'
    BY <1>2 DEF IInv, EveryRevisionExplained
  <1>9. {<<e.key, e.revision>> : e \in audit'} = {<<x.key, x.revision>> : x \in {y \in rows' : y.audited}}
    <2>1. {<<e.key, e.revision>> : e \in audit} = {<<x.key, x.revision>> : x \in {y \in rows : y.audited}}
      BY DEF IInv, EveryRevisionExplained
    <2>2. {<<e.key, e.revision>> : e \in audit'}
             = {<<e.key, e.revision>> : e \in audit} \cup {<<a.key, a.expected + 1>>}
      <3>1. entry.key = a.key /\ entry.revision = a.expected + 1 /\ audit' = audit \cup {entry}
        BY <1>2
      <3> HIDE DEF entry, a
      <3> QED
        BY <3>1
    <2>3. {<<x.key, x.revision>> : x \in {y \in rows' : y.audited}}
             = {<<x.key, x.revision>> : x \in {y \in rows : y.audited}} \cup {<<a.key, a.expected + 1>>}
      BY <1>2, <1>7
    <2> QED
      BY <2>1, <2>2, <2>3
  <1>10. \A e \in audit : ~(e.key = entry.key /\ e.revision = entry.revision)
    BY <1>3, EntriesHaveRows DEF IInv
  <1>11. \A e, f \in audit' : e.key = f.key /\ e.revision = f.revision => e = f
    BY <1>2, <1>10 DEF IInv, EveryRevisionExplained
  <1>12. ASSUME NEW e \in audit', e.source > 0
         PROVE  copied(e, rows')
    <2>1. CASE e \in audit
      <3>1. \E x \in rows : x.key = e.key /\ x.revision = e.revision
        BY <2>1, EntriesHaveRows DEF IInv
      <3>2. copied(e, rows)
        BY <1>12, <2>1, <3>1, CopiedRowByRow DEF IInv, EveryRevisionExplained
      <3> QED
        BY <1>2, <3>2 DEF copied
    <2>2. CASE e = entry
      <3>1. a.op = "rollback"
        BY <1>1, <1>4, <1>12, <2>2
      <3>2. PICK y \in rows : y.key = a.key /\ y.revision = a.source /\ y.payload = calls[c].payload
        BY <1>1, <3>1
      <3> QED
        BY <1>2, <1>7, <2>2, <3>2 DEF copied
    <2> QED
      BY <1>2, <2>1, <2>2
  <1>13. ASSUME NEW e \in audit', e.source > 0
         PROVE  {x.payload : x \in at(e.key, e.revision)'} = {x.payload : x \in at(e.key, e.source)'}
    <2>1. copied(e, rows')
      BY <1>12, <1>13
    <2>2. PICK x \in rows', y \in rows' : /\ x.key = e.key /\ x.revision = e.revision
                                          /\ y.key = e.key /\ y.revision = e.source
                                          /\ x.payload = y.payload
      BY <2>1 DEF copied
    <2>3. {z \in rows' : z.key = e.key /\ z.revision = e.revision} = {x}
      BY <1>3, <2>2
    <2>4. {z \in rows' : z.key = e.key /\ z.revision = e.source} = {y}
      BY <1>3, <2>2
    <2> QED
      BY <2>2, <2>3, <2>4 DEF at
  <1>14. EveryRevisionExplained'
    BY <1>8, <1>9, <1>11, <1>13 DEF EveryRevisionExplained
  <1> QED
    BY <1>3, <1>6, <1>14 DEF IInv

LEMMA AttemptKeeps ==
    ASSUME IInv, NEW c \in Callers, Attempt(c) PROVE IInv'
  <1> DEFINE a == calls[c].ask
             new == row(c, a.payload)
  <1> USE ConfigAssumption
  <1>1. /\ calls[c].stage = "asked" /\ a \in Ask /\ a.op = "append" /\ lock # c
        /\ a.payload \in Payloads /\ a.expected \in Nat
        /\ UNCHANGED <<audit, outbox>> /\ lock' = lock
    BY CallOf DEF Attempt, stage, ask, callInOrder, Ask
  <1>2. CASE (answer(c, "busy") \/ answer(c, "conflict")) /\ rows' = rows
    <2>1. lock' = IF lock = c THEN Nobody ELSE lock
      BY <1>1
    <2> QED
      BY <1>1, <1>2, <2>1, Answered DEF Answers
  <1>3. CASE calls' = [calls EXCEPT ![c].attempts = @ + 1] /\ rows' = rows
    <2> DEFINE again == [calls[c] EXCEPT !.attempts = @ + 1]
    <2>1. calls' = [calls EXCEPT ![c] = again]
      BY <1>3
    <2>2. again.stage = "asked" /\ again.ask = a
      BY <1>1
    <2>3. typed(again)
      BY <1>1, <2>2 DEF typed
    <2>4. callInOrder(c, again, rows, lock)
      BY <1>1, <2>2, CallOf DEF callInOrder
    <2> HIDE DEF again
    <2> QED
      BY <1>1, <1>3, <2>1, <2>3, <2>4, TablesUntouched
  <1>4. CASE /\ lock = Nobody /\ isLatest(a.key, a.expected)
             /\ rows' = rows \cup {new} /\ answer(c, "appended")
    <2>1. endsWith(rows, a.key, a.expected)
      <3>1. \A x \in rows : x.revision \in Nat
        BY DEF IInv, TypeOK, Row
      <3>2. a.expected > 0 => \E x \in rows : x.key = a.key /\ x.revision = a.expected
        BY <1>4 DEF isLatest, exists, at
      <3>3. \A x \in rows : x.key = a.key => x.revision <= a.expected
        BY <1>1, <1>4, <3>1 DEF isLatest
      <3> QED
        BY <3>2, <3>3 DEF endsWith
    <2>2. /\ CallsInOrder' /\ RowsInOrder'
          /\ rows' \subseteq Row
          /\ \A x \in rows' : x.revision = x.parent + 1
          /\ \A x, y \in rows' : x.key = y.key /\ x.revision = y.revision => x = y
          /\ \A d \in Callers : typed(calls'[d])
          /\ \A x \in rows : ~(x.key = a.key /\ x.revision = a.expected + 1)
      BY <1>1, <1>4, <2>1, RowAppended
    <2>3. TypeOK'
      BY <1>1, <1>4, <2>2 DEF IInv, TypeOK, typed
    <2>4. new.key = a.key /\ new.revision = a.expected + 1 /\ ~new.audited
      BY <1>1 DEF row, ask, isOperation
    <2> HIDE DEF new
    <2>5. {y \in rows' : y.audited} = {y \in rows : y.audited}
      BY <1>4, <2>4
    <2>6. ASSUME NEW e \in audit, e.source > 0
          PROVE  {x.payload : x \in at(e.key, e.revision)'} = {x.payload : x \in at(e.key, e.source)'}
      <3>1. \E x \in rows : x.key = e.key /\ x.revision = e.revision
        BY EntriesHaveRows DEF IInv
      <3>2. copied(e, rows)
        BY <2>6, <3>1, CopiedRowByRow DEF IInv, EveryRevisionExplained
      <3>3. PICK x \in rows, y \in rows : /\ x.key = e.key /\ x.revision = e.revision
                                          /\ y.key = e.key /\ y.revision = e.source
                                          /\ x.payload = y.payload
        BY <3>2 DEF copied
      <3>4. {z \in rows' : z.key = e.key /\ z.revision = e.revision} = {x}
        BY <1>4, <2>2, <3>3
      <3>5. {z \in rows' : z.key = e.key /\ z.revision = e.source} = {y}
        BY <1>4, <2>2, <3>3
      <3> QED
        BY <3>3, <3>4, <3>5 DEF at
    <2>7. EveryRevisionExplained'
      BY <1>1, <2>5, <2>6 DEF IInv, EveryRevisionExplained
    <2> QED
      BY <2>2, <2>3, <2>7 DEF IInv
  <1> QED
    BY <1>1, <1>2, <1>3, <1>4 DEF Attempt, ask

-----------------------------------------------------------------------------
(* The invariant.                                                           *)

LEMMA Inductive == IInv /\ [Next]_vars => IInv'
  <1> SUFFICES ASSUME IInv, [Next]_vars PROVE IInv'
    OBVIOUS
  <1>1. CASE UNCHANGED vars
    BY <1>1 DEF vars, IInv, TypeOK, CallsInOrder, RowsInOrder, EveryRevisionExplained, at
  <1>2. ASSUME NEW c \in Callers, NEW a \in Ask, Start(c, a) PROVE IInv'
    BY <1>2, StartKeeps
  <1>3. ASSUME NEW c \in Callers,
               \/ Prepare(c) \/ Insert(c) \/ Commit(c) \/ Attempt(c)
               \/ Read(c) \/ Verify(c) \/ Abort(c)
        PROVE  IInv'
    BY <1>3, PrepareKeeps, InsertKeeps, CommitKeeps, AttemptKeeps, ReadKeeps, VerifyKeeps, AbortKeeps
  <1> QED
    BY <1>1, <1>2, <1>3 DEF Next

LEMMA Initially == Init => IInv
  <1> SUFFICES ASSUME Init PROVE IInv
    OBVIOUS
  <1> USE ConfigAssumption DEF Init
  <1>1. TypeOK
    BY DEF TypeOK
  <1>2. CallsInOrder
    BY DEF CallsInOrder, callInOrder, Idle
  <1>3. RowsInOrder /\ EveryRevisionExplained
    BY DEF RowsInOrder, EveryRevisionExplained
  <1> QED
    BY <1>1, <1>2, <1>3 DEF IInv

LEMMA Implied == IInv => ConfigInvariant
  <1> SUFFICES ASSUME IInv PROVE AnswersAreTrue /\ ReadersSeeCompleteChains
    BY DEF IInv, ConfigInvariant
  <1>1. ASSUME NEW c \in Callers
        PROVE  /\ told(c, "appended") <=> \E x \in rows : x.by = c
               /\ ~told(c, "incomplete")
    BY CallOf DEF callInOrder, told, stage
  <1>2. \A x \in rows : x.key = ask(x.by).key /\ x.parent = ask(x.by).expected
    BY DEF IInv, RowsInOrder, ask
  <1> QED
    BY <1>1, <1>2 DEF AnswersAreTrue, ReadersSeeCompleteChains

(* ConfigInvariant: answers are true, every revision is explained once, and *)
(* readers see complete chains, however many callers and keys there are.    *)
THEOREM ConfigInvariantHolds == Spec => []ConfigInvariant
  <1> QED
    BY Initially, Inductive, Implied, PTL DEF Spec

-----------------------------------------------------------------------------
(* The refinement of ConfigChains.                                          *)

payloadAt(rs, k, r) == (CHOOSE x \in {y \in rs : y.key = k /\ y.revision = r} : TRUE).payload

sourceAt(entries, k, r) ==
    IF \E e \in entries : e.key = k /\ e.revision = r
    THEN (CHOOSE e \in entries : e.key = k /\ e.revision = r).source ELSE 0

revisionsIn(rs, k) == {x.revision : x \in {y \in rs : y.key = k}}

chainOf(rs, entries, k) ==
    [r \in revisionsIn(rs, k) |->
        [payload |-> payloadAt(rs, k, r), source |-> sourceAt(entries, k, r)]]

Revisions == [payload : Payloads, source : 0..MaxRevision]

LEMMA ChainIs ==
    /\ chain = [k \in Keys |-> chainOf(rows, audit, k)]
    /\ chain' = [k \in Keys |-> chainOf(rows', audit', k)]
  <1>1. chain = [k \in Keys |-> chainOf(rows, audit, k)]
    BY DEF chain, chainOf, revisions, revisionsIn, payloadAt, sourceAt, at
  <1>2. chain' = [k \in Keys |-> chainOf(rows', audit', k)]
    BY DEF chain, chainOf, revisions, revisionsIn, payloadAt, sourceAt, at
  <1> QED
    BY <1>1, <1>2

LEMMA PayloadIs ==
    ASSUME NEW rs, NEW x \in rs,
           \A y, z \in rs : y.key = z.key /\ y.revision = z.revision => y = z
    PROVE  payloadAt(rs, x.key, x.revision) = x.payload
  <1>1. {y \in rs : y.key = x.key /\ y.revision = x.revision} = {x}
    OBVIOUS
  <1> QED
    BY <1>1 DEF payloadAt

LEMMA SourceIs ==
    ASSUME NEW entries, NEW e \in entries,
           \A f, g \in entries : f.key = g.key /\ f.revision = g.revision => f = g
    PROVE  sourceAt(entries, e.key, e.revision) = e.source
  BY DEF sourceAt

(* The chain of a key is a sequence, as long as its last revision says.     *)
LEMMA ChainIsSequence ==
    ASSUME IInv, NEW k \in Keys, NEW n \in Nat, revisionsIn(rows, k) = 1..n
    PROVE  /\ chainOf(rows, audit, k) \in Seq(Revisions)
           /\ Len(chainOf(rows, audit, k)) = n
  <1> DEFINE f == chainOf(rows, audit, k)
  <1>1. ASSUME NEW r \in 1..n PROVE f[r] \in Revisions
    <2>1. PICK x \in rows : x.key = k /\ x.revision = r
      BY DEF revisionsIn
    <2>2. payloadAt(rows, k, r) = x.payload
      BY <2>1, PayloadIs DEF IInv, TypeOK
    <2>3. x.payload \in Payloads
      BY DEF IInv, TypeOK, Row
    <2>4. sourceAt(audit, k, r) \in 0..MaxRevision
      BY ConfigAssumption DEF sourceAt, IInv, TypeOK, Entry
    <2>5. f[r] = [payload |-> payloadAt(rows, k, r), source |-> sourceAt(audit, k, r)]
      BY DEF chainOf
    <2> QED
      BY <2>2, <2>3, <2>4, <2>5 DEF Revisions
  <1>2. f \in [1..n -> Revisions]
    BY <1>1 DEF chainOf
  <1> HIDE DEF f
  <1>3. f \in Seq(Revisions)
    BY <1>2, SeqDef
  <1>4. Len(f) \in Nat /\ 1..Len(f) = 1..n
    BY <1>2, <1>3, LenProperties
  <1>5. Len(f) = n
    BY <1>4
  <1> QED
    BY <1>3, <1>5 DEF f

(* One more row, with one more entry or none, is one more revision.         *)
LEMMA RowExtends ==
    ASSUME IInv, IInv', NEW new \in Row, NEW source \in 0..MaxRevision,
           rows' = rows \cup {new},
           endsWith(rows, new.key, new.parent), new.revision = new.parent + 1,
           NEW entry, entry.key = new.key, entry.revision = new.revision, entry.source = source,
           \/ audit' = audit \cup {entry}
           \/ audit' = audit /\ source = 0 /\ ~new.audited
    PROVE  /\ Chains!Extend(new.key, new.parent, [payload |-> new.payload, source |-> source])
           /\ Len(chain[new.key]) = new.parent
           /\ \A x \in rows : x.key = new.key =>
                 x.revision \in 1..new.parent /\ chain[new.key][x.revision].payload = x.payload
  <1> DEFINE k == new.key
             n == new.parent
             rec == [payload |-> new.payload, source |-> source]
  <1>1. k \in Keys /\ n \in Nat /\ new.payload \in Payloads /\ rec \in Revisions
    BY ConfigAssumption DEF Row, Revisions
  <1>2. \A x \in rows : x.revision \in Nat /\ x.revision >= 1
    BY DEF IInv, TypeOK, Row
  <1>3. revisionsIn(rows, k) = 1..n
    <2>1. PICK m \in 0..MaxRevision : revisions(k) = 1..m
      BY <1>1, RevisionsOf
    <2>2. revisionsIn(rows, k) = 1..m
      BY <2>1 DEF revisions, revisionsIn
    <2>3. n = 0 \/ n \in revisionsIn(rows, k)
      BY <1>1 DEF endsWith, revisionsIn
    <2>4. \A r \in revisionsIn(rows, k) : r <= n
      BY DEF endsWith, revisionsIn
    <2>5. m \in Nat
      BY <2>1, ConfigAssumption
    <2>6. n <= m
      BY <1>1, <2>2, <2>3, <2>5
    <2>7. m <= n
      BY <1>1, <2>2, <2>4, <2>5
    <2> QED
      BY <1>1, <2>2, <2>5, <2>6, <2>7
  <1>4. revisionsIn(rows', k) = 1..(n + 1)
    <2>1. revisionsIn(rows', k) = revisionsIn(rows, k) \cup {n + 1}
      BY DEF revisionsIn
    <2>2. (1..n) \cup {n + 1} = 1..(n + 1)
      BY <1>1
    <2> QED
      BY <1>3, <2>1, <2>2
  <1> DEFINE f == chainOf(rows, audit, k)
             g == chainOf(rows', audit', k)
  <1>5. f \in Seq(Revisions) /\ Len(f) = n
    BY <1>1, <1>3, ChainIsSequence
  <1>6. \A e \in audit : ~(e.key = k /\ e.revision = n + 1)
    BY <1>1, EntriesHaveRows DEF IInv, endsWith
  <1>7. ASSUME NEW j \in Keys, NEW r \in Nat, ~(j = k /\ r = n + 1)
        PROVE  payloadAt(rows', j, r) = payloadAt(rows, j, r) /\ sourceAt(audit', j, r) = sourceAt(audit, j, r)
    <2>1. {y \in rows' : y.key = j /\ y.revision = r} = {y \in rows : y.key = j /\ y.revision = r}
      BY <1>7
    <2>2. \A e : (e \in audit' /\ e.key = j /\ e.revision = r) <=> (e \in audit /\ e.key = j /\ e.revision = r)
      BY <1>7
    <2>3. payloadAt(rows', j, r) = payloadAt(rows, j, r)
      BY <2>1 DEF payloadAt
    <2>4. sourceAt(audit', j, r) = sourceAt(audit, j, r)
      BY <2>2 DEF sourceAt
    <2> QED
      BY <2>3, <2>4
  <1>8. payloadAt(rows', k, n + 1) = new.payload
    <2>1. new \in rows' /\ \A y, z \in rows' : y.key = z.key /\ y.revision = z.revision => y = z
      BY DEF IInv, TypeOK
    <2>2. payloadAt(rows', new.key, new.revision) = new.payload
      BY <2>1, PayloadIs
    <2> QED
      BY <2>2
  <1>9. sourceAt(audit', k, n + 1) = source
    <2>1. CASE audit' = audit \cup {entry}
      <3>1. entry \in audit'
        BY <2>1
      <3> QED
        BY <3>1, SourceIs DEF IInv, EveryRevisionExplained
    <2>2. CASE audit' = audit /\ source = 0
      BY <1>6, <2>2 DEF sourceAt
    <2> QED
      BY <2>1, <2>2
  <1>10. g = Append(f, rec)
    <2>1. g = [r \in 1..(n + 1) |-> [payload |-> payloadAt(rows', k, r), source |-> sourceAt(audit', k, r)]]
      BY <1>4 DEF chainOf
    <2> HIDE DEF g
    <2>2. ASSUME NEW r \in 1..n PROVE g[r] = f[r]
      <3>1. f[r] = [payload |-> payloadAt(rows, k, r), source |-> sourceAt(audit, k, r)]
        BY <1>3 DEF chainOf
      <3>2. g[r] = [payload |-> payloadAt(rows', k, r), source |-> sourceAt(audit', k, r)]
        <4>1. r \in 1..(n + 1)
          BY <1>1
        <4> QED
          BY <2>1, <4>1
      <3>3. r \in Nat /\ r # n + 1
        BY <1>1
      <3> QED
        BY <1>1, <1>7, <3>1, <3>2, <3>3
    <2>3. g[n + 1] = rec
      <3>1. n + 1 \in 1..(n + 1)
        BY <1>1
      <3>2. g[n + 1] = [payload |-> payloadAt(rows', k, n + 1), source |-> sourceAt(audit', k, n + 1)]
        BY <2>1, <3>1
      <3> QED
        BY <1>8, <1>9, <3>2
    <2>4. DOMAIN g = 1..(n + 1) /\ g = [r \in 1..(n + 1) |-> g[r]]
      BY <2>1
    <2>5. /\ Append(f, rec) \in Seq(Revisions) /\ Len(Append(f, rec)) = n + 1
          /\ \A r \in 1..n : Append(f, rec)[r] = f[r]
          /\ Append(f, rec)[n + 1] = rec
      BY <1>1, <1>5, AppendProperties
    <2> HIDE DEF f, g, rec
    <2>6. Append(f, rec) = [r \in 1..(n + 1) |-> Append(f, rec)[r]]
      BY <1>1, <2>5, LenProperties
    <2>7. \A r \in 1..(n + 1) : g[r] = Append(f, rec)[r]
      BY <1>1, <2>2, <2>3, <2>5
    <2> QED
      BY <2>4, <2>6, <2>7
  <1>11. ASSUME NEW j \in Keys, j # k PROVE chainOf(rows', audit', j) = chainOf(rows, audit, j)
    <2>1. revisionsIn(rows', j) = revisionsIn(rows, j)
      BY <1>11 DEF revisionsIn
    <2>2. \A r \in revisionsIn(rows, j) : r \in Nat
      BY <1>2 DEF revisionsIn
    <2>3. \A r \in revisionsIn(rows, j) : /\ payloadAt(rows', j, r) = payloadAt(rows, j, r)
                                          /\ sourceAt(audit', j, r) = sourceAt(audit, j, r)
      BY <1>7, <1>11, <2>2
    <2> QED
      BY <2>1, <2>3 DEF chainOf
  <1>12. chain[k] = f /\ chain'[k] = g
    BY <1>1, ChainIs
  <1>13. chain' = [chain EXCEPT ![k] = Append(chain[k], rec)]
    <2>1. \A j \in Keys : chain'[j] = IF j = k THEN Append(f, rec) ELSE chain[j]
      BY <1>1, <1>10, <1>11, ChainIs
    <2> HIDE DEF f, rec
    <2> QED
      BY <1>1, <1>12, <2>1, ChainIs
  <1>14. Chains!Extend(k, n, rec)
    BY <1>5, <1>12, <1>13 DEF Chains!Extend
  <1>15. ASSUME NEW x \in rows, x.key = k PROVE x.revision \in 1..n /\ f[x.revision].payload = x.payload
    <2>1. x.revision \in revisionsIn(rows, k)
      BY <1>15 DEF revisionsIn
    <2>2. f[x.revision].payload = payloadAt(rows, k, x.revision)
      BY <2>1 DEF chainOf
    <2>3. payloadAt(rows, k, x.revision) = x.payload
      BY <1>15, PayloadIs DEF IInv, TypeOK
    <2> QED
      BY <1>3, <2>1, <2>2, <2>3
  <1> QED
    BY <1>5, <1>12, <1>14, <1>15

LEMMA CommitExtends ==
    ASSUME IInv, IInv', NEW c \in Callers, Commit(c) PROVE Chains!Next
  <1> DEFINE a == calls[c].ask
             entry == [key |-> a.key, revision |-> a.expected + 1, source |-> a.source]
             new == row(c, calls[c].payload)
  <1>1. /\ a \in Ask /\ a.op \in {"change", "rollback"} /\ calls[c].payload \in Payloads
        /\ a.op = "rollback" => \E x \in rows : /\ x.key = a.key /\ x.revision = a.source
                                               /\ x.payload = calls[c].payload
        /\ endsWith(rows, a.key, a.expected)
    BY CallOf DEF Commit, stage, callInOrder
  <1>2. rows' = rows \cup {new} /\ audit' = audit \cup {entry}
    BY DEF Commit, ask, entered
  <1>3. /\ a.key \in Keys /\ a.expected \in 0..(MaxRevision - 1) /\ a.source \in 0..MaxRevision
        /\ a.op = "change" => a.source = 0
        /\ a.op = "rollback" => a.source >= 1
    BY <1>1, ConfigAssumption DEF Ask
  <1>4. /\ new \in Row /\ new.key = a.key /\ new.revision = a.expected + 1
        /\ new.parent = a.expected /\ new.payload = calls[c].payload
    BY <1>1, <1>3, ConfigAssumption DEF row, ask, Row, isOperation
  <1>5. entry.key = a.key /\ entry.revision = a.expected + 1 /\ entry.source = a.source
    OBVIOUS
  <1> HIDE DEF new, entry, a
  <1>6. /\ Chains!Extend(new.key, new.parent, [payload |-> new.payload, source |-> a.source])
        /\ Len(chain[new.key]) = new.parent
        /\ \A x \in rows : x.key = new.key =>
              x.revision \in 1..new.parent /\ chain[new.key][x.revision].payload = x.payload
    BY <1>1, <1>2, <1>3, <1>4, <1>5, RowExtends
  <1>7. new.parent \in 0..Len(chain[new.key])
    BY <1>3, <1>4, <1>6
  <1>8. CASE a.op = "change"
    <2>1. Chains!Change(new.key, new.parent, new.payload)
      BY <1>3, <1>6, <1>8 DEF Chains!Change
    <2> QED
      BY <1>1, <1>3, <1>4, <1>7, <2>1 DEF Chains!Next
  <1>9. CASE a.op = "rollback"
    <2>1. PICK x \in rows : x.key = a.key /\ x.revision = a.source /\ x.payload = calls[c].payload
      BY <1>1, <1>9
    <2>2. a.source \in 1..Len(chain[new.key]) /\ chain[new.key][a.source].payload = new.payload
      BY <1>4, <1>6, <2>1
    <2>3. Chains!Rollback(new.key, new.parent, a.source)
      BY <1>6, <2>2 DEF Chains!Rollback
    <2> QED
      BY <1>3, <1>4, <1>7, <2>2, <2>3 DEF Chains!Next
  <1> QED
    BY <1>1, <1>8, <1>9

LEMMA AttemptExtends ==
    ASSUME IInv, IInv', NEW c \in Callers, Attempt(c) PROVE Chains!Next \/ chain' = chain
  <1> DEFINE a == calls[c].ask
             new == row(c, a.payload)
             entry == [key |-> a.key, revision |-> a.expected + 1, source |-> 0]
  <1>1. /\ a \in Ask /\ a.op = "append" /\ a.payload \in Payloads /\ audit' = audit
        /\ a.key \in Keys /\ a.expected \in 0..(MaxRevision - 1)
    BY CallOf DEF Attempt, stage, ask, Ask
  <1>2. CASE rows' = rows
    BY <1>1, <1>2, ChainIs
  <1>3. CASE isLatest(a.key, a.expected) /\ rows' = rows \cup {new}
    <2>1. endsWith(rows, a.key, a.expected)
      <3>1. \A x \in rows : x.revision \in Nat
        BY DEF IInv, TypeOK, Row
      <3>2. a.expected > 0 => \E x \in rows : x.key = a.key /\ x.revision = a.expected
        BY <1>3 DEF isLatest, exists, at
      <3>3. \A x \in rows : x.key = a.key => x.revision <= a.expected
        BY <1>1, <1>3, <3>1 DEF isLatest
      <3> QED
        BY <3>2, <3>3 DEF endsWith
    <2>2. /\ new \in Row /\ new.key = a.key /\ new.revision = a.expected + 1
          /\ new.parent = a.expected /\ new.payload = a.payload /\ ~new.audited
      <3>1. new = [key |-> a.key, revision |-> a.expected + 1, parent |-> a.expected,
                   payload |-> a.payload, by |-> c, audited |-> FALSE]
        <4>1. isOperation(c) = FALSE
          BY <1>1 DEF ask, isOperation
        <4> QED
          BY <4>1 DEF row, ask
      <3>2. a.expected + 1 \in 1..MaxRevision
        BY <1>1, ConfigAssumption
      <3> HIDE DEF new
      <3> QED
        BY <1>1, <3>1, <3>2 DEF Row
    <2>3. entry.key = a.key /\ entry.revision = a.expected + 1 /\ entry.source = 0
      OBVIOUS
    <2>4. 0 \in 0..MaxRevision
      BY ConfigAssumption
    <2> HIDE DEF new, entry, a
    <2>5. /\ Chains!Extend(new.key, new.parent, [payload |-> new.payload, source |-> 0])
          /\ Len(chain[new.key]) = new.parent
      BY <1>1, <1>3, <2>1, <2>2, <2>3, <2>4, RowExtends
    <2>6. Chains!Change(new.key, new.parent, new.payload)
      BY <2>5 DEF Chains!Change
    <2>7. new.parent \in 0..Len(chain[new.key])
      BY <1>1, <2>2, <2>5
    <2> QED
      BY <1>1, <2>2, <2>6, <2>7 DEF Chains!Next
  <1> QED
    BY <1>2, <1>3 DEF Attempt, ask

(* ImplementsChains: however calls, retries, failures and crashes meet,     *)
(* every key has a chain that grows by one revision at a time.              *)
THEOREM ChainsAreImplemented == Spec => ImplementsChains
  <1>1. Init => Chains!Init
    <2> SUFFICES ASSUME Init PROVE chain = [k \in Keys |-> <<>>]
      BY DEF Chains!Init
    <2>1. \A k \in Keys : revisionsIn(rows, k) = 1..0
      BY DEF Init, revisionsIn
    <2>2. ASSUME NEW k \in Keys PROVE chainOf(rows, audit, k) = <<>>
      <3>1. /\ chainOf(rows, audit, k) \in Seq(Revisions)
            /\ Len(chainOf(rows, audit, k)) = 0
        BY <2>1, Initially, ChainIsSequence
      <3> QED
        BY <3>1, EmptySeq
    <2> QED
      BY <2>2, ChainIs
  <1>2. IInv /\ IInv' /\ [Next]_vars => [Chains!Next]_chain
    <2> SUFFICES ASSUME IInv, IInv', [Next]_vars PROVE Chains!Next \/ chain' = chain
      OBVIOUS
    <2>1. ASSUME NEW c \in Callers, Commit(c) PROVE Chains!Next
      BY <2>1, CommitExtends
    <2>2. ASSUME NEW c \in Callers, Attempt(c) PROVE Chains!Next \/ chain' = chain
      BY <2>2, AttemptExtends
    <2>3. CASE \/ \E c \in Callers, a \in Ask : Start(c, a)
               \/ \E c \in Callers : Prepare(c) \/ Insert(c) \/ Read(c) \/ Verify(c) \/ Abort(c)
               \/ UNCHANGED vars
      <3>1. rows' = rows /\ audit' = audit
        BY <2>3 DEF Start, Prepare, Insert, Read, Verify, Abort, vars
      <3> QED
        BY <3>1, ChainIs
    <2> QED
      BY <2>1, <2>2, <2>3 DEF Next
  <1> QED
    BY Initially, Inductive, <1>1, <1>2, PTL DEF Spec, ImplementsChains, Chains!Spec

-----------------------------------------------------------------------------
(* Service accounts.                                                        *)

LEMMA CredentialRows ==
    ASSUME ServiceTypeOK, NEW c \in Credentials
    PROVE  /\ credentials[c] = Absent <=> credentials[c].status = "absent"
           /\ credentials[c] # Absent => credentials[c] \in Credential
           /\ credentials[c].status \in {"absent", "issued", "revoked"}
  BY DEF ServiceTypeOK, Credential, Absent

LEMMA GrantRows ==
    ASSUME ServiceTypeOK, NEW g \in Grants
    PROVE  /\ grants[g] = Absent <=> grants[g].status = "absent"
           /\ grants[g] # Absent => grants[g] \in GrantRow
           /\ grants[g].status \in {"absent", "active", "revoked"}
  BY DEF ServiceTypeOK, GrantRow, Absent

LEMMA ServiceStart == ServiceInit => ServiceInvariant
  <1> SUFFICES ASSUME ServiceInit PROVE ServiceInvariant
    OBVIOUS
  <1>1. ServiceTypeOK
    BY ServiceAssumption DEF ServiceInit, ServiceTypeOK
  <1>2. /\ \A c \in Credentials : credentials[c] = Absent /\ credentials[c].status = "absent"
        /\ \A g \in Grants : grants[g] = Absent /\ grants[g].status = "absent"
        /\ revocations = {}
    BY DEF ServiceInit, Absent
  <1>3. RotationHandsOver
    BY <1>2 DEF RotationHandsOver
  <1>4. EveryRevocationExplained
    BY <1>2 DEF EveryRevocationExplained
  <1>5. OneActiveGrant
    BY <1>2 DEF OneActiveGrant
  <1> QED
    BY <1>1, <1>3, <1>4, <1>5 DEF ServiceInvariant

(* What a step can do to a credential and to a grant that are there.        *)
RowsGoOn ==
    /\ \A c \in Credentials : credentials[c] # Absent =>
          /\ credentials'[c] # Absent
          /\ credentials'[c].account = credentials[c].account
          /\ credentials'[c].expires = credentials[c].expires
          /\ credentials'[c].from = credentials[c].from
          /\ credentials[c].status = "revoked" => credentials'[c].status = "revoked"
    /\ \A g \in Grants : grants[g] # Absent =>
          /\ grants'[g] # Absent
          /\ grants'[g].account = grants[g].account
          /\ grants'[g].of = grants[g].of

LEMMA SameRowsGoOn ==
    ASSUME credentials' = credentials, grants' = grants PROVE RowsGoOn
  BY DEF RowsGoOn

(* A new row, and the one that it replaces.                                 *)
LEMMA WrittenDoes ==
    ASSUME ServiceTypeOK, NEW c \in Credentials, NEW from \in Credentials \cup {NoCredential},
           NEW call, call.account \in Accounts, call.expires \in 1..MaxTime,
           from \in Credentials => credentials[from] # Absent,
           written(c, call, from)
    PROVE  /\ credentials[c] = Absent /\ c # from
           /\ credentials' \in [Credentials -> Credential \cup {Absent}]
           /\ credentials'[c] = [status |-> "issued", account |-> call.account,
                                 expires |-> call.expires, from |-> from]
           /\ from \in Credentials =>
                 credentials'[from] = [credentials[from] EXCEPT !.status = "revoked"]
           /\ \A d \in Credentials \ {c, from} : credentials'[d] = credentials[d]
  <1>1. credentials[c] = Absent /\ c # from
    BY DEF written, unused
  <1>2. /\ credentials'[c] = [status |-> "issued", account |-> call.account,
                              expires |-> call.expires, from |-> from]
        /\ from \in Credentials =>
              credentials'[from] = [credentials[from] EXCEPT !.status = "revoked"]
        /\ \A d \in Credentials \ {c, from} : credentials'[d] = credentials[d]
        /\ credentials' = [d \in Credentials |-> credentials'[d]]
    BY <1>1 DEF written
  <1>3. ASSUME NEW d \in Credentials PROVE credentials'[d] \in Credential \cup {Absent}
    <2>1. CASE d = c
      BY <1>2, <2>1 DEF Credential
    <2>2. CASE d = from
      <3>1. credentials[d] \in Credential
        BY <2>2, CredentialRows
      <3> QED
        BY <1>2, <2>2, <3>1 DEF Credential
    <2>3. CASE d \notin {c, from}
      BY <1>2, <2>3 DEF ServiceTypeOK
    <2> QED
      BY <2>1, <2>2, <2>3
  <1> QED
    BY <1>1, <1>2, <1>3

(* Issue and Rotate.                                                        *)
LEMMA WrittenKeeps ==
    ASSUME ServiceInvariant, NEW c \in Credentials, NEW from \in Credentials \cup {NoCredential},
           NEW call \in Call, call.account \in Accounts, call.expires \in 1..MaxTime,
           from \in Credentials => issued(from) /\ credentials[from].account = call.account,
           written(c, call, from),
           UNCHANGED <<organization, accounts, grants, revocations, now>>, pending' \subseteq pending
    PROVE  ServiceInvariant' /\ RowsGoOn
  <1>0. ServiceTypeOK /\ RotationHandsOver /\ EveryRevocationExplained /\ OneActiveGrant
    BY DEF ServiceInvariant
  <1>1. from \in Credentials =>
           /\ credentials[from].status = "issued" /\ credentials[from] # Absent
           /\ credentials[from] \in Credential
    BY <1>0, CredentialRows DEF issued, Absent
  <1>2. /\ credentials[c] = Absent /\ c # from
        /\ credentials' \in [Credentials -> Credential \cup {Absent}]
        /\ credentials'[c] = [status |-> "issued", account |-> call.account,
                              expires |-> call.expires, from |-> from]
        /\ from \in Credentials =>
              credentials'[from] = [credentials[from] EXCEPT !.status = "revoked"]
        /\ \A d \in Credentials \ {c, from} : credentials'[d] = credentials[d]
    BY <1>0, <1>1, WrittenDoes
  <1>3. /\ credentials'[c] # Absent /\ credentials'[c].status = "issued"
        /\ credentials'[c].from = from /\ credentials'[c].account = call.account
        /\ credentials[c].status = "absent"
    BY <1>2 DEF Absent
  <1>4. from \in Credentials =>
           /\ credentials'[from].status = "revoked" /\ credentials'[from] # Absent
           /\ credentials'[from].account = credentials[from].account
           /\ credentials'[from].expires = credentials[from].expires
           /\ credentials'[from].from = credentials[from].from
    BY <1>1, <1>2 DEF Credential, Absent
  <1>5. RowsGoOn
    BY <1>1, <1>2, <1>4 DEF RowsGoOn
  <1>6. ServiceTypeOK'
    BY <1>0, <1>2 DEF ServiceTypeOK
  <1>7. RotationHandsOver'
    <2> SUFFICES ASSUME NEW d \in Credentials, credentials'[d] # Absent,
                        credentials'[d].from # NoCredential
                 PROVE  /\ credentials'[credentials'[d].from].status = "revoked"
                        /\ credentials'[credentials'[d].from].account = credentials'[d].account
                        /\ \A e \in Credentials \ {d} :
                              credentials'[e] = Absent \/ credentials'[e].from # credentials'[d].from
      BY DEF RotationHandsOver
    <2> DEFINE old == credentials'[d].from
    <2>1. CASE d = c
      <3>1. old = from /\ from \in Credentials
        BY <1>3, <2>1
      <3>2. \A e \in Credentials \ {c} : credentials'[e] = Absent \/ credentials'[e].from # from
        <4>1. ASSUME NEW e \in Credentials, credentials[e] # Absent PROVE credentials[e].from # from
          BY <1>0, <1>1, <3>1, <4>1, ServiceAssumption DEF RotationHandsOver
        <4> QED
          BY <1>1, <1>2, <1>4, <4>1
      <3> QED
        BY <1>3, <1>4, <2>1, <3>1, <3>2
    <2>2. CASE d # c
      <3>1. credentials[d] # Absent /\ credentials[d].from = old
        BY <1>1, <1>2, <1>4, <2>2
      <3>2. /\ credentials[old].status = "revoked"
            /\ credentials[old].account = credentials[d].account
            /\ \A e \in Credentials \ {d} : credentials[e] = Absent \/ credentials[e].from # old
        BY <1>0, <3>1 DEF RotationHandsOver
      <3>3. old \in Credentials
        BY <1>0, <3>1, CredentialRows DEF Credential
      <3>4. old # c /\ old # from
        BY <1>1, <1>3, <3>2
      <3>5. credentials'[old] = credentials[old] /\ credentials'[d].account = credentials[d].account
        BY <1>2, <1>4, <2>2, <3>3, <3>4
      <3>6. \A e \in Credentials \ {d} : credentials'[e] = Absent \/ credentials'[e].from # old
        BY <1>1, <1>2, <1>3, <1>4, <3>2, <3>4
      <3> HIDE DEF old
      <3> QED
        BY <3>2, <3>5, <3>6 DEF old
    <2> QED
      BY <2>1, <2>2
  <1>8. EveryRevocationExplained'
    <2>1. ASSUME NEW d \in Credentials, credentials'[d].status = "revoked"
          PROVE  d \in revocations \/ \E e \in Credentials : credentials'[e] # Absent /\ credentials'[e].from = d
      <3>1. CASE d = from
        BY <1>3, <3>1
      <3>2. CASE d # from
        <4>1. credentials[d].status = "revoked"
          BY <1>2, <1>3, <2>1, <3>2
        <4>2. d \in revocations \/ \E e \in Credentials : credentials[e] # Absent /\ credentials[e].from = d
          BY <1>0, <4>1 DEF EveryRevocationExplained
        <4> QED
          BY <1>5, <4>2 DEF RowsGoOn
      <3> QED
        BY <3>1, <3>2
    <2> QED
      BY <1>0, <2>1 DEF EveryRevocationExplained
  <1>9. OneActiveGrant'
    BY <1>0 DEF OneActiveGrant
  <1> QED
    BY <1>5, <1>6, <1>7, <1>8, <1>9 DEF ServiceInvariant

(* A new grant.                                                             *)
LEMMA GrantKeeps ==
    ASSUME ServiceInvariant, NEW call \in Call, Grant(call),
           UNCHANGED <<organization, accounts, now>>, pending' \subseteq pending
    PROVE  ServiceInvariant' /\ RowsGoOn
  <1>0. ServiceTypeOK /\ RotationHandsOver /\ EveryRevocationExplained /\ OneActiveGrant
    BY DEF ServiceInvariant
  <1>1. call.account \in Accounts /\ call.of \in Grantable
    BY DEF Grant, Call
  <1> DEFINE granted == [status |-> "active", account |-> call.account, of |-> call.of]
  <1>2. PICK g \in Grants : grants[g] = Absent /\ grants' = [grants EXCEPT ![g] = granted]
    BY DEF Grant
  <1>3. granted \in GrantRow /\ granted # Absent /\ granted.status = "active"
        /\ granted.account = call.account /\ granted.of = call.of
    BY <1>1 DEF GrantRow, Absent
  <1> HIDE DEF granted
  <1>4. grants'[g] = granted /\ \A h \in Grants \ {g} : grants'[h] = grants[h]
    BY <1>0, <1>2 DEF ServiceTypeOK
  <1>5. credentials' = credentials /\ revocations' = revocations
    BY DEF Grant
  <1>6. ServiceTypeOK'
    BY <1>0, <1>2, <1>3, <1>5 DEF ServiceTypeOK
  <1>7. RowsGoOn
    BY <1>2, <1>4, <1>5 DEF RowsGoOn
  <1>8. RotationHandsOver'
    BY <1>0, <1>5 DEF RotationHandsOver
  <1>9. EveryRevocationExplained'
    <2>1. \A h \in Grants : grants'[h].status = "revoked" <=> grants[h].status = "revoked"
      BY <1>2, <1>3, <1>4 DEF Absent
    <2> QED
      BY <1>0, <1>5, <2>1 DEF EveryRevocationExplained
  <1>10. OneActiveGrant'
    <2>1. \A h \in Grants : ~(grants[h].status = "active" /\ grants[h].account = call.account
                              /\ grants[h].of = call.of)
      BY DEF Grant, ungranted
    <2> QED
      BY <1>0, <1>3, <1>4, <2>1 DEF OneActiveGrant
  <1> QED
    BY <1>6, <1>7, <1>8, <1>9, <1>10 DEF ServiceInvariant

LEMMA RevokeCredentialKeeps ==
    ASSUME ServiceInvariant, NEW c \in Credentials, RevokeCredential(c)
    PROVE  ServiceInvariant' /\ RowsGoOn
  <1>0. ServiceTypeOK /\ RotationHandsOver /\ EveryRevocationExplained /\ OneActiveGrant
    BY DEF ServiceInvariant
  <1>1. /\ credentials[c] # Absent /\ credentials[c] \in Credential
        /\ UNCHANGED <<organization, accounts, grants, pending, now>>
        /\ revocations' = revocations \cup {c}
    BY <1>0, CredentialRows DEF RevokeCredential, audited
  <1>2. /\ credentials'[c] = [credentials[c] EXCEPT !.status = "revoked"]
        /\ \A d \in Credentials \ {c} : credentials'[d] = credentials[d]
        /\ credentials' \in [Credentials -> Credential \cup {Absent}]
    BY <1>0, <1>1 DEF RevokeCredential, ServiceTypeOK, Credential
  <1>3. /\ credentials'[c].status = "revoked" /\ credentials'[c] # Absent
        /\ credentials'[c].account = credentials[c].account
        /\ credentials'[c].expires = credentials[c].expires
        /\ credentials'[c].from = credentials[c].from
    BY <1>1, <1>2 DEF Credential, Absent
  <1>4. RowsGoOn
    BY <1>1, <1>2, <1>3 DEF RowsGoOn
  <1>5. ServiceTypeOK'
    BY <1>0, <1>1, <1>2 DEF ServiceTypeOK
  <1>6. RotationHandsOver'
    <2>1. \A d \in Credentials : /\ credentials'[d] # Absent <=> credentials[d] # Absent
                                 /\ credentials'[d] # Absent => credentials'[d].from = credentials[d].from
                                 /\ credentials'[d].account = credentials[d].account
                                 /\ credentials[d].status = "revoked" => credentials'[d].status = "revoked"
      BY <1>1, <1>2, <1>3
    <2>2. \A d \in Credentials : credentials[d] # Absent => credentials[d].from \in Credentials \cup {NoCredential}
      BY <1>0, CredentialRows DEF Credential
    <2> QED
      BY <1>0, <2>1, <2>2 DEF RotationHandsOver
  <1>7. EveryRevocationExplained'
    <2>1. ASSUME NEW d \in Credentials, credentials'[d].status = "revoked"
          PROVE  \/ d \in revocations'
                 \/ \E e \in Credentials : credentials'[e] # Absent /\ credentials'[e].from = d
      <3>1. CASE d = c
        BY <1>1, <3>1
      <3>2. CASE d # c
        <4>1. d \in revocations \/ \E e \in Credentials : credentials[e] # Absent /\ credentials[e].from = d
          BY <1>0, <1>2, <2>1, <3>2 DEF EveryRevocationExplained
        <4> QED
          BY <1>1, <1>4, <4>1 DEF RowsGoOn
      <3> QED
        BY <3>1, <3>2
    <2>2. \A g \in Grants : g \in revocations' <=> g \in revocations
      BY <1>1, ServiceAssumption
    <2> QED
      BY <1>0, <1>1, <2>1, <2>2 DEF EveryRevocationExplained
  <1>8. OneActiveGrant'
    BY <1>0, <1>1 DEF OneActiveGrant
  <1> QED
    BY <1>4, <1>5, <1>6, <1>7, <1>8 DEF ServiceInvariant

LEMMA RevokeGrantKeeps ==
    ASSUME ServiceInvariant, NEW g \in Grants, RevokeGrant(g)
    PROVE  ServiceInvariant' /\ RowsGoOn
  <1>0. ServiceTypeOK /\ RotationHandsOver /\ EveryRevocationExplained /\ OneActiveGrant
    BY DEF ServiceInvariant
  <1>1. /\ grants[g] # Absent /\ grants[g] \in GrantRow
        /\ UNCHANGED <<organization, accounts, credentials, pending, now>>
        /\ revocations' = revocations \cup {g}
    BY <1>0, GrantRows DEF RevokeGrant, audited
  <1>2. /\ grants'[g] = [grants[g] EXCEPT !.status = "revoked"]
        /\ \A h \in Grants \ {g} : grants'[h] = grants[h]
        /\ grants' \in [Grants -> GrantRow \cup {Absent}]
    BY <1>0, <1>1 DEF RevokeGrant, ServiceTypeOK, GrantRow
  <1>3. /\ grants'[g].status = "revoked" /\ grants'[g] # Absent
        /\ grants'[g].account = grants[g].account
        /\ grants'[g].of = grants[g].of
    BY <1>1, <1>2 DEF GrantRow, Absent
  <1>4. RowsGoOn
    BY <1>1, <1>2, <1>3 DEF RowsGoOn
  <1>5. ServiceTypeOK'
    BY <1>0, <1>1, <1>2 DEF ServiceTypeOK
  <1>6. RotationHandsOver'
    BY <1>0, <1>1 DEF RotationHandsOver
  <1>7. OneActiveGrant'
    <2>1. \A h \in Grants : grants'[h].status = "active" =>
             /\ grants[h].status = "active" /\ grants'[h].account = grants[h].account
             /\ grants'[h].of = grants[h].of
      BY <1>2, <1>3
    <2> QED
      BY <1>0, <2>1 DEF OneActiveGrant
  <1>8. EveryRevocationExplained'
    <2>1. \A h \in Grants : grants'[h].status = "revoked" <=> h \in revocations'
      BY <1>0, <1>1, <1>2, <1>3 DEF EveryRevocationExplained
    <2>2. ASSUME NEW d \in Credentials, credentials[d].status = "revoked"
          PROVE  d \in revocations' \/ \E e \in Credentials : credentials[e] # Absent /\ credentials[e].from = d
      BY <1>0, <1>1, <2>2 DEF EveryRevocationExplained
    <2> QED
      BY <1>1, <2>1, <2>2 DEF EveryRevocationExplained
  <1> QED
    BY <1>4, <1>5, <1>6, <1>7, <1>8 DEF ServiceInvariant

LEMMA SameRowsKeep ==
    ASSUME ServiceInvariant, UNCHANGED <<credentials, grants, revocations>>,
           organization' \in {"active", "disabled"},
           accounts' \in [Accounts -> {"active", "disabled"}],
           pending' \subseteq Call, now' \in 0..MaxTime
    PROVE  ServiceInvariant' /\ RowsGoOn
  <1>1. RowsGoOn
    BY SameRowsGoOn
  <1>2. ServiceTypeOK'
    BY DEF ServiceInvariant, ServiceTypeOK
  <1>3. RotationHandsOver' /\ EveryRevocationExplained' /\ OneActiveGrant'
    BY DEF ServiceInvariant, RotationHandsOver, EveryRevocationExplained, OneActiveGrant
  <1> QED
    BY <1>1, <1>2, <1>3 DEF ServiceInvariant

LEMMA CarryOutKeeps ==
    ASSUME ServiceInvariant, NEW call \in pending, CarryOut(call)
    PROVE  ServiceInvariant' /\ RowsGoOn
  <1>1. /\ call \in Call /\ UNCHANGED <<organization, accounts, now>>
        /\ pending' \subseteq pending
    BY DEF ServiceInvariant, ServiceTypeOK, CarryOut
  <1>2. CASE Issue(call)
    <2>1. call.account \in Accounts /\ call.expires \in 1..MaxTime
      BY <1>1, <1>2 DEF Issue, Call
    <2>2. PICK c \in Credentials : written(c, call, NoCredential)
      BY <1>2 DEF Issue
    <2>3. UNCHANGED <<grants, revocations>>
      BY <1>2 DEF Issue
    <2>4. NoCredential \notin Credentials
      BY ServiceAssumption
    <2> QED
      BY <1>1, <2>1, <2>2, <2>3, <2>4, WrittenKeeps
  <1>3. CASE Rotate(call)
    <2>1. call.account \in Accounts /\ call.expires \in 1..MaxTime /\ call.old \in Credentials
      BY <1>1, <1>3 DEF Rotate, Call
    <2>2. issued(call.old) /\ credentials[call.old].account = call.account
      BY <1>3 DEF Rotate, current
    <2>3. PICK c \in Credentials : written(c, call, call.old)
      BY <1>3 DEF Rotate
    <2>4. UNCHANGED <<grants, revocations>>
      BY <1>3 DEF Rotate
    <2> QED
      BY <1>1, <2>1, <2>2, <2>3, <2>4, WrittenKeeps
  <1>4. CASE Grant(call)
    BY <1>1, <1>4, GrantKeeps
  <1> QED
    BY <1>2, <1>3, <1>4 DEF CarryOut

LEMMA ServiceKeeps ==
    ASSUME ServiceInvariant, [ServiceStep]_serviceVars PROVE ServiceInvariant' /\ RowsGoOn
  <1>0. /\ organization \in {"active", "disabled"}
        /\ accounts \in [Accounts -> {"active", "disabled"}]
        /\ pending \subseteq Call /\ now \in 0..MaxTime
    BY DEF ServiceInvariant, ServiceTypeOK
  <1>1. ASSUME NEW call \in Call, Request(call) \/ RequestGrant(call)
        PROVE  ServiceInvariant' /\ RowsGoOn
    BY <1>0, <1>1, SameRowsKeep DEF Request, RequestGrant
  <1>2. ASSUME NEW call \in pending, Fail(call) PROVE ServiceInvariant' /\ RowsGoOn
    BY <1>0, <1>2, SameRowsKeep DEF Fail
  <1>3. ASSUME NEW a \in Accounts, DisableServiceAccount(a) PROVE ServiceInvariant' /\ RowsGoOn
    BY <1>0, <1>3, SameRowsKeep DEF DisableServiceAccount
  <1>4. CASE DisableOrganization
    BY <1>0, <1>4, SameRowsKeep DEF DisableOrganization
  <1>5. CASE Tick
    <2>1. now' \in 0..MaxTime
      BY <1>0, <1>5, ServiceAssumption DEF Tick
    <2> QED
      BY <1>0, <1>5, <2>1, SameRowsKeep DEF Tick
  <1>6. CASE UNCHANGED serviceVars
    BY <1>0, <1>6, SameRowsKeep DEF serviceVars
  <1> QED
    BY <1>1, <1>2, <1>3, <1>4, <1>5, <1>6, CarryOutKeeps, RevokeCredentialKeeps, RevokeGrantKeeps
       DEF ServiceStep

-----------------------------------------------------------------------------
(* Grants and the tables they come from.                                    *)

LEMMA PartOfPermission ==
    ASSUME NEW op \in Operations, NEW part \in {op} \cup requires[op]
    PROVE  /\ permissionOf[part] \in operationPermissions(op)
           /\ operationOf(op, permissionOf[part]) = part
           /\ part \in Operations /\ requiredScope[part] = requiredScope[op]
  <1>1. \A x \in {op} \cup requires[op] : permissionOf[x] = permissionOf[part] => x = part
    BY RequestsAssumption
  <1>2. operationOf(op, permissionOf[part]) = part
    BY <1>1 DEF operationOf
  <1> QED
    BY <1>2, RequestsAssumption DEF isDictionary, operationPermissions

LEMMA PermissionHasPart ==
    ASSUME NEW op \in Operations, NEW permission \in operationPermissions(op)
    PROVE  \E part \in {op} \cup requires[op] :
              permission = permissionOf[part] /\ operationOf(op, permission) = part
  BY PartOfPermission DEF operationPermissions

(* Grants of operations on the organization are configured, the others are  *)
(* rows; so each kind of scope belongs to one kind of operation.            *)
LEMMA ScopesApart ==
    ASSUME ServiceTypeOK, NEW a \in Accounts, NEW op \in Operations
    PROVE  /\ configured(a, op) => requiredScope[op] = "organization"
           /\ requiredScope[op] = "organization" => grantedProjects(a, op) = {}
  <1>1. configured(a, op) => requiredScope[op] = "organization"
    BY RequestsAssumption DEF configured
  <1>2. ASSUME NEW p \in grantedProjects(a, op) PROVE requiredScope[op] # "organization"
    <2>1. PICK g \in Grants : grants[g].status = "active" /\ grants[g].of = [operation |-> op, project |-> p]
      BY <1>2 DEF grantedProjects
    <2>2. [operation |-> op, project |-> p] \in Grantable
      BY <2>1 DEF ServiceTypeOK, GrantRow, Absent
    <2> QED
      BY <2>2, RequestsAssumption
  <1> QED
    BY <1>1, <1>2

LEMMA ResolvedIsVerified ==
    ASSUME ServiceTypeOK, NEW a \in Accounts, NEW op \in Operations, NEW g \in resolvable(a, op)
    PROVE  verified(a, op, g)
  <1>1. g \in ServiceGrant /\ g.permission \in operationPermissions(op)
    BY DEF resolvable
  <1>2. PICK part \in {op} \cup requires[op] :
           g.permission = permissionOf[part] /\ operationOf(op, g.permission) = part
    BY <1>1, PermissionHasPart
  <1>3. part \in Operations /\ requiredScope[part] = requiredScope[op]
    BY PartOfPermission
  <1>4. CASE g.scope = Organization /\ configured(a, part)
    BY <1>2, <1>3, <1>4, ScopesApart DEF verified
  <1>5. CASE \E p \in grantedProjects(a, part) : g.scope = Project(p)
    <2>1. PICK p \in grantedProjects(a, part) : g.scope = Project(p)
      BY <1>5
    <2>2. requiredScope[op] # "organization"
      BY <1>3, <2>1, ScopesApart
    <2>3. g.scope.type = "project" /\ g.scope.id = p
      BY <2>1 DEF Project
    <2> QED
      BY <1>2, <2>1, <2>2, <2>3 DEF verified
  <1> QED
    BY <1>2, <1>4, <1>5 DEF resolvable

(* The scopes in which a grant counts for a place.                          *)
scopesOf(place) == {Organization} \cup {Project(p) : p \in place}

(* The grants stand for nothing that is not among the rights.               *)
covers(gs, rs, op) ==
    \A g \in gs, part \in partsOf(op), place \in placesOf(op) :
        g.permission = permissionOf[part] /\ g.scope \in scopesOf(place) => <<part, place>> \in rs

(* What a grant stands for when it is verified, the tables allow then.      *)
LEMMA VerifiedIsRight ==
    ASSUME NEW a, NEW op \in Operations, NEW part \in partsOf(op), NEW place \in placesOf(op), NEW g,
           verified(a, op, g), g.permission = permissionOf[part], g.scope \in scopesOf(place)
    PROVE  <<part, place>> \in rights(a, op)
  <1> DEFINE x == <<part, place>>
  <1>1. operationOf(op, g.permission) = part
    BY PartOfPermission DEF partsOf
  <1>2. CASE requiredScope[op] = "organization"
    <2>1. configured(a, part) /\ place = {}
      BY <1>1, <1>2 DEF verified, placesOf
    <2>2. /\ organization = "active" /\ accounts[a] = "active"
          /\ place = {} /\ [account |-> a, operation |-> part] \in Configured
      BY <2>1 DEF configured, activeAccount
    <2>3. x \in partsOf(op) \X placesOf(op) /\ x[1] = part /\ x[2] = place
      OBVIOUS
    <2> HIDE DEF x
    <2>4. x \in rights(a, op)
      BY <2>2, <2>3 DEF rights
    <2> QED
      BY <2>4 DEF x
  <1>3. CASE requiredScope[op] # "organization"
    <2>1. PICK p \in Owned : place = {p}
      BY <1>3 DEF placesOf
    <2>2. g.scope.type = "project" /\ g.scope.id \in grantedProjects(a, part)
      BY <1>1, <1>3 DEF verified
    <2>3. g.scope = Project(p)
      BY <2>1, <2>2 DEF scopesOf, Organization
    <2>4. p \in grantedProjects(a, part)
      BY <2>2, <2>3 DEF Project
    <2>5. PICK h \in Grants : /\ grants[h].status = "active" /\ grants[h].account = a
                              /\ grants[h].of = [operation |-> part, project |-> p]
      BY <2>4 DEF grantedProjects
    <2>6. /\ organization = "active" /\ accounts[a] = "active"
          /\ grants[h].of.operation = part /\ grants[h].of.project \in place
      BY <2>1, <2>4, <2>5 DEF grantedProjects, activeAccount
    <2>7. x \in partsOf(op) \X placesOf(op) /\ x[1] = part /\ x[2] = place
      OBVIOUS
    <2> HIDE DEF x
    <2>8. x \in rights(a, op)
      BY <2>5, <2>6, <2>7 DEF rights
    <2> QED
      BY <2>8 DEF x
  <1> QED
    BY <1>2, <1>3

(* What grants allow, the rights they stand for allow.                      *)
LEMMA CoveringAllows ==
    ASSUME NEW op, NEW gs, NEW rs, covers(gs, rs, op), NEW place \in placesOf(op),
           permissionsAllow(gs, op, scopesOf(place))
    PROVE  allParts(rs, op, place)
  <1>1. ASSUME NEW part \in partsOf(op) PROVE <<part, place>> \in rs
    <2>1. permissionOf[part] \in operationPermissions(op)
      BY DEF operationPermissions, partsOf
    <2>2. PICK g \in gs : g.permission = permissionOf[part] /\ g.scope \in scopesOf(place)
      BY <2>1 DEF permissionsAllow
    <2> QED
      BY <2>2 DEF covers
  <1> QED
    BY <1>1 DEF allParts

(* What the tables allow, the grants one would resolve now allow.           *)
LEMMA RightsResolve ==
    ASSUME ServiceTypeOK, NEW a \in Accounts, NEW op \in Operations, NEW place,
           allParts(rights(a, op), op, place)
    PROVE  place \in placesOf(op) /\ permissionsAllow(resolvable(a, op), op, scopesOf(place))
  <1>1. place \in placesOf(op)
    BY DEF allParts
  <1>2. ASSUME NEW permission \in operationPermissions(op)
        PROVE  \E g \in resolvable(a, op) : g.permission = permission /\ g.scope \in scopesOf(place)
    <2>1. PICK part \in {op} \cup requires[op] :
             permission = permissionOf[part] /\ operationOf(op, permission) = part
      BY PermissionHasPart
    <2>2. part \in Operations
      BY PartOfPermission
    <2> DEFINE x == <<part, place>>
    <2>3. x \in rights(a, op) /\ x[1] = part /\ x[2] = place
      BY DEF allParts, partsOf
    <2> HIDE DEF x
    <2>4. CASE place = {} /\ [account |-> a, operation |-> part] \in Configured
      <3> DEFINE g == [permission |-> permission, role |-> a, scope |-> Organization]
      <3>1. configured(a, part)
        BY <2>3, <2>4 DEF rights, configured, activeAccount
      <3>2. g \in ServiceGrant
        BY <2>1, <2>2 DEF ServiceGrant
      <3>3. g.permission = permission /\ g.role = a /\ g.scope = Organization
        OBVIOUS
      <3> HIDE DEF g
      <3>4. g \in resolvable(a, op)
        BY <2>1, <3>1, <3>2, <3>3 DEF resolvable
      <3> QED
        BY <3>3, <3>4 DEF scopesOf
    <2>5. ASSUME NEW h \in Grants, grants[h].status = "active", grants[h].account = a,
                 grants[h].of.operation = part, grants[h].of.project \in place
          PROVE  \E g \in resolvable(a, op) : g.permission = permission /\ g.scope \in scopesOf(place)
      <3> DEFINE p == grants[h].of.project
                 g == [permission |-> permission, role |-> a, scope |-> Project(p)]
      <3>1. grants[h].of \in [operation : Operations, project : Owned]
        <4>1. grants[h].of \in Grantable
          BY <2>5 DEF ServiceTypeOK, GrantRow, Absent
        <4> QED
          BY <4>1, RequestsAssumption
      <3>2. p \in Owned /\ grants[h].of = [operation |-> part, project |-> p]
        BY <2>5, <3>1
      <3>3. p \in grantedProjects(a, part)
        BY <2>3, <2>5, <3>2 DEF rights, grantedProjects, activeAccount
      <3>4. Project(p) \in scopesOf(place)
        BY <2>5 DEF scopesOf
      <3> HIDE DEF p
      <3>5. g \in ServiceGrant
        BY <2>1, <2>2, <3>2 DEF ServiceGrant
      <3>6. g.permission = permission /\ g.role = a /\ g.scope = Project(p)
        OBVIOUS
      <3> HIDE DEF g
      <3>7. g \in resolvable(a, op)
        BY <2>1, <3>3, <3>5, <3>6 DEF resolvable
      <3> QED
        BY <3>4, <3>6, <3>7
    <2> QED
      BY <2>3, <2>4, <2>5 DEF rights
  <1> QED
    BY <1>1, <1>2 DEF permissionsAllow

-----------------------------------------------------------------------------
(* The guard.                                                               *)

(* The three ways in which an operation is bound to projects.               *)
LEMMA WaysOfScope ==
    ASSUME NEW op \in Operations, NEW t, NEW gs
    PROVE  /\ requiredScope[op] = "organization" =>
                 /\ ~listsProjects(op, t)
                 /\ allows(gs, op, t) <=> permissionsAllow(gs, op, scopesOf({}))
                 /\ visibleProjects(gs, op, t) = Owned
           /\ requiredScope[op] # "organization" /\ listsProjects(op, t) =>
                 /\ allows(gs, op, t) <=> (t.type = "project" =>
                       t.id \in Owned /\ permissionsAllow(gs, op, scopesOf({t.id})))
                 /\ visibleProjects(gs, op, t) =
                       {p \in Owned : permissionsAllow(gs, op, scopesOf({p}))}
           /\ requiredScope[op] # "organization" /\ ~listsProjects(op, t) =>
                 /\ allows(gs, op, t) <=>
                       /\ projectOfTarget(t) \in Owned
                       /\ permissionsAllow(gs, op, scopesOf({projectOfTarget(t)}))
                 /\ visibleProjects(gs, op, t) = {projectOfTarget(t)}
  <1>1. requiredScope[op] = "organization" => ~listsProjects(op, t)
    BY RequestsAssumption DEF isDictionary, listsProjects
  <1>2. scopesOf({}) = {Organization} /\ \A p : scopesOf({p}) = {Organization, Project(p)}
    BY DEF scopesOf
  <1>3. /\ allowsOrganization(gs, op) <=> permissionsAllow(gs, op, scopesOf({}))
        /\ \A p : allowsProject(gs, op, p) <=> permissionsAllow(gs, op, scopesOf({p}))
    BY <1>2 DEF allowsOrganization, allowsProject
  <1>4. allowedProjects(gs, op) = {p \in Owned : permissionsAllow(gs, op, scopesOf({p}))}
    BY <1>3 DEF allowedProjects
  <1> QED
    BY <1>1, <1>3, <1>4 DEF allows, visibleProjects, owned

LEMMA Places ==
    ASSUME NEW op
    PROVE  /\ requiredScope[op] = "organization" => {} \in placesOf(op)
           /\ requiredScope[op] # "organization" => \A p : {p} \in placesOf(op) <=> p \in Owned
  <1>1. \A p, q : {p} = {q} => p = q
    OBVIOUS
  <1> QED
    BY <1>1 DEF placesOf

(* What grants let through, and the projects it is shown, the rights behind *)
(* them justify.                                                            *)
LEMMA AllowedIsJustified ==
    ASSUME NEW op \in Operations, NEW t, NEW gs, NEW rs, covers(gs, rs, op), allows(gs, op, t)
    PROVE  /\ justified(rs, op, t, visibleProjects(gs, op, t))
           /\ visibleProjects(gs, op, t) \subseteq Owned
  <1> DEFINE allowed(place) == permissionsAllow(gs, op, scopesOf(place))
  <1>1. \A place \in placesOf(op) : allowed(place) => allParts(rs, op, place)
    BY CoveringAllows
  <1>2. ASSUME requiredScope[op] # "organization", NEW p \in Owned, allowed({p})
        PROVE  allParts(rs, op, {p})
    BY <1>1, <1>2, Places
  <1>3. CASE requiredScope[op] = "organization"
    <2>1. allowed({}) /\ ~listsProjects(op, t) /\ visibleProjects(gs, op, t) = Owned
      BY <1>3, WaysOfScope
    <2>2. allParts(rs, op, {})
      BY <1>1, <1>3, <2>1, Places
    <2> HIDE DEF allowed
    <2> QED
      BY <1>3, <2>1, <2>2 DEF justified, entitling
  <1>4. CASE requiredScope[op] # "organization" /\ listsProjects(op, t)
    <2>1. /\ t.type = "project" => t.id \in Owned /\ allowed({t.id})
          /\ visibleProjects(gs, op, t) = {p \in Owned : allowed({p})}
      BY <1>4, WaysOfScope
    <2> HIDE DEF allowed
    <2>2. entitling(rs, op, t)
      BY <1>2, <1>4, <2>1 DEF entitling
    <2> QED
      BY <1>2, <1>4, <2>1, <2>2 DEF justified
  <1>5. CASE requiredScope[op] # "organization" /\ ~listsProjects(op, t)
    <2> DEFINE p == projectOfTarget(t)
    <2>1. p \in Owned /\ allowed({p}) /\ visibleProjects(gs, op, t) = {p}
      BY <1>5, WaysOfScope
    <2>2. entitling(rs, op, t) <=> allParts(rs, op, {p})
      BY <1>5 DEF entitling
    <2> HIDE DEF allowed, p
    <2>3. allParts(rs, op, {p})
      BY <1>2, <1>5, <2>1
    <2> QED
      BY <2>1, <2>2, <2>3 DEF justified
  <1> QED
    BY <1>3, <1>4, <1>5

LEMMA AdmissibleIsJustified ==
    ASSUME NEW r \in RequestInHand, admissible(r)
    PROVE  justified(rights(r.account, r.op), r.op, r.target,
                     visibleProjects(r.grants, r.op, r.target))
  <1>1. r.op \in Operations
    BY DEF RequestInHand
  <1>2. covers(r.grants, rights(r.account, r.op), r.op)
    BY <1>1, VerifiedIsRight DEF admissible, covers
  <1> QED
    BY <1>1, <1>2, AllowedIsJustified DEF admissible

LEMMA EntitledIsAdmissible ==
    ASSUME ServiceTypeOK, NEW r \in RequestInHand, r.grants # {},
           r.grants = resolvable(r.account, r.op), entitled(r)
    PROVE  admissible(r)
  <1> DEFINE op == r.op
             t == r.target
             gs == r.grants
             rs == rights(r.account, op)
  <1>1. r.account \in Accounts /\ op \in Operations
    BY DEF RequestInHand
  <1>2. \A g \in gs : verified(r.account, op, g)
    BY <1>1, ResolvedIsVerified
  <1>3. ASSUME NEW place, allParts(rs, op, place)
        PROVE  place \in placesOf(op) /\ permissionsAllow(gs, op, scopesOf(place))
    BY <1>1, <1>3, RightsResolve
  <1>4. ASSUME allows(gs, op, t) PROVE admissible(r)
    BY <1>2, <1>4 DEF admissible
  <1>5. entitling(rs, op, t)
    BY DEF entitled
  <1> HIDE DEF rs, gs
  <1>6. CASE requiredScope[op] = "organization"
    <2>1. ~listsProjects(op, t)
      BY <1>1, <1>6, WaysOfScope
    <2>2. allParts(rs, op, {})
      BY <1>5, <1>6, <2>1 DEF entitling
    <2> QED
      BY <1>1, <1>3, <1>4, <1>6, <2>2, WaysOfScope
  <1>7. ASSUME requiredScope[op] # "organization", NEW p, allParts(rs, op, {p})
        PROVE  p \in Owned /\ permissionsAllow(gs, op, scopesOf({p}))
    BY <1>3, <1>7, Places
  <1>8. CASE requiredScope[op] # "organization" /\ listsProjects(op, t)
    <2>1. t.type = "project" => allParts(rs, op, {t.id})
      BY <1>5, <1>8 DEF entitling
    <2> QED
      BY <1>1, <1>4, <1>7, <1>8, <2>1, WaysOfScope
  <1>9. CASE requiredScope[op] # "organization" /\ ~listsProjects(op, t)
    <2>1. allParts(rs, op, {projectOfTarget(t)})
      BY <1>5, <1>9 DEF entitling
    <2> QED
      BY <1>1, <1>4, <1>7, <1>9, <2>1, WaysOfScope
  <1> QED
    BY <1>6, <1>8, <1>9

LEMMA ListedAsInTables ==
    ASSUME ServiceTypeOK, NEW r \in RequestInHand, admissible(r),
           r.grants = resolvable(r.account, r.op), listsProjects(r.op, r.target)
    PROVE  visibleProjects(r.grants, r.op, r.target) = {p \in Owned : mayDo(r.account, r.op, p)}
  <1>1. r.account \in Accounts /\ r.op \in Operations
    BY DEF RequestInHand
  <1>2. requiredScope[r.op] # "organization"
    BY <1>1, WaysOfScope
  <1>3. ASSUME NEW p
        PROVE  p \in visibleProjects(r.grants, r.op, r.target)
                  <=> p \in Owned /\ permissionsAllow(r.grants, r.op, scopesOf({p}))
    <2>1. visibleProjects(r.grants, r.op, r.target) = allowedProjects(r.grants, r.op)
      BY <1>2 DEF visibleProjects
    <2>2. scopesOf({p}) = {Organization, Project(p)}
      BY DEF scopesOf
    <2> QED
      BY <2>1, <2>2 DEF allowedProjects, allowsProject
  <1>4. \A p \in visibleProjects(r.grants, r.op, r.target) : mayDo(r.account, r.op, p)
    <2>1. justified(rights(r.account, r.op), r.op, r.target,
                    visibleProjects(r.grants, r.op, r.target))
      BY AdmissibleIsJustified
    <2> QED
      BY <1>2, <2>1 DEF justified, mayDo
  <1>5. ASSUME NEW p \in Owned, mayDo(r.account, r.op, p)
        PROVE  permissionsAllow(r.grants, r.op, scopesOf({p}))
    BY <1>1, <1>5, RightsResolve DEF mayDo
  <1> QED
    BY <1>3, <1>4, <1>5

-----------------------------------------------------------------------------
(* Requests.                                                                *)

(* A request acts with a credential that was issued; once resolved it has a *)
(* grant of every part; and what the guard has verified of it was right     *)
(* when it asked.                                                           *)
RequestsInOrder ==
    \A r \in requests :
        /\ credentials[r.credential] # Absent
        /\ r.stage = "resolved" =>
              \A permission \in operationPermissions(r.op) :
                 \E g \in r.grants : g.permission = permission
        /\ r.stage # "admitted" => covers(r.grants \ r.unverified, r.had, r.op)

RequestsIInv == RequestsTypeOK /\ ServiceInvariant /\ RequestsInOrder

LEMMA RequestsStart == RequestsInit => RequestsIInv
  BY ServiceStart DEF RequestsInit, RequestsIInv, RequestsTypeOK, RequestsInOrder, ServiceInvariant

LEMMA ResolvedAgrees ==
    ASSUME RequestsIInv PROVE GuardAgreesWithTables
  <1> SUFFICES ASSUME NEW r \in requests, r.stage = "resolved",
                      r.grants = resolvable(r.account, r.op)
               PROVE  /\ admissible(r) <=> entitled(r)
                      /\ admissible(r) /\ listsProjects(r.op, r.target) =>
                            visibleProjects(r.grants, r.op, r.target)
                              = {p \in Owned : mayDo(r.account, r.op, p)}
    BY DEF GuardAgreesWithTables
  <1>1. ServiceTypeOK /\ r \in RequestInHand
    BY DEF RequestsIInv, RequestsTypeOK
  <1>2. r.grants # {}
    <2>1. permissionOf[r.op] \in operationPermissions(r.op)
      BY DEF operationPermissions
    <2> QED
      BY <2>1 DEF RequestsIInv, RequestsInOrder
  <1>3. admissible(r) => entitled(r)
    BY <1>1, AdmissibleIsJustified DEF entitled, justified
  <1> QED
    BY <1>1, <1>2, <1>3, EntitledIsAdmissible, ListedAsInTables

(* A step of the tables while requests are in hand.                         *)
LEMMA TablesMoveKeeps ==
    ASSUME RequestsIInv, [ServiceStep]_serviceVars, UNCHANGED requests PROVE RequestsIInv'
  <1>1. ServiceInvariant' /\ RowsGoOn
    BY ServiceKeeps DEF RequestsIInv
  <1>2. \A r \in requests : r.credential \in Credentials
    BY DEF RequestsIInv, RequestsTypeOK, RequestInHand
  <1>3. ASSUME NEW r \in requests
        PROVE  credentials'[r.credential] # Absent /\ credentials'[r.credential].account = r.account
    BY <1>1, <1>2 DEF RowsGoOn, RequestsIInv, RequestsTypeOK, RequestsInOrder
  <1>4. RequestsTypeOK'
    BY <1>1, <1>3 DEF RequestsIInv, RequestsTypeOK, ServiceInvariant
  <1>5. RequestsInOrder'
    BY <1>3 DEF RequestsIInv, RequestsInOrder
  <1> QED
    BY <1>1, <1>4, <1>5 DEF RequestsIInv

(* What holds of a request whatever the tables of grants say.               *)
requestInOrder(s) ==
    /\ s \in RequestInHand
    /\ credentials[s.credential] # Absent /\ credentials[s.credential].account = s.account
    /\ s.stage = "resolved" =>
          \A permission \in operationPermissions(s.op) : \E g \in s.grants : g.permission = permission
    /\ s.stage # "admitted" => covers(s.grants \ s.unverified, s.had, s.op)

(* A request that comes, goes on or ends.                                   *)
LEMMA RequestsMoveKeeps ==
    ASSUME RequestsIInv, UNCHANGED serviceVars,
           \A s \in requests' \ requests : requestInOrder(s)
    PROVE  RequestsIInv'
  <1>1. ServiceInvariant' /\ ServiceTypeOK'
    BY DEF RequestsIInv, serviceVars, ServiceInvariant, ServiceTypeOK, RotationHandsOver,
           EveryRevocationExplained, OneActiveGrant
  <1>2. credentials' = credentials
    BY DEF serviceVars
  <1>3. RequestsTypeOK'
    BY <1>1, <1>2 DEF RequestsIInv, RequestsTypeOK, requestInOrder
  <1>4. RequestsInOrder'
    BY <1>2 DEF RequestsIInv, RequestsInOrder, requestInOrder
  <1> QED
    BY <1>1, <1>3, <1>4 DEF RequestsIInv

LEMMA AuthenticateKeeps ==
    ASSUME RequestsIInv, NEW c \in Credentials, NEW op \in Operations, NEW t \in targets(op),
           Authenticate(c, op, t)
    PROVE  /\ RequestsIInv'
           /\ \A s \in requests' \ requests : s.stage = "authenticated"
  <1> DEFINE all == operationPermissions(op) \X Tables
             s(a) == [credential |-> c, account |-> a, op |-> op, target |-> t,
                      stage |-> "authenticated", unasked |-> all, grants |-> {},
                      unverified |-> {}, projects |-> {}, had |-> {}]
  <1>1. PICK a \in accountOf(c) : requests' = requests \cup {s(a)}
    BY DEF Authenticate
  <1>2. /\ credentials[c] # Absent /\ credentials[c].account \in Accounts
        /\ a = credentials[c].account
    BY CredentialRows DEF Authenticate, current, issued, RequestsIInv, RequestsTypeOK, Credential,
       Absent, accountOf
  <1>3. t \in Targets
    BY DEF targets
  <1>4. all \subseteq {permissionOf[o] : o \in Operations} \X Tables
    <2>1. operationPermissions(op) \subseteq {permissionOf[o] : o \in Operations}
      BY RequestsAssumption DEF operationPermissions, isDictionary
    <2> QED
      BY <2>1
  <1> HIDE DEF all
  <1>5. /\ s(a) \in RequestInHand
        /\ s(a).credential = c /\ s(a).account = a /\ s(a).stage = "authenticated"
        /\ s(a).grants \ s(a).unverified = {}
    BY <1>2, <1>3, <1>4 DEF RequestInHand
  <1> HIDE DEF s
  <1>6. requestInOrder(s(a))
    BY <1>2, <1>5 DEF requestInOrder, covers
  <1>7. UNCHANGED serviceVars
    BY DEF Authenticate
  <1> QED
    BY <1>1, <1>5, <1>6, <1>7, RequestsMoveKeeps

LEMMA QueryKeeps ==
    ASSUME RequestsIInv, NEW r \in requests, NEW permission, NEW table, Query(r, permission, table)
    PROVE  /\ RequestsIInv'
           /\ \A s \in requests' \ requests : s.stage = "authenticated"
  <1> DEFINE more == rowsOf(r.account, r.op, permission, table)
             unasked == r.unasked \ {<<permission, table>>}
             gs == r.grants \cup more
             open == r.unverified \cup more
             s == [r EXCEPT !.unasked = unasked, !.grants = gs, !.unverified = open]
  <1>1. r.stage = "authenticated" /\ requests' = (requests \ {r}) \cup {s} /\ UNCHANGED serviceVars
    BY DEF Query
  <1>2. requestInOrder(r) /\ r \in RequestInHand
    BY DEF RequestsIInv, RequestsTypeOK, RequestsInOrder, requestInOrder
  <1>3. /\ gs \subseteq ServiceGrant /\ open \subseteq ServiceGrant
        /\ unasked \subseteq {permissionOf[op] : op \in Operations} \X Tables
    BY <1>2 DEF rowsOf, resolvable, RequestInHand
  <1>4. gs \ open \subseteq r.grants \ r.unverified
    OBVIOUS
  <1>5. covers(gs \ open, r.had, r.op)
    BY <1>1, <1>2, <1>4 DEF requestInOrder, covers
  <1> HIDE DEF gs, open, unasked
  <1>6. /\ s \in RequestInHand /\ s.credential = r.credential /\ s.account = r.account
        /\ s.stage = "authenticated" /\ s.op = r.op /\ s.had = r.had
        /\ s.grants = gs /\ s.unverified = open
    BY <1>1, <1>2, <1>3 DEF RequestInHand
  <1> HIDE DEF s
  <1>7. requestInOrder(s)
    BY <1>2, <1>5, <1>6 DEF requestInOrder
  <1> QED
    BY <1>1, <1>6, <1>7, RequestsMoveKeeps

LEMMA AuthorizeKeeps ==
    ASSUME RequestsIInv, NEW r \in requests, Authorize(r)
    PROVE  /\ RequestsIInv'
           /\ \A s \in requests' \ requests : s.stage = "resolved"
  <1> DEFINE s == [r EXCEPT !.stage = "resolved"]
             full == \A permission \in operationPermissions(r.op) :
                        \E g \in r.grants : g.permission = permission
  <1>1. /\ r.stage = "authenticated" /\ UNCHANGED serviceVars
        /\ requests' = (requests \ {r}) \cup (IF full THEN {s} ELSE {})
    BY DEF Authorize
  <1>2. requestInOrder(r) /\ r \in RequestInHand
    BY DEF RequestsIInv, RequestsTypeOK, RequestsInOrder, requestInOrder
  <1>3. /\ s \in RequestInHand /\ s.credential = r.credential /\ s.account = r.account
        /\ s.stage = "resolved" /\ s.op = r.op /\ s.had = r.had
        /\ s.grants = r.grants /\ s.unverified = r.unverified
    BY <1>2 DEF RequestInHand
  <1> HIDE DEF s
  <1>4. full => requestInOrder(s)
    BY <1>1, <1>2, <1>3 DEF requestInOrder
  <1> QED
    BY <1>1, <1>3, <1>4, RequestsMoveKeeps

LEMMA VerifyGrantKeeps ==
    ASSUME RequestsIInv, NEW r \in requests, NEW g \in r.unverified, VerifyGrant(r, g)
    PROVE  /\ RequestsIInv'
           /\ \A s \in requests' \ requests : s.stage = "verifying"
  <1> DEFINE rs == rights(r.account, r.op)
             open == r.unverified \ {g}
             all == r.had \cup rs
             s == [r EXCEPT !.stage = "verifying", !.unverified = open, !.had = all]
             right == verified(r.account, r.op, g)
  <1>1. /\ r.stage # "admitted" /\ UNCHANGED serviceVars
        /\ requests' = (requests \ {r}) \cup (IF right THEN {s} ELSE {})
    BY DEF VerifyGrant
  <1>2. requestInOrder(r) /\ r \in RequestInHand /\ r.op \in Operations
    BY DEF RequestsIInv, RequestsTypeOK, RequestsInOrder, requestInOrder, RequestInHand
  <1>3. rs \subseteq Operations \X SUBSET Owned
    <2>1. partsOf(r.op) \subseteq Operations
      BY <1>2, RequestsAssumption DEF partsOf, isDictionary
    <2>2. placesOf(r.op) \subseteq SUBSET Owned
      BY DEF placesOf
    <2> QED
      BY <2>1, <2>2 DEF rights
  <1>4. open \subseteq ServiceGrant /\ all \subseteq Operations \X SUBSET Owned
    BY <1>2, <1>3 DEF RequestInHand
  <1>5. right => covers(r.grants \ open, all, r.op)
    BY <1>1, <1>2, VerifiedIsRight DEF requestInOrder, covers
  <1> HIDE DEF rs, open, all, right
  <1>6. /\ s \in RequestInHand /\ s.credential = r.credential /\ s.account = r.account
        /\ s.stage = "verifying" /\ s.op = r.op /\ s.grants = r.grants
        /\ s.unverified = open /\ s.had = all
    BY <1>2, <1>4 DEF RequestInHand
  <1> HIDE DEF s
  <1>7. right => requestInOrder(s)
    BY <1>2, <1>5, <1>6 DEF requestInOrder
  <1> QED
    BY <1>1, <1>6, <1>7, RequestsMoveKeeps

(* The guard's last step lets through what was right when it asked.         *)
LEMMA AdmitJustifies ==
    ASSUME NEW r, requestInOrder(r), r.stage = "verifying", r.unverified = {}, allows(r.grants, r.op, r.target)
    PROVE  /\ justified(r.had, r.op, r.target, visibleProjects(r.grants, r.op, r.target))
           /\ visibleProjects(r.grants, r.op, r.target) \subseteq Owned
  <1>1. r.grants \ r.unverified = r.grants /\ r.op \in Operations
    BY DEF requestInOrder, RequestInHand
  <1>2. covers(r.grants, r.had, r.op)
    BY <1>1 DEF requestInOrder
  <1> QED
    BY <1>1, <1>2, AllowedIsJustified

LEMMA AdmitKeeps ==
    ASSUME RequestsIInv, NEW r \in requests, Admit(r)
    PROVE  /\ RequestsIInv'
           /\ \A s \in requests' \ requests :
                 /\ s.op = r.op /\ s.target = r.target /\ s.grants = r.grants
                 /\ s.unverified = {} /\ allows(r.grants, r.op, r.target)
                 /\ s.projects = visibleProjects(r.grants, r.op, r.target)
  <1> DEFINE seen == visibleProjects(r.grants, r.op, r.target)
             s == [r EXCEPT !.stage = "admitted", !.had = {}, !.projects = seen]
             allowed == allows(r.grants, r.op, r.target)
  <1>1. /\ r.stage = "verifying" /\ r.unverified = {} /\ UNCHANGED serviceVars
        /\ requests' = (requests \ {r}) \cup (IF allowed THEN {s} ELSE {})
    BY DEF Admit
  <1>2. requestInOrder(r) /\ r \in RequestInHand
    BY DEF RequestsIInv, RequestsTypeOK, RequestsInOrder, requestInOrder
  <1>3. allowed => seen \subseteq Owned
    BY <1>1, <1>2, AdmitJustifies
  <1> HIDE DEF seen
  <1>4. /\ s.credential = r.credential /\ s.account = r.account /\ s.op = r.op
        /\ s.target = r.target /\ s.stage = "admitted" /\ s.grants = r.grants
        /\ s.unverified = r.unverified /\ s.projects = seen
        /\ allowed => s \in RequestInHand
    BY <1>2, <1>3 DEF RequestInHand
  <1> HIDE DEF s, allowed
  <1>5. allowed => requestInOrder(s)
    BY <1>2, <1>4 DEF requestInOrder
  <1>6. \A x \in requests' \ requests : x = s /\ allowed
    BY <1>1
  <1>7. RequestsIInv'
    BY <1>1, <1>5, <1>6, RequestsMoveKeeps
  <1> QED
    BY <1>1, <1>4, <1>6, <1>7 DEF seen, allowed

LEMMA FinishKeeps ==
    ASSUME RequestsIInv, NEW r \in requests, Finish(r)
    PROVE  RequestsIInv' /\ requests' \ requests = {}
  BY RequestsMoveKeeps DEF Finish

LEMMA RequestsStep ==
    ASSUME RequestsIInv, [RequestsNext]_requestVars PROVE RequestsIInv'
  <1>1. CASE ServiceStep /\ UNCHANGED requests
    BY <1>1, TablesMoveKeeps
  <1>2. ASSUME NEW c \in Credentials, NEW op \in Operations, NEW t \in targets(op), Authenticate(c, op, t)
        PROVE  RequestsIInv'
    BY <1>2, AuthenticateKeeps
  <1>3. ASSUME NEW r \in requests, NEW x \in r.unasked, Query(r, x[1], x[2]) PROVE RequestsIInv'
    BY <1>3, QueryKeeps
  <1>4. ASSUME NEW r \in requests, NEW g \in r.unverified, VerifyGrant(r, g) PROVE RequestsIInv'
    BY <1>4, VerifyGrantKeeps
  <1>5. ASSUME NEW r \in requests, Authorize(r) \/ Admit(r) \/ Finish(r) PROVE RequestsIInv'
    BY <1>5, AuthorizeKeeps, AdmitKeeps, FinishKeeps
  <1>6. CASE UNCHANGED requestVars
    BY <1>6, TablesMoveKeeps DEF requestVars
  <1> QED
    BY <1>1, <1>2, <1>3, <1>4, <1>5, <1>6 DEF RequestsNext

(* However issuing, rotation, revocation, grants and requests of service    *)
(* accounts are interleaved: a rotation hands a credential over to one      *)
(* successor, a revocation is explained, no grant is there twice, and the   *)
(* guard decides as the tables do.                                          *)
THEOREM ServiceRequestsInvariantHolds == RequestsSpec => []RequestsInvariant
  <1>1. RequestsInit => RequestsIInv
    BY RequestsStart
  <1>2. RequestsIInv /\ [RequestsNext]_requestVars => RequestsIInv'
    BY RequestsStep
  <1>3. RequestsIInv => RequestsInvariant
    BY ResolvedAgrees DEF RequestsIInv, RequestsInvariant
  <1> QED
    BY <1>1, <1>2, <1>3, PTL DEF RequestsSpec

-----------------------------------------------------------------------------
(* Action properties.                                                       *)

(* Time and the closing of accounts go one way, and so do credentials; a    *)
(* grant is made for an account that may act.                               *)
LEMMA DeathIsFinal ==
    ASSUME ServiceInvariant, [ServiceStep]_serviceVars
    PROVE  /\ now' \in Nat /\ now' >= now
           /\ organization = "disabled" => organization' = "disabled"
           /\ \A a \in Accounts : accounts[a] = "disabled" => accounts'[a] = "disabled"
           /\ \A g \in Grants :
                 grants[g] = Absent /\ grants'[g] # Absent => accounts[grants'[g].account] = "active"
  <1>0. ServiceTypeOK /\ now \in Nat
    BY ServiceAssumption DEF ServiceInvariant, ServiceTypeOK
  <1> DEFINE Claim == /\ now' \in Nat /\ now' >= now
                      /\ organization = "disabled" => organization' = "disabled"
                      /\ \A a \in Accounts : accounts[a] = "disabled" => accounts'[a] = "disabled"
                      /\ \A g \in Grants :
                            grants[g] = Absent /\ grants'[g] # Absent =>
                               accounts[grants'[g].account] = "active"
  <1>1. ASSUME UNCHANGED <<organization, accounts, grants, now>> PROVE Claim
    BY <1>0, <1>1
  <1>2. ASSUME NEW call \in Call, Request(call) \/ RequestGrant(call) PROVE Claim
    BY <1>1, <1>2 DEF Request, RequestGrant
  <1>3. ASSUME NEW call \in pending, CarryOut(call) PROVE Claim
    <2>1. CASE Issue(call) \/ Rotate(call)
      BY <1>1, <1>3, <2>1 DEF CarryOut, Issue, Rotate
    <2>2. CASE Grant(call)
      <3> DEFINE granted == [status |-> "active", account |-> call.account, of |-> call.of]
      <3>1. PICK h \in Grants : grants' = [grants EXCEPT ![h] = granted]
        BY <2>2 DEF Grant
      <3>2. granted.account = call.account /\ accounts[call.account] = "active"
        BY <2>2 DEF Grant, activeAccount
      <3> HIDE DEF granted
      <3>3. \A g \in Grants : grants[g] = Absent /\ grants'[g] # Absent => grants'[g] = granted
        BY <1>0, <3>1 DEF ServiceTypeOK
      <3>4. UNCHANGED <<organization, accounts, now>>
        BY <1>3 DEF CarryOut
      <3> QED
        BY <1>0, <3>2, <3>3, <3>4
    <2> QED
      BY <1>3, <2>1, <2>2 DEF CarryOut
  <1>4. ASSUME NEW call \in pending, Fail(call) PROVE Claim
    BY <1>1, <1>4 DEF Fail
  <1>5. ASSUME NEW c \in Credentials, RevokeCredential(c) PROVE Claim
    BY <1>1, <1>5 DEF RevokeCredential
  <1>6. ASSUME NEW g \in Grants, RevokeGrant(g) PROVE Claim
    BY <1>0, <1>6 DEF RevokeGrant, ServiceTypeOK
  <1>7. ASSUME NEW a \in Accounts, DisableServiceAccount(a) PROVE Claim
    BY <1>0, <1>7 DEF DisableServiceAccount, ServiceTypeOK
  <1>8. CASE DisableOrganization
    BY <1>0, <1>8 DEF DisableOrganization
  <1>9. CASE Tick
    BY <1>0, <1>9 DEF Tick
  <1>10. CASE UNCHANGED serviceVars
    BY <1>1, <1>10 DEF serviceVars
  <1> QED
    BY <1>2, <1>3, <1>4, <1>5, <1>6, <1>7, <1>8, <1>9, <1>10 DEF ServiceStep

(* A credential that is refused once is refused for good, and no grant is   *)
(* added to an account that may not act.                                    *)
THEOREM DeadStaysDeadHolds == RequestsSpec => DeadStaysDead
  <1> DEFINE Claim == /\ \A c \in Credentials : credentials[c] # Absent /\ ~current(c) => ~current(c)'
                      /\ \A g \in Grants :
                            grants[g] = Absent /\ grants'[g] # Absent =>
                               accounts[grants'[g].account] = "active"
  <1>1. RequestsInit => RequestsIInv
    BY RequestsStart
  <1>2. RequestsIInv /\ [RequestsNext]_requestVars => RequestsIInv'
    BY RequestsStep
  <1>3. RequestsIInv /\ [RequestsNext]_requestVars => [Claim]_serviceVars
    <2> SUFFICES ASSUME RequestsIInv, RequestsNext, serviceVars' # serviceVars PROVE Claim
      BY DEF requestVars
    <2>1. ServiceStep
      <3>1. ASSUME NEW r, NEW x \in r.unasked, Query(r, x[1], x[2]) PROVE FALSE
        BY <3>1 DEF Query
      <3>2. ASSUME NEW r, NEW g \in r.unverified, VerifyGrant(r, g) PROVE FALSE
        BY <3>2 DEF VerifyGrant
      <3>3. ASSUME NEW r, Authorize(r) \/ Admit(r) \/ Finish(r) PROVE FALSE
        BY <3>3 DEF Authorize, Admit, Finish
      <3>4. ASSUME NEW c, NEW op, NEW t, Authenticate(c, op, t) PROVE FALSE
        BY <3>4 DEF Authenticate
      <3> QED
        BY <3>1, <3>2, <3>3, <3>4 DEF RequestsNext
    <2>2. ServiceInvariant /\ ServiceTypeOK /\ now \in Nat
      BY ServiceAssumption DEF RequestsIInv, ServiceInvariant, ServiceTypeOK
    <2>3. ServiceInvariant' /\ RowsGoOn
      BY <2>1, <2>2, ServiceKeeps
    <2>4. /\ now' \in Nat /\ now' >= now
          /\ organization = "disabled" => organization' = "disabled"
          /\ \A a \in Accounts : accounts[a] = "disabled" => accounts'[a] = "disabled"
          /\ \A g \in Grants :
                grants[g] = Absent /\ grants'[g] # Absent => accounts[grants'[g].account] = "active"
      BY <2>1, <2>2, DeathIsFinal
    <2>5. ASSUME NEW c \in Credentials, credentials[c] # Absent, ~current(c) PROVE ~current(c)'
      <3>1. /\ credentials[c] \in Credential
            /\ credentials[c].status \in {"issued", "revoked"}
            /\ credentials[c].expires \in Nat /\ credentials[c].account \in Accounts
        BY <2>2, <2>5, CredentialRows, ServiceAssumption DEF Credential
      <3>2. /\ credentials'[c].account = credentials[c].account
            /\ credentials'[c].expires = credentials[c].expires
            /\ credentials[c].status = "revoked" => credentials'[c].status = "revoked"
        BY <2>3, <2>5 DEF RowsGoOn
      <3>3. CASE credentials[c].status = "revoked"
        BY <3>2, <3>3 DEF current, issued
      <3>4. CASE credentials[c].expires <= now
        BY <2>2, <2>4, <3>1, <3>2, <3>4 DEF current
      <3>5. CASE ~activeAccount(credentials[c].account)
        <4>1. organization = "disabled" \/ accounts[credentials[c].account] = "disabled"
          BY <2>2, <3>1, <3>5 DEF activeAccount, ServiceTypeOK
        <4> QED
          BY <2>4, <3>1, <3>2, <4>1 DEF current, activeAccount
      <3> QED
        BY <2>2, <2>5, <3>1, <3>3, <3>4, <3>5 DEF current, issued
    <2> QED
      BY <2>4, <2>5
  <1> QED
    BY <1>1, <1>2, <1>3, PTL DEF RequestsSpec, DeadStaysDead

(* The step of AdmittedWasEntitled.                                         *)
LEMMA GuardJustifies ==
    ASSUME RequestsIInv, RequestsNext, NEW r \in requests, NEW s \in requests' \ requests,
           r.stage = "verifying",
           s = [r EXCEPT !.stage = "admitted", !.had = {}, !.projects = s.projects]
    PROVE  justified(r.had, r.op, r.target, s.projects)
  <1>1. requestInOrder(r) /\ r \in RequestInHand
    BY DEF RequestsIInv, RequestsTypeOK, RequestsInOrder, requestInOrder
  <1>2. /\ s.stage = "admitted" /\ s.op = r.op /\ s.target = r.target
        /\ s.grants = r.grants /\ s.unverified = r.unverified
    BY <1>1 DEF RequestInHand
  <1>3. ASSUME NEW q \in requests, Admit(q) PROVE justified(r.had, r.op, r.target, s.projects)
    <2>1. /\ s.op = q.op /\ s.target = q.target /\ s.grants = q.grants
          /\ s.unverified = {} /\ allows(q.grants, q.op, q.target)
          /\ s.projects = visibleProjects(q.grants, q.op, q.target)
      BY <1>3, AdmitKeeps
    <2>2. /\ r.unverified = {} /\ allows(r.grants, r.op, r.target)
          /\ s.projects = visibleProjects(r.grants, r.op, r.target)
      BY <1>2, <2>1
    <2> QED
      BY <1>1, <2>2, AdmitJustifies
  <1>4. ASSUME NEW c \in Credentials, NEW op \in Operations, NEW t \in targets(op), Authenticate(c, op, t)
        PROVE  FALSE
    <2>1. s.stage = "authenticated"
      BY <1>4, AuthenticateKeeps
    <2> QED
      BY <1>2, <2>1
  <1>5. ASSUME NEW q \in requests, NEW x \in q.unasked, Query(q, x[1], x[2]) PROVE FALSE
    <2>1. s.stage = "authenticated"
      BY <1>5, QueryKeeps
    <2> QED
      BY <1>2, <2>1
  <1>6. ASSUME NEW q \in requests, NEW g \in q.unverified, VerifyGrant(q, g) PROVE FALSE
    <2>1. s.stage = "verifying"
      BY <1>6, VerifyGrantKeeps
    <2> QED
      BY <1>2, <2>1
  <1>7. ASSUME NEW q \in requests, Authorize(q) \/ Finish(q) PROVE FALSE
    <2>1. s.stage = "resolved"
      BY <1>7, AuthorizeKeeps, FinishKeeps
    <2> QED
      BY <1>2, <2>1
  <1> QED
    BY <1>3, <1>4, <1>5, <1>6, <1>7 DEF RequestsNext

(* A service account is admitted only for what its grants allowed when the  *)
(* guard asked: every part of the operation, in the project concerned.      *)
THEOREM ServiceAdmittedWasEntitledHolds == RequestsSpec => AdmittedWasEntitled
  <1>1. RequestsIInv /\ [RequestsNext]_requestVars => RequestsIInv'
    BY RequestsStep
  <1>2. RequestsIInv /\ [RequestsNext]_requestVars
          => [\A r \in requests : \A s \in requests' \ requests :
                r.stage = "verifying"
                /\ s = [r EXCEPT !.stage = "admitted", !.had = {}, !.projects = s.projects] =>
                   justified(r.had, r.op, r.target, s.projects)]_requestVars
    BY GuardJustifies, Zenon
  <1> QED
    BY RequestsStart, <1>1, <1>2, PTL DEF RequestsSpec, AdmittedWasEntitled
===============================================================================
