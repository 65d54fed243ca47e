------------------------- MODULE DeliveryLifecycle --------------------------
(***************************************************************************)
(* The life of a work item in delivery/service.go: creation, field and     *)
(* context updates, comments, gate advances and closing, by principals     *)
(* that read an item, keep the revision they saw and write later with it.  *)
(*                                                                         *)
(* One write is one step: it runs inside the root transaction of its       *)
(* operation, and the module UnitOfWork shows that those transactions take *)
(* effect whole or not at all.  Validation failures leave the state alone, *)
(* so a rejected write is a disabled action.                               *)
(*                                                                         *)
(* Data: titles, plans, evidence and decisions are left out; a blocker is  *)
(* present or not; of the activity log only the actors of the "closed"     *)
(* entries are kept.  Authorization by grants precedes these handlers and  *)
(* is not modelled here: every principal may attempt every operation.      *)
(***************************************************************************)
EXTENDS Naturals

CONSTANTS
    Items,       \* work item identifiers
    Principals,  \* request identities, records of PrincipalType
    Subjects,    \* user IDs and service-account subjects
    Tenants,
    NoSubject,   \* the empty user ID
    NoSource,    \* the zero PrincipalSource
    MaxRevision  \* bound on an item's revision

Methods == {"jwt", "service", "api-key"}

PrincipalType ==
    [method : Methods, subject : Subjects \cup {NoSubject}, tenant : Tenants,
     authenticated : BOOLEAN]

ASSUME PrincipalsAssumption == Principals \subseteq PrincipalType
ASSUME NoSubjectAssumption == NoSubject \notin Subjects
ASSUME MaxRevisionAssumption == MaxRevision \in Nat

VARIABLES
    items,  \* the committed rows of iotd_delivery_items
    seen    \* the revision of each item each principal last obtained (0: none)

vars == <<items, seen>>

-----------------------------------------------------------------------------
(* Gates, statuses and principal sources.                                  *)

Gates == {"planning", "solution_reviewed", "development_completed",
          "test_passed", "production_validated"}

Statuses == {"planned", "in_progress", "blocked", "verifying", "released",
             "closed"}

(* Faulty variant: a failed test sends the item back to solution review.    *)
isNextGate_Reopens(current, next) ==
    <<current, next>> \in
        {<<"planning", "solution_reviewed">>,
         <<"solution_reviewed", "development_completed">>,
         <<"development_completed", "test_passed">>,
         <<"test_passed", "solution_reviewed">>,
         <<"test_passed", "production_validated">>}

isNextGate(current, next) ==
    <<current, next>> \in
        {<<"planning", "solution_reviewed">>,
         <<"solution_reviewed", "development_completed">>,
         <<"development_completed", "test_passed">>,
         <<"test_passed", "production_validated">>}

statusForGate(gate) ==
    CASE gate = "planning" -> "planned"
      [] gate = "test_passed" -> "verifying"
      [] gate = "production_validated" -> "released"
      [] OTHER -> "in_progress"

Kinds == {"human", "service", "development-api-key"}

Sources == [kind : Kinds, subject : Subjects, tenant : Tenants]

ASSUME NoSourceAssumption == NoSource \notin Sources

(* The identity the server derives from the request context.  The empty    *)
(* user ID is refused, an unauthenticated principal too.                   *)
trusted(p) == p.authenticated /\ p.subject # NoSubject

SourceOf(p) ==
    [kind |-> CASE p.method = "jwt" -> "human"
                [] p.method = "service" -> "service"
                [] OTHER -> "development-api-key",
     subject |-> p.subject,
     tenant |-> p.tenant]

namedJWT(p) == trusted(p) /\ p.method = "jwt"

(* Every write appends its audit entry in the same transaction and fails   *)
(* with it: an API key needs no user ID for that, the others do.           *)
trustedAuditActor(p) ==
    p.authenticated /\ (p.method = "api-key" \/ p.subject # NoSubject)

(* Faulty variant: the subject is not compared.                             *)
mayJudge_OwnWork(p, impl) ==
    namedJWT(p) /\ impl # NoSource /\ p.tenant = impl.tenant

(* The independence test AdvanceGate and Close share.                      *)
mayJudge(p, impl) ==
    /\ namedJWT(p)
    /\ impl # NoSource
    /\ p.tenant = impl.tenant
    /\ p.subject # impl.subject

-----------------------------------------------------------------------------
(* Items.                                                                  *)

ItemType ==
    [revision : 0..MaxRevision, gate : Gates, status : Statuses,
     blocker : BOOLEAN, implementer : Sources \cup {NoSource},
     validator : Sources \cup {NoSource}, closers : SUBSET Subjects]

(* Revision 0 stands for the row that does not exist yet.                  *)
Absent ==
    [revision |-> 0, gate |-> "planning", status |-> "planned",
     blocker |-> FALSE, implementer |-> NoSource, validator |-> NoSource,
     closers |-> {}]

Exists(i) == items[i].revision > 0

(* Faulty variant: any revision the caller ever saw is accepted.            *)
revisionMatches_Unchecked(p, i) == seen[p][i] > 0 /\ Exists(i)

(* The compare half of compare-and-set: the revision the caller sends is    *)
(* the stored one.  Each handler tests it after loading the item and the    *)
(* UPDATE statement tests it again.                                        *)
revisionMatches(p, i) == seen[p][i] > 0 /\ seen[p][i] = items[i].revision

(* The set half: the row moves forward by `steps` revisions and the caller *)
(* learns the new one from the response.                                   *)
Save(p, i, item, steps) ==
    LET revision == items[i].revision + steps
    IN  /\ revision <= MaxRevision
        /\ items' = [items EXCEPT ![i] = [item EXCEPT !.revision = revision]]
        /\ seen' = [seen EXCEPT ![p][i] = revision]

Init ==
    /\ items = [i \in Items |-> Absent]
    /\ seen = [p \in Principals |-> [i \in Items |-> 0]]

GetItem(p, i) ==
    /\ Exists(i)
    /\ seen' = [seen EXCEPT ![p][i] = items[i].revision]
    /\ UNCHANGED items

Create(p, i) ==
    /\ ~Exists(i)
    /\ trustedAuditActor(p)
    /\ Save(p, i, Absent, 1)

UpdateWorkItem(p, i) ==
    /\ revisionMatches(p, i)
    /\ trustedAuditActor(p)
    /\ Save(p, i, items[i], 1)

AddComment(p, i) ==
    /\ revisionMatches(p, i)
    /\ trustedAuditActor(p)
    /\ Save(p, i, items[i], 1)

(* The blocker field of a context update: omitted, set or cleared.         *)
BlockerInputs == {"omitted", "set", "clear"}

(* Faulty variant: released and closed items can be blocked.                *)
blockerAllowed_Always(item, input) == TRUE

blockerAllowed(item, input) ==
    input = "set" => item.status \notin {"closed", "released"}

withBlocker(item, input) ==
    CASE input = "set" -> [item EXCEPT !.blocker = TRUE, !.status = "blocked"]
      [] input = "clear" /\ item.status = "blocked" ->
            [item EXCEPT !.blocker = FALSE, !.status = statusForGate(item.gate)]
      [] input = "clear" /\ item.status # "blocked" ->
            [item EXCEPT !.blocker = FALSE]
      [] OTHER -> item

UpdateContext(p, i, input) ==
    /\ revisionMatches(p, i)
    /\ blockerAllowed(items[i], input)
    /\ trustedAuditActor(p)
    /\ Save(p, i, withBlocker(items[i], input), 1)

(* The REST patch that carries fields of both kinds: an item update and a  *)
(* child context update against the revision the first one produced, in    *)
(* one root transaction.                                                   *)
UpdateWorkItemAndContext(p, i, input) ==
    /\ revisionMatches(p, i)
    /\ blockerAllowed(items[i], input)
    /\ trustedAuditActor(p)
    /\ Save(p, i, withBlocker(items[i], input), 2)

AdvanceGate(p, i, next) ==
    LET item == items[i]
    IN  /\ revisionMatches(p, i)
        /\ isNextGate(item.gate, next)
        /\ next = "development_completed" => trusted(p)
        /\ next = "production_validated" => mayJudge(p, item.implementer)
        /\ trustedAuditActor(p)
        /\ Save(p, i,
                [item EXCEPT
                    !.gate = next,
                    !.status = statusForGate(next),
                    !.implementer = IF next = "development_completed"
                                    THEN SourceOf(p) ELSE @,
                    !.validator = IF next = "production_validated"
                                  THEN SourceOf(p) ELSE @],
                1)

(* An item that is closed already may be closed again: the retrospective   *)
(* is replaced and the activity log grows.                                 *)
Close(p, i) ==
    LET item == items[i]
    IN  /\ revisionMatches(p, i)
        /\ item.gate = "production_validated"
        /\ mayJudge(p, item.implementer)
        /\ Save(p, i,
                [item EXCEPT !.status = "closed",
                             !.closers = @ \cup {p.subject}],
                1)

Next ==
    \E p \in Principals, i \in Items :
        \/ GetItem(p, i)
        \/ Create(p, i)
        \/ UpdateWorkItem(p, i)
        \/ AddComment(p, i)
        \/ \E input \in BlockerInputs :
              UpdateContext(p, i, input) \/ UpdateWorkItemAndContext(p, i, input)
        \/ \E next \in Gates : AdvanceGate(p, i, next)
        \/ Close(p, i)

Spec == Init /\ [][Next]_vars

-----------------------------------------------------------------------------
(* Properties.                                                             *)

(* Every row and every remembered revision has the shape the code gives it. *)
TypeOK ==
    /\ items \in [Items -> ItemType]
    /\ seen \in [Principals -> [Items -> 0..MaxRevision]]

(* Whatever path an item took - blocked and unblocked, closed twice, edited *)
(* in between - a validated item has a validator who is a human of the      *)
(* implementer's tenant and is not the implementer, and none of the people  *)
(* that ever closed it is the implementer (AdvanceGate, Close).             *)
SeparationOfDuties ==
    \A i \in Items :
        items[i].gate = "production_validated" =>
            /\ items[i].implementer # NoSource
            /\ items[i].validator # NoSource
            /\ items[i].validator.kind = "human"
            /\ items[i].validator.tenant = items[i].implementer.tenant
            /\ items[i].validator.subject # items[i].implementer.subject
            /\ items[i].implementer.subject \notin items[i].closers

(* The status never disagrees with the gate: outside "blocked" it is the    *)
(* one the gate implies, or "closed" at the last gate, so an unblocked item *)
(* resumes where its gate is and a released item is never reported blocked. *)
StatusAgreesWithGate ==
    \A i \in Items :
        \/ items[i].status = statusForGate(items[i].gate)
        \/ items[i].status = "closed" /\ items[i].gate = "production_validated"
        \/ /\ items[i].status = "blocked"
           /\ items[i].blocker
           /\ items[i].gate # "production_validated"

(* What holds of every row at any time.                                     *)
GateInvariant == TypeOK /\ SeparationOfDuties /\ StatusAgreesWithGate

(* No write overwrites a change its author has not seen: a row that existed *)
(* changes only through somebody whose last read was exactly that row.      *)
NoLostUpdate ==
    [][\A i \in Items :
          Exists(i) /\ items'[i] # items[i] =>
              \E p \in Principals :
                  /\ seen[p][i] = items[i].revision
                  /\ seen'[p][i] = items'[i].revision
                  /\ seen'[p][i] > seen[p][i]]_vars

(* Once an item is closed no sequence of calls, stale or fresh, reopens it, *)
(* moves its gate or replaces who implemented and who validated it.         *)
ClosedIsFinal ==
    [][\A i \in Items :
          items[i].status = "closed" =>
              /\ items'[i].status = "closed"
              /\ items'[i].gate = items[i].gate
              /\ items'[i].implementer = items[i].implementer
              /\ items'[i].validator = items[i].validator]_vars

-----------------------------------------------------------------------------
(* Refinement: the lifecycle implements the separation of duties.           *)

StageOf(item) ==
    CASE item.revision = 0 -> "absent"
      [] item.revision > 0 /\ item.status = "closed" -> "closed"
      [] item.revision > 0 /\ item.status # "closed"
           /\ item.gate = "production_validated" -> "validated"
      [] item.revision > 0 /\ item.status # "closed"
           /\ item.gate \in {"development_completed", "test_passed"} ->
            "implemented"
      [] OTHER -> "open"

Duty == INSTANCE DutySeparation WITH
            stage <- [i \in Items |-> StageOf(items[i])],
            implementer <- [i \in Items |-> items[i].implementer],
            validator <- [i \in Items |-> items[i].validator]

(* The abstract specification, for a run to check.                         *)
DutySpec == Duty!Spec
=============================================================================
