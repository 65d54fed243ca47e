---------------------- MODULE DeliveryLifecycle_proofs ----------------------
(***************************************************************************)
(* Proofs about DeliveryLifecycle for any items, principals, subjects,      *)
(* tenants and revision bound.                                             *)
(***************************************************************************)
EXTENDS DeliveryLifecycle, TLAPS

-----------------------------------------------------------------------------
(* The inductive invariant.  Sound speaks of the content of one row; the   *)
(* revision is added by IInv.                                              *)

Judged(item) ==
    /\ item.implementer # NoSource
    /\ item.validator # NoSource
    /\ item.validator.kind = "human"
    /\ item.validator.tenant = item.implementer.tenant
    /\ item.validator.subject # item.implementer.subject
    /\ item.implementer.subject \notin item.closers

StatusSound(item) ==
    \/ item.status = statusForGate(item.gate)
    \/ item.status = "closed" /\ item.gate = "production_validated"
    \/ /\ item.status = "blocked"
       /\ item.blocker
       /\ item.gate # "production_validated"

Sound(item) ==
    /\ item.gate \in {"development_completed", "test_passed",
                      "production_validated"} => item.implementer # NoSource
    /\ item.gate # "production_validated" => item.closers = {}
    /\ item.gate = "production_validated" => Judged(item)
    /\ StatusSound(item)

IInv ==
    /\ TypeOK
    /\ \A i \in Items : Sound(items[i])
    /\ \A i \in Items : ~Exists(i) => items[i] = Absent

-----------------------------------------------------------------------------
(* Facts about the operators the actions are built from.                   *)

LEMMA AbsentFacts == Absent \in ItemType /\ Sound(Absent)
  BY MaxRevisionAssumption
     DEF Absent, ItemType, Gates, Statuses, Sound, StatusSound, statusForGate

LEMMA StatusOfGate ==
  ASSUME NEW gate \in Gates
  PROVE  /\ statusForGate(gate) \in Statuses
         /\ statusForGate(gate) \notin {"blocked", "closed"}
         /\ statusForGate(gate) = "released" <=> gate = "production_validated"
  BY DEF statusForGate, Gates, Statuses

LEMMA SourceOfType ==
  ASSUME NEW p \in Principals, trusted(p)
  PROVE  /\ SourceOf(p) \in Sources
         /\ SourceOf(p) # NoSource
         /\ SourceOf(p).subject = p.subject
         /\ SourceOf(p).tenant = p.tenant
         /\ p.subject \in Subjects
         /\ p.method = "jwt" => SourceOf(p).kind = "human"
<1>1. p \in PrincipalType
  BY PrincipalsAssumption
<1>2. p.subject \in Subjects /\ p.tenant \in Tenants /\ p.method \in Methods
  BY <1>1 DEF PrincipalType, trusted
<1>3. SourceOf(p) \in Sources
  BY <1>2 DEF SourceOf, Sources, Kinds, Methods
<1> QED
  BY <1>2, <1>3, NoSourceAssumption DEF SourceOf, Methods

(* A context update keeps a row sound: it blocks only rows that are not yet *)
(* released, and clearing a blocker restores the status of the gate.       *)
LEMMA BlockerSound ==
  ASSUME NEW item \in ItemType, Sound(item), NEW input \in BlockerInputs,
         blockerAllowed(item, input)
  PROVE  withBlocker(item, input) \in ItemType /\ Sound(withBlocker(item, input))
<1> DEFINE new == withBlocker(item, input)
<1>1. CASE input = "omitted"
  BY <1>1 DEF withBlocker
<1>2. CASE input = "set"
  <2>1. new = [item EXCEPT !.blocker = TRUE, !.status = "blocked"]
    BY <1>2 DEF withBlocker
  <2>2. item.gate # "production_validated"
    BY <1>2, StatusOfGate DEF blockerAllowed, Sound, StatusSound, ItemType
  <2>3. new \in ItemType
    BY <2>1 DEF ItemType, Statuses
  <2>4. StatusSound(new)
    BY <2>1, <2>2 DEF StatusSound, ItemType
  <2> QED
    BY <2>1, <2>2, <2>3, <2>4 DEF Sound, ItemType
<1>3. CASE input = "clear"
  <2>1. CASE item.status = "blocked"
    <3>1. new = [item EXCEPT !.blocker = FALSE,
                             !.status = statusForGate(item.gate)]
      BY <1>3, <2>1 DEF withBlocker
    <3>2. item.gate # "production_validated"
      BY <2>1, StatusOfGate DEF Sound, StatusSound, ItemType
    <3>3. new \in ItemType
      BY <3>1, StatusOfGate DEF ItemType
    <3>4. StatusSound(new)
      BY <3>1 DEF StatusSound, ItemType
    <3> QED
      BY <3>1, <3>2, <3>3, <3>4 DEF Sound, ItemType
  <2>2. CASE item.status # "blocked"
    <3>1. new = [item EXCEPT !.blocker = FALSE]
      BY <1>3, <2>2 DEF withBlocker
    <3>2. new \in ItemType
      BY <3>1 DEF ItemType
    <3>3. StatusSound(new)
      BY <3>1, <2>2 DEF Sound, StatusSound, ItemType
    <3>4. Judged(item) => Judged(new)
      BY <3>1 DEF Judged, ItemType
    <3> QED
      BY <3>1, <3>2, <3>3, <3>4 DEF Sound, ItemType
  <2> QED
    BY <2>1, <2>2
<1> QED
  BY <1>1, <1>2, <1>3 DEF BlockerInputs

(* An advance keeps a row sound: development records the implementer, and   *)
(* production validation needs a principal that may judge that implementer. *)
LEMMA AdvanceSound ==
  ASSUME TypeOK, NEW p \in Principals, NEW i \in Items, NEW next \in Gates,
         Sound(items[i]), AdvanceGate(p, i, next)
  PROVE  \E item \in ItemType :
            /\ Sound(item)
            /\ Save(p, i, item, 1)
<1> DEFINE old == items[i]
           new == [old EXCEPT
                      !.gate = next,
                      !.status = statusForGate(next),
                      !.implementer = IF next = "development_completed"
                                      THEN SourceOf(p) ELSE @,
                      !.validator = IF next = "production_validated"
                                    THEN SourceOf(p) ELSE @]
<1>1. old \in ItemType
  BY DEF TypeOK
<1>2. /\ isNextGate(old.gate, next)
      /\ next = "development_completed" => trusted(p)
      /\ next = "production_validated" => mayJudge(p, old.implementer)
      /\ Save(p, i, new, 1)
  BY DEF AdvanceGate
<1>3. next = "development_completed" =>
         SourceOf(p) \in Sources /\ SourceOf(p) # NoSource
  BY <1>2, SourceOfType
<1>4. next = "production_validated" =>
         /\ SourceOf(p) \in Sources /\ SourceOf(p) # NoSource
         /\ SourceOf(p).kind = "human"
         /\ SourceOf(p).tenant = old.implementer.tenant
         /\ SourceOf(p).subject # old.implementer.subject
         /\ old.implementer # NoSource
  BY <1>2, SourceOfType DEF mayJudge, namedJWT
<1>5. new \in ItemType
  BY <1>1, <1>3, <1>4, StatusOfGate DEF ItemType
<1>6. /\ new.gate = next
      /\ new.status = statusForGate(next)
      /\ new.closers = old.closers
      /\ next # "development_completed" => new.implementer = old.implementer
      /\ next = "development_completed" => new.implementer = SourceOf(p)
      /\ next = "production_validated" => new.validator = SourceOf(p)
  BY <1>1 DEF ItemType
<1>7. old.gate # "production_validated" /\ old.closers = {}
  BY <1>2 DEF isNextGate, Sound
<1>8. next \in {"test_passed", "production_validated"} =>
         old.implementer # NoSource
  BY <1>2 DEF isNextGate, Sound
<1>9. Sound(new)
  BY <1>3, <1>4, <1>6, <1>7, <1>8 DEF Sound, StatusSound, Judged
<1> QED
  BY <1>2, <1>5, <1>9

LEMMA CloseSound ==
  ASSUME TypeOK, NEW p \in Principals, NEW i \in Items,
         Sound(items[i]), Close(p, i)
  PROVE  \E item \in ItemType : Sound(item) /\ Save(p, i, item, 1)
<1> DEFINE old == items[i]
           new == [old EXCEPT !.status = "closed",
                              !.closers = @ \cup {p.subject}]
<1>1. old \in ItemType
  BY DEF TypeOK
<1>2. /\ old.gate = "production_validated"
      /\ mayJudge(p, old.implementer)
      /\ Save(p, i, new, 1)
  BY DEF Close
<1>3. p.subject \in Subjects /\ p.subject # old.implementer.subject
  BY <1>2, SourceOfType DEF mayJudge, namedJWT
<1>4. new \in ItemType
  BY <1>1, <1>3 DEF ItemType, Statuses
<1>5. /\ new.gate = old.gate
      /\ new.status = "closed"
      /\ new.implementer = old.implementer
      /\ new.validator = old.validator
      /\ new.closers = old.closers \cup {p.subject}
  BY <1>1 DEF ItemType
<1>6. Sound(new)
  BY <1>2, <1>3, <1>5 DEF Sound, StatusSound, Judged
<1> QED
  BY <1>2, <1>4, <1>6

(* Every write stores a sound row, one or two revisions further on.         *)
LEMMA WriteShape ==
  ASSUME TypeOK, NEW p \in Principals, NEW i \in Items, Sound(items[i]),
         \/ Create(p, i)
         \/ UpdateWorkItem(p, i)
         \/ AddComment(p, i)
         \/ \E input \in BlockerInputs :
               UpdateContext(p, i, input) \/ UpdateWorkItemAndContext(p, i, input)
         \/ \E next \in Gates : AdvanceGate(p, i, next)
         \/ Close(p, i)
  PROVE  \E item \in ItemType, steps \in {1, 2} :
            Sound(item) /\ Save(p, i, item, steps)
<1>0. items[i] \in ItemType
  BY DEF TypeOK
<1>1. CASE Create(p, i)
  BY <1>1, AbsentFacts DEF Create
<1>2. CASE UpdateWorkItem(p, i) \/ AddComment(p, i)
  BY <1>0, <1>2 DEF UpdateWorkItem, AddComment
<1>3. CASE \E input \in BlockerInputs :
              UpdateContext(p, i, input) \/ UpdateWorkItemAndContext(p, i, input)
  <2>1. PICK input \in BlockerInputs :
           UpdateContext(p, i, input) \/ UpdateWorkItemAndContext(p, i, input)
    BY <1>3
  <2>2. blockerAllowed(items[i], input)
    BY <2>1 DEF UpdateContext, UpdateWorkItemAndContext
  <2>3. /\ withBlocker(items[i], input) \in ItemType
        /\ Sound(withBlocker(items[i], input))
    BY <1>0, <2>2, BlockerSound
  <2> QED
    BY <2>1, <2>3 DEF UpdateContext, UpdateWorkItemAndContext
<1>4. CASE \E next \in Gates : AdvanceGate(p, i, next)
  BY <1>4, AdvanceSound
<1>5. CASE Close(p, i)
  BY <1>5, CloseSound
<1> QED
  BY <1>1, <1>2, <1>3, <1>4, <1>5

(* Storing a sound row preserves the invariant: soundness does not look at  *)
(* the revision, and only this row changes.                                *)
LEMMA SaveKeepsIInv ==
  ASSUME IInv, NEW p \in Principals, NEW i \in Items, NEW item \in ItemType,
         Sound(item), NEW steps \in {1, 2}, Save(p, i, item, steps)
  PROVE  IInv'
<1> DEFINE revision == items[i].revision + steps
           new == [item EXCEPT !.revision = revision]
<1>1. items[i] \in ItemType /\ items[i].revision \in Nat
  BY MaxRevisionAssumption DEF IInv, TypeOK, ItemType
<1>2. /\ revision <= MaxRevision
      /\ items' = [items EXCEPT ![i] = new]
      /\ seen' = [seen EXCEPT ![p][i] = revision]
  BY DEF Save
<1>3. revision \in 0..MaxRevision /\ revision > 0
  BY <1>1, <1>2, MaxRevisionAssumption
<1>4. new \in ItemType
  BY <1>3 DEF ItemType
<1>5. Sound(new)
  BY DEF Sound, StatusSound, Judged, ItemType
<1>6. /\ items' \in [Items -> ItemType]
      /\ items'[i] = new
      /\ \A j \in Items : j # i => items'[j] = items[j]
  BY <1>2, <1>4 DEF IInv, TypeOK
<1>7. seen' \in [Principals -> [Items -> 0..MaxRevision]]
  BY <1>2, <1>3 DEF IInv, TypeOK
<1>8. new.revision > 0
  BY <1>3 DEF ItemType
<1> QED
  BY <1>5, <1>6, <1>7, <1>8 DEF IInv, TypeOK, Exists

-----------------------------------------------------------------------------
(* The invariant.                                                          *)

LEMMA InitIInv == Init => IInv
<1> SUFFICES ASSUME Init PROVE IInv
  OBVIOUS
<1>1. 0 \in 0..MaxRevision
  BY MaxRevisionAssumption
<1> QED
  BY <1>1, AbsentFacts DEF Init, IInv, TypeOK, Exists

LEMMA NextIInv == IInv /\ [Next]_vars => IInv'
<1> SUFFICES ASSUME IInv, [Next]_vars PROVE IInv'
  OBVIOUS
<1>1. CASE UNCHANGED vars
  BY <1>1 DEF vars, IInv, TypeOK, Exists
<1>2. CASE Next
  <2>1. PICK p \in Principals, i \in Items :
           \/ GetItem(p, i)
           \/ Create(p, i)
           \/ UpdateWorkItem(p, i)
           \/ AddComment(p, i)
           \/ \E input \in BlockerInputs :
                 UpdateContext(p, i, input)
                 \/ UpdateWorkItemAndContext(p, i, input)
           \/ \E next \in Gates : AdvanceGate(p, i, next)
           \/ Close(p, i)
    BY <1>2 DEF Next
  <2>2. CASE GetItem(p, i)
    <3>1. items[i].revision \in 0..MaxRevision
      BY DEF IInv, TypeOK, ItemType
    <3>2. seen' \in [Principals -> [Items -> 0..MaxRevision]]
      BY <2>2, <3>1 DEF GetItem, IInv, TypeOK
    <3> QED
      BY <2>2, <3>2 DEF GetItem, IInv, TypeOK, Exists
  <2>3. CASE ~GetItem(p, i)
    <3>1. PICK item \in ItemType, steps \in {1, 2} :
             Sound(item) /\ Save(p, i, item, steps)
      BY <2>1, <2>3, WriteShape DEF IInv
    <3> QED
      BY <3>1, SaveKeepsIInv
  <2> QED
    BY <2>2, <2>3
<1> QED
  BY <1>1, <1>2

(* The inductive invariant holds of the lifecycle.                         *)
THEOREM Invariance == Spec => []IInv
  BY InitIInv, NextIInv, PTL DEF Spec

(* Rows and remembered revisions keep their types.                         *)
THEOREM TypeCorrect == Spec => []TypeOK
<1>1. IInv => TypeOK
  BY DEF IInv
<1> QED
  BY <1>1, Invariance, PTL

(* No history of calls lets an implementer validate or close the own change *)
(* (delivery/service.go AdvanceGate, Close).                               *)
THEOREM DutiesSeparated == Spec => []SeparationOfDuties
<1>1. IInv => SeparationOfDuties
  BY DEF IInv, Sound, Judged, SeparationOfDuties
<1> QED
  BY <1>1, Invariance, PTL

(* The status never disagrees with the gate.                               *)
THEOREM StatusFollowsGate == Spec => []StatusAgreesWithGate
<1>1. IInv => StatusAgreesWithGate
  BY DEF IInv, Sound, StatusSound, StatusAgreesWithGate
<1> QED
  BY <1>1, Invariance, PTL

(* The three together: the invariant the runs check.                        *)
THEOREM GateInvariantHolds == Spec => []GateInvariant
<1>1. TypeOK /\ SeparationOfDuties /\ StatusAgreesWithGate => GateInvariant
  BY DEF GateInvariant
<1> QED
  BY <1>1, TypeCorrect, DutiesSeparated, StatusFollowsGate, PTL

-----------------------------------------------------------------------------
(* Steps.                                                                  *)

(* The disjuncts of Next that write, for one principal and one item.       *)
Write(p, i) ==
    \/ Create(p, i)
    \/ UpdateWorkItem(p, i)
    \/ AddComment(p, i)
    \/ \E input \in BlockerInputs :
          UpdateContext(p, i, input) \/ UpdateWorkItemAndContext(p, i, input)
    \/ \E next \in Gates : AdvanceGate(p, i, next)
    \/ Close(p, i)

(* A step of Next reads, or writes one item and leaves the others alone.    *)
LEMMA StepShape ==
  ASSUME IInv, Next
  PROVE  \/ items' = items
         \/ \E p \in Principals, i \in Items :
               /\ Write(p, i)
               /\ \A j \in Items : j # i => items'[j] = items[j]
<1>1. PICK p \in Principals, i \in Items : GetItem(p, i) \/ Write(p, i)
  BY DEF Next, Write
<1>2. CASE GetItem(p, i)
  BY <1>2 DEF GetItem
<1>3. CASE Write(p, i)
  <2>1. PICK item \in ItemType, steps \in {1, 2} : Save(p, i, item, steps)
    BY <1>3, WriteShape DEF Write, IInv
  <2>2. \A j \in Items : j # i => items'[j] = items[j]
    BY <2>1 DEF Save, IInv, TypeOK
  <2> QED
    BY <1>3, <2>2
<1> QED
  BY <1>1, <1>2, <1>3

(* What a write does to the row, apart from revision and blocker: nothing,  *)
(* a change between "blocked" and the status of the gate, an advance or a   *)
(* closing.                                                                *)
LEMMA WriteEffect ==
  ASSUME IInv, NEW p \in Principals, NEW i \in Items, Write(p, i)
  PROVE  LET old == items[i]
             new == items'[i]
         IN  /\ new.revision > 0
             /\ \/ /\ new.gate = old.gate
                   /\ new.implementer = old.implementer
                   /\ new.validator = old.validator
                   /\ (new.status = "closed") <=> (old.status = "closed")
                \/ /\ isNextGate(old.gate, new.gate)
                   /\ new.status = statusForGate(new.gate)
                   /\ old.revision > 0
                   /\ IF new.gate = "development_completed"
                      THEN trusted(p) /\ new.implementer = SourceOf(p)
                      ELSE new.implementer = old.implementer
                   /\ IF new.gate = "production_validated"
                      THEN /\ mayJudge(p, old.implementer)
                           /\ new.validator = SourceOf(p)
                      ELSE new.validator = old.validator
                \/ /\ old.gate = "production_validated"
                   /\ mayJudge(p, old.implementer)
                   /\ old.revision > 0
                   /\ new.gate = old.gate
                   /\ new.status = "closed"
                   /\ new.implementer = old.implementer
                   /\ new.validator = old.validator
<1> DEFINE old == items[i]
<1>1. old \in ItemType /\ old.revision \in Nat /\ Sound(old)
  BY MaxRevisionAssumption DEF IInv, TypeOK, ItemType
<1>2. ASSUME NEW item \in ItemType, NEW steps \in {1, 2}, Save(p, i, item, steps)
      PROVE  /\ items'[i].revision > 0
             /\ items'[i].gate = item.gate
             /\ items'[i].status = item.status
             /\ items'[i].implementer = item.implementer
             /\ items'[i].validator = item.validator
  BY <1>1, <1>2 DEF Save, IInv, TypeOK, ItemType
<1>3. CASE Create(p, i)
  <2>1. old = Absent
    BY <1>3 DEF Create, IInv
  <2> QED
    BY <1>2, <1>3, <2>1, AbsentFacts DEF Create
<1>4. CASE UpdateWorkItem(p, i) \/ AddComment(p, i)
  BY <1>1, <1>2, <1>4 DEF UpdateWorkItem, AddComment
<1>5. CASE \E input \in BlockerInputs :
              UpdateContext(p, i, input) \/ UpdateWorkItemAndContext(p, i, input)
  <2>1. PICK input \in BlockerInputs, steps \in {1, 2} :
           /\ blockerAllowed(old, input)
           /\ Save(p, i, withBlocker(old, input), steps)
    BY <1>5 DEF UpdateContext, UpdateWorkItemAndContext
  <2> DEFINE item == withBlocker(old, input)
  <2>2. item \in ItemType
    BY <1>1, <2>1, BlockerSound
  <2>3. /\ item.gate = old.gate
        /\ item.implementer = old.implementer
        /\ item.validator = old.validator
        /\ (item.status = "closed") <=> (old.status = "closed")
    <3>1. CASE input = "set"
      BY <1>1, <2>1, <3>1 DEF withBlocker, blockerAllowed, ItemType
    <3>2. CASE input = "clear" /\ old.status = "blocked"
      BY <1>1, <3>2, StatusOfGate DEF withBlocker, ItemType
    <3>3. CASE input = "clear" /\ old.status # "blocked"
      BY <1>1, <3>3 DEF withBlocker, ItemType
    <3>4. CASE input = "omitted"
      BY <1>1, <3>4 DEF withBlocker
    <3> QED
      BY <3>1, <3>2, <3>3, <3>4 DEF BlockerInputs
  <2> QED
    BY <1>2, <2>1, <2>2, <2>3
<1>6. CASE \E next \in Gates : AdvanceGate(p, i, next)
  <2>1. PICK next \in Gates : AdvanceGate(p, i, next)
    BY <1>6
  <2> DEFINE item == [old EXCEPT
                         !.gate = next,
                         !.status = statusForGate(next),
                         !.implementer = IF next = "development_completed"
                                         THEN SourceOf(p) ELSE @,
                         !.validator = IF next = "production_validated"
                                       THEN SourceOf(p) ELSE @]
  <2>2. /\ revisionMatches(p, i)
        /\ isNextGate(old.gate, next)
        /\ next = "development_completed" => trusted(p)
        /\ next = "production_validated" => mayJudge(p, old.implementer)
        /\ Save(p, i, item, 1)
    BY <2>1 DEF AdvanceGate
  <2>3. old.revision > 0
    BY <2>2 DEF revisionMatches
  <2>4. next \in {"development_completed", "production_validated"} =>
           SourceOf(p) \in Sources
    BY <2>2, SourceOfType DEF mayJudge, namedJWT
  <2>5. item \in ItemType
    BY <1>1, <2>4, StatusOfGate DEF ItemType
  <2>6. /\ item.gate = next
        /\ item.status = statusForGate(next)
        /\ item.implementer = IF next = "development_completed"
                              THEN SourceOf(p) ELSE old.implementer
        /\ item.validator = IF next = "production_validated"
                            THEN SourceOf(p) ELSE old.validator
    BY <1>1 DEF ItemType
  <2> QED
    BY <1>2, <2>2, <2>3, <2>5, <2>6
<1>7. CASE Close(p, i)
  <2> DEFINE item == [old EXCEPT !.status = "closed",
                                 !.closers = @ \cup {p.subject}]
  <2>1. /\ revisionMatches(p, i)
        /\ old.gate = "production_validated"
        /\ mayJudge(p, old.implementer)
        /\ Save(p, i, item, 1)
    BY <1>7 DEF Close
  <2>2. old.revision > 0
    BY <2>1 DEF revisionMatches
  <2>3. p.subject \in Subjects
    BY <2>1, SourceOfType DEF mayJudge, namedJWT
  <2>4. item \in ItemType
    BY <1>1, <2>3 DEF ItemType, Statuses
  <2>5. /\ item.gate = old.gate
        /\ item.status = "closed"
        /\ item.implementer = old.implementer
        /\ item.validator = old.validator
    BY <1>1 DEF ItemType
  <2> QED
    BY <1>2, <2>1, <2>2, <2>4, <2>5
<1> QED
  BY <1>3, <1>4, <1>5, <1>6, <1>7 DEF Write

(* Closing is final: no later call, stale or fresh, reopens the item or     *)
(* replaces its implementer or validator.                                  *)
THEOREM ClosedStaysClosed == Spec => ClosedIsFinal
<1> DEFINE Kept(i) == items[i].status = "closed" =>
                         /\ items'[i].status = "closed"
                         /\ items'[i].gate = items[i].gate
                         /\ items'[i].implementer = items[i].implementer
                         /\ items'[i].validator = items[i].validator
<1>1. ASSUME IInv, Next PROVE \A i \in Items : Kept(i)
  <2> SUFFICES ASSUME NEW j \in Items, items[j].status = "closed"
               PROVE  /\ items'[j].status = "closed"
                      /\ items'[j].gate = items[j].gate
                      /\ items'[j].implementer = items[j].implementer
                      /\ items'[j].validator = items[j].validator
    OBVIOUS
  <2>1. CASE items' = items
    BY <2>1
  <2>2. ASSUME NEW p \in Principals, NEW i \in Items, Write(p, i),
               \A k \in Items : k # i => items'[k] = items[k]
        PROVE  /\ items'[j].status = "closed"
               /\ items'[j].gate = items[j].gate
               /\ items'[j].implementer = items[j].implementer
               /\ items'[j].validator = items[j].validator
    <3>1. CASE i # j
      BY <2>2, <3>1
    <3>2. CASE i = j
      <4>1. items[j].gate = "production_validated"
        BY <1>1, StatusOfGate DEF IInv, TypeOK, ItemType, Sound, StatusSound
      <4>2. \A g : ~isNextGate(items[j].gate, g)
        BY <4>1 DEF isNextGate
      <4> QED
        BY <1>1, <2>2, <3>2, <4>2, WriteEffect
    <3> QED
      BY <3>1, <3>2
  <2> QED
    BY <1>1, <2>1, <2>2, StepShape
<1>2. IInv /\ [Next]_vars => [\A i \in Items : Kept(i)]_vars
  BY <1>1
<1> QED
  BY <1>2, Invariance, PTL DEF Spec, ClosedIsFinal

(* A row that existed changes only through a principal whose last read of   *)
(* it was that very revision.                                              *)
THEOREM NoUpdateIsLost == Spec => NoLostUpdate
<1> DEFINE Seen(i) ==
              Exists(i) /\ items'[i] # items[i] =>
                 \E p \in Principals :
                    /\ seen[p][i] = items[i].revision
                    /\ seen'[p][i] = items'[i].revision
                    /\ seen'[p][i] > seen[p][i]
<1>1. ASSUME IInv, Next PROVE \A i \in Items : Seen(i)
  <2> SUFFICES ASSUME NEW j \in Items, Exists(j), items'[j] # items[j]
               PROVE  \E p \in Principals :
                         /\ seen[p][j] = items[j].revision
                         /\ seen'[p][j] = items'[j].revision
                         /\ seen'[p][j] > seen[p][j]
    OBVIOUS
  <2>1. PICK p \in Principals, i \in Items :
           /\ Write(p, i)
           /\ \A k \in Items : k # i => items'[k] = items[k]
    BY <1>1, StepShape
  <2>2. i = j
    BY <2>1
  <2>3. revisionMatches(p, j)
    BY <2>1, <2>2
       DEF Write, Create, UpdateWorkItem, AddComment, UpdateContext,
           UpdateWorkItemAndContext, AdvanceGate, Close
  <2>4. PICK item \in ItemType, steps \in {1, 2} : Save(p, j, item, steps)
    BY <1>1, <2>1, <2>2, WriteShape DEF Write, IInv
  <2>5. items[j].revision \in Nat
    BY <1>1, MaxRevisionAssumption DEF IInv, TypeOK, ItemType
  <2>6. /\ items'[j].revision = items[j].revision + steps
        /\ seen'[p][j] = items[j].revision + steps
    BY <1>1, <2>4 DEF Save, IInv, TypeOK, ItemType
  <2> QED
    BY <2>3, <2>5, <2>6 DEF revisionMatches
<1>2. IInv /\ [Next]_vars => [\A i \in Items : Seen(i)]_vars
  BY <1>1
<1> QED
  BY <1>2, Invariance, PTL DEF Spec, NoLostUpdate

-----------------------------------------------------------------------------
(* Refinement.                                                             *)

(* The lifecycle implements the separation of duties of DutySeparation.     *)
THEOREM ImplementsDutySeparation == Spec => DutySpec
<1>1. Init => Duty!Init
  BY DEF Init, Duty!Init, StageOf, Absent
<1>2. ASSUME IInv, [Next]_vars PROVE [Duty!Next]_(Duty!dvars)
  <2>1. CASE items' = items
    BY <2>1 DEF Duty!dvars
  <2>2. ASSUME NEW p \in Principals, NEW i \in Items, Write(p, i),
               \A j \in Items : j # i => items'[j] = items[j]
        PROVE  [Duty!Next]_(Duty!dvars)
    <3> DEFINE old == items[i]
               new == items'[i]
               stages == [j \in Items |-> StageOf(items[j])]
               impls == [j \in Items |-> items[j].implementer]
               valids == [j \in Items |-> items[j].validator]
    <3>1. /\ stages' = [stages EXCEPT ![i] = StageOf(new)]
          /\ impls' = [impls EXCEPT ![i] = new.implementer]
          /\ valids' = [valids EXCEPT ![i] = new.validator]
      BY <2>2
    <3>2. old \in ItemType /\ Sound(old) /\ (old.revision = 0 => old = Absent)
      BY <1>2, MaxRevisionAssumption DEF IInv, TypeOK, Exists, ItemType
    <3>3. new \in ItemType /\ new.revision > 0
      <4>1. IInv'
        BY <1>2, NextIInv
      <4> QED
        BY <1>2, <2>2, <4>1, WriteEffect DEF IInv, TypeOK
    <3>4. CASE /\ new.gate = old.gate
               /\ new.implementer = old.implementer
               /\ new.validator = old.validator
               /\ (new.status = "closed") <=> (old.status = "closed")
      <4>1. impls' = impls /\ valids' = valids
        BY <3>1, <3>4
      <4>2. CASE old.revision = 0
        <5>1. StageOf(old) = "absent" /\ StageOf(new) = "open"
          BY <3>2, <3>3, <3>4, <4>2 DEF StageOf, Absent, ItemType
        <5>2. Duty!Open(i)
          BY <3>1, <4>1, <5>1 DEF Duty!Open
        <5> QED
          BY <5>2 DEF Duty!Next
      <4>3. CASE old.revision > 0
        <5>1. StageOf(new) = StageOf(old)
          BY <3>2, <3>3, <3>4, <4>3 DEF StageOf, ItemType
        <5> QED
          BY <3>1, <4>1, <5>1 DEF Duty!dvars
      <4> QED
        BY <3>2, <4>2, <4>3, MaxRevisionAssumption DEF ItemType
    <3>5. CASE /\ isNextGate(old.gate, new.gate)
               /\ new.status = statusForGate(new.gate)
               /\ old.revision > 0
               /\ IF new.gate = "development_completed"
                  THEN trusted(p) /\ new.implementer = SourceOf(p)
                  ELSE new.implementer = old.implementer
               /\ IF new.gate = "production_validated"
                  THEN /\ mayJudge(p, old.implementer)
                       /\ new.validator = SourceOf(p)
                  ELSE new.validator = old.validator
      <4>1. new.status # "closed"
        BY <3>3, <3>5, StatusOfGate DEF ItemType
      <4>2. old.status # "closed"
        BY <3>2, <3>5, StatusOfGate
           DEF Sound, StatusSound, ItemType, isNextGate
      <4>3. CASE new.gate \in {"solution_reviewed", "test_passed"}
        <5>1. StageOf(new) = StageOf(old)
          BY <3>3, <3>5, <4>1, <4>2, <4>3 DEF StageOf, isNextGate
        <5> QED
          BY <3>1, <3>5, <4>3, <5>1 DEF Duty!dvars
      <4>4. CASE new.gate = "development_completed"
        <5>1. StageOf(old) = "open" /\ StageOf(new) = "implemented"
          BY <3>3, <3>5, <4>1, <4>2, <4>4 DEF StageOf, isNextGate
        <5>2. SourceOf(p) \in Sources
          BY <3>5, <4>4, SourceOfType
        <5>3. Duty!Implement(i, SourceOf(p))
          BY <3>1, <3>5, <4>4, <5>1 DEF Duty!Implement
        <5> QED
          BY <5>2, <5>3 DEF Duty!Next
      <4>5. CASE new.gate = "production_validated"
        <5>1. StageOf(old) = "implemented" /\ StageOf(new) = "validated"
          BY <3>3, <3>5, <4>1, <4>2, <4>5 DEF StageOf, isNextGate
        <5>2. /\ SourceOf(p) \in Sources
              /\ Duty!Independent(SourceOf(p), old.implementer)
          BY <3>5, <4>5, SourceOfType DEF mayJudge, namedJWT, Duty!Independent
        <5>3. Duty!Validate(i, SourceOf(p))
          BY <3>1, <3>5, <4>5, <5>1, <5>2 DEF Duty!Validate
        <5> QED
          BY <5>2, <5>3 DEF Duty!Next
      <4> QED
        BY <3>5, <4>3, <4>4, <4>5 DEF isNextGate
    <3>6. CASE /\ old.gate = "production_validated"
               /\ mayJudge(p, old.implementer)
               /\ old.revision > 0
               /\ new.gate = old.gate
               /\ new.status = "closed"
               /\ new.implementer = old.implementer
               /\ new.validator = old.validator
      <4>1. impls' = impls /\ valids' = valids
        BY <3>1, <3>6
      <4>2. StageOf(new) = "closed"
        BY <3>3, <3>6 DEF StageOf
      <4>3. CASE old.status = "closed"
        <5>1. StageOf(old) = "closed"
          BY <3>6, <4>3 DEF StageOf
        <5>2. stages' = stages
          BY <3>1, <4>2, <5>1
        <5> QED
          BY <4>1, <5>2 DEF Duty!dvars
      <4>4. CASE old.status # "closed"
        <5>1. StageOf(old) = "validated"
          BY <3>6, <4>4 DEF StageOf
        <5>2. /\ SourceOf(p) \in Sources
              /\ Duty!Independent(SourceOf(p), old.implementer)
          BY <3>6, SourceOfType DEF mayJudge, namedJWT, Duty!Independent
        <5>3. Duty!Close(i, SourceOf(p))
          BY <3>1, <4>1, <4>2, <5>1, <5>2 DEF Duty!Close
        <5> QED
          BY <5>2, <5>3 DEF Duty!Next
      <4> QED
        BY <4>3, <4>4
    <3> QED
      BY <1>2, <2>2, <3>4, <3>5, <3>6, WriteEffect
  <2>3. CASE UNCHANGED vars
    BY <2>1, <2>3 DEF vars
  <2> QED
    BY <1>2, <2>1, <2>2, <2>3, StepShape
<1>3. IInv /\ [Next]_vars => [Duty!Next]_(Duty!dvars)
  BY <1>2
<1> QED
  BY <1>1, <1>3, Invariance, PTL DEF Spec, DutySpec, Duty!Spec
=============================================================================
