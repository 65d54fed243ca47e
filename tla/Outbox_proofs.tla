---------------------------- MODULE Outbox_proofs ----------------------------
(***************************************************************************)
(* Safety of Outbox for every set of events and workers, every list of     *)
(* channels and all bounds; in the second part, of EventRuntime for every  *)
(* set of processes, items and files; and, in the third, of Startup for    *)
(* every set of processes and users, every release and every forged row.   *)
(***************************************************************************)
EXTENDS Outbox, EventRuntime, Startup, SequenceTheorems, TLAPS

(* The order of the rows plays no part in safety, so the types leave it out.*)
Types ==
    /\ rows \in [Events -> RowType]
    /\ claimed \in [Workers -> [Events -> ClaimType]]
    /\ inbox \in [Events -> {0, 1}]
    /\ sent \subseteq Events \X ToSet(Channels)
    /\ faults \in 0..MaxFaults

delivered(e) == \A c \in ToSet(Channels) : <<e, c>> \in sent

(* What a worker takes for a success was delivered to every channel, and    *)
(* stays so while the worker waits to say it.                              *)
ClaimsAreHonest ==
    \A w \in Workers, e \in Events :
        claimed[w][e].result = "succeeded" => delivered(e)

IInv == Types /\ ClaimsAreHonest /\ PublishedWasDelivered

-----------------------------------------------------------------------------

(* The next number of attempts keeps its range.                             *)
LEMMA AttemptsInRange ==
    ASSUME rows \in [Events -> RowType], NEW e \in Events
    PROVE  nextAttempt(e) \in 1..MaxAttempts
  BY BoundsAssumption DEF nextAttempt, RowType

(* A delivery that reached as many channels as there are reached them all.  *)
LEMMA AllReached ==
    \A reached \in 0..Len(Channels) :
        /\ {Channels[k] : k \in 1..reached} \subseteq ToSet(Channels)
        /\ succeeds(reached) => ToSet(Channels) = {Channels[k] : k \in 1..reached}
  BY ChannelsAssumption DEF ToSet, succeeds

(* What finishing a claim writes into a row.                                *)
LEMMA OutcomeType ==
    ASSUME NEW claim \in ClaimType
    PROVE  /\ outcome(claim).status \in {"published", "dead_letter", "pending"}
           /\ outcome(claim).left \in 0..(Lease + Delay)
           /\ outcome(claim).status = "published" => claim.result = "succeeded"
  BY BoundsAssumption DEF outcome, ClaimType

LEMMA InitIInv == Init => IInv
  <1> SUFFICES ASSUME Init PROVE IInv
    OBVIOUS
  <1>1. NoRow \in RowType /\ NoClaim \in ClaimType
    BY BoundsAssumption DEF NoRow, NoClaim, RowType, ClaimType, Statuses
  <1>2. Types
    BY <1>1, BoundsAssumption DEF Init, Types
  <1>3. ClaimsAreHonest
    BY DEF Init, ClaimsAreHonest, NoClaim
  <1>4. PublishedWasDelivered
    BY DEF Init, PublishedWasDelivered, NoRow
  <1> QED
    BY <1>2, <1>3, <1>4 DEF IInv

LEMMA NextIInv == IInv /\ [Next]_vars => IInv'
  <1> SUFFICES ASSUME IInv, [Next]_vars PROVE IInv'
    OBVIOUS
  <1> USE DEF IInv
  <1>1. ASSUME NEW e \in Events, Enqueue(e) PROVE IInv'
    <2>1. rows' \in [Events -> RowType]
      BY <1>1, BoundsAssumption DEF Enqueue, Types, RowType, NoRow, Statuses
    <2>2. PublishedWasDelivered'
      BY <1>1 DEF Enqueue, Types, PublishedWasDelivered, NoRow
    <2> QED
      BY <1>1, <2>1, <2>2 DEF Enqueue, Types, ClaimsAreHonest, delivered
  <1>2. ASSUME NEW w \in Workers, Claim(w) PROVE IInv'
    <2>1. PICK batch \in SUBSET Events :
             /\ claimed' = [claimed EXCEPT ![w] = [e \in Events |->
                   IF e \in batch
                   THEN [attempts |-> nextAttempt(e), result |-> "open"]
                   ELSE NoClaim]]
             /\ rows' = [e \in Events |->
                   IF e \in batch
                   THEN [status |-> "in_flight", attempts |-> nextAttempt(e),
                         left |-> Lease]
                   ELSE rows[e]]
      BY <1>2 DEF Claim, oldest
    <2>2. \A e \in Events : nextAttempt(e) \in 1..MaxAttempts
      BY AttemptsInRange DEF Types
    <2>3. rows' \in [Events -> RowType]
      BY <2>1, <2>2, BoundsAssumption DEF Types, RowType, Statuses
    <2>4. claimed' \in [Workers -> [Events -> ClaimType]]
      BY <2>1, <2>2, BoundsAssumption DEF Types, ClaimType, NoClaim
    <2>5. ClaimsAreHonest'
      BY <1>2, <2>1 DEF Claim, Types, ClaimsAreHonest, delivered, NoClaim
    <2>6. PublishedWasDelivered'
      BY <1>2, <2>1 DEF Claim, Types, PublishedWasDelivered
    <2> QED
      BY <1>2, <2>3, <2>4, <2>5, <2>6 DEF Claim, Types
  <1>3. ASSUME NEW w \in Workers, NEW e \in Events, Publish(w, e) PROVE IInv'
    <2>1. PICK reached \in 0..Len(Channels), result \in {"succeeded", "failed"} :
             /\ result = "succeeded" => succeeds(reached)
             /\ sent' = sent \cup {<<e, c>> : c \in {Channels[k] : k \in 1..reached}}
             /\ inbox' = [inbox EXCEPT ![e] =
                   IF "local-inbox" \in {Channels[k] : k \in 1..reached}
                   THEN saved(e) ELSE @]
             /\ claimed' = [claimed EXCEPT ![w][e].result = result]
      BY <1>3 DEF Publish
    <2>2. sent' \subseteq Events \X ToSet(Channels) /\ sent \subseteq sent'
      BY <2>1, AllReached DEF Types
    <2>3. inbox' \in [Events -> {0, 1}]
      BY <2>1 DEF Types, saved
    <2>4. claimed' \in [Workers -> [Events -> ClaimType]]
      <3>1. claimed[w] \in [Events -> ClaimType] /\ claimed[w][e] \in ClaimType
        BY DEF Types
      <3>2. [claimed[w][e] EXCEPT !.result = result] \in ClaimType
        BY <3>1 DEF ClaimType
      <3>3. [claimed[w] EXCEPT ![e].result = result] \in [Events -> ClaimType]
        BY <3>1, <3>2
      <3> QED
        BY <2>1, <3>3 DEF Types
    <2>5. result = "succeeded" => delivered(e)'
      BY <2>1, AllReached DEF delivered
    <2>6. ClaimsAreHonest'
      BY <2>1, <2>2, <2>5 DEF Types, ClaimType, ClaimsAreHonest, delivered
    <2>7. PublishedWasDelivered'
      BY <1>3, <2>2 DEF Publish, PublishedWasDelivered
    <2> QED
      BY <1>3, <2>2, <2>3, <2>4, <2>6, <2>7 DEF Publish, Types
  <1>4. ASSUME NEW w \in Workers, NEW e \in Events, Finish(w, e) PROVE IInv'
    <2> DEFINE end == outcome(claimed[w][e])
    <2>1. /\ end.status \in {"published", "dead_letter", "pending"}
          /\ end.left \in 0..(Lease + Delay)
          /\ end.status = "published" => claimed[w][e].result = "succeeded"
      BY OutcomeType DEF Types
    <2>2. rows' = rows \/ rows' = [rows EXCEPT ![e].status = end.status,
                                               ![e].left = end.left]
      BY <1>4 DEF Finish
    <2> HIDE DEF end
    <2>3. rows' \in [Events -> RowType]
      BY <2>1, <2>2 DEF Types, RowType, Statuses
    <2>4. claimed' \in [Workers -> [Events -> ClaimType]]
      BY <1>4, BoundsAssumption DEF Finish, Types, ClaimType, NoClaim
    <2>5. ClaimsAreHonest'
      BY <1>4 DEF Finish, Types, ClaimsAreHonest, delivered, NoClaim
    <2>6. end.status = "published" => delivered(e)
      BY <2>1 DEF ClaimsAreHonest
    <2>7. PublishedWasDelivered'
      BY <1>4, <2>2, <2>6 DEF Finish, Types, RowType, PublishedWasDelivered, delivered
    <2> QED
      BY <1>4, <2>3, <2>4, <2>5, <2>7 DEF Finish, Types
  <1>5. ASSUME NEW w \in Workers, Crash(w) PROVE IInv'
    <2>1. claimed' \in [Workers -> [Events -> ClaimType]]
      BY <1>5, BoundsAssumption DEF Crash, Types, ClaimType, NoClaim
    <2>2. ClaimsAreHonest'
      BY <1>5 DEF Crash, Types, ClaimsAreHonest, delivered, NoClaim
    <2> QED
      BY <1>5, <2>1, <2>2, BoundsAssumption
      DEF Crash, Types, PublishedWasDelivered
  <1>6. ASSUME NEW w \in Workers, NEW e \in Events, FinishFails(w, e) PROVE IInv'
    <2>1. claimed' \in [Workers -> [Events -> ClaimType]]
      BY <1>6, BoundsAssumption DEF FinishFails, Types, ClaimType, NoClaim
    <2>2. ClaimsAreHonest'
      BY <1>6 DEF FinishFails, Types, ClaimsAreHonest, delivered, NoClaim
    <2> QED
      BY <1>6, <2>1, <2>2, BoundsAssumption
      DEF FinishFails, Types, PublishedWasDelivered
  <1>7. ASSUME Tick PROVE IInv'
    <2>1. rows' \in [Events -> RowType]
      BY <1>7, BoundsAssumption DEF Tick, Types, RowType
    <2>2. \A e \in Events : rows'[e].status = rows[e].status
      BY <1>7 DEF Tick, Types, RowType
    <2> QED
      BY <1>7, <2>1, <2>2
      DEF Tick, Types, ClaimsAreHonest, delivered, PublishedWasDelivered
  <1>8. CASE UNCHANGED vars
    BY <1>8 DEF vars, Types, ClaimsAreHonest, delivered, PublishedWasDelivered
  <1> QED
    BY <1>1, <1>2, <1>3, <1>4, <1>5, <1>6, <1>7, <1>8 DEF Next, Dispatch

LEMMA Inductive == Spec => []IInv
  BY InitIInv, NextIInv, PTL DEF Spec

-----------------------------------------------------------------------------

(* Rows, claims, inbox and deliveries keep their types in all steps, and    *)
(* the order stays a list of events wherever a new row enters it.           *)
THEOREM TypeCorrect == Spec => []TypeOK
  <1>1. Init => order \in Seq(Events)
    BY DEF Init
  <1>2. order \in Seq(Events) /\ [Next]_vars => (order \in Seq(Events))'
    <2> SUFFICES ASSUME order \in Seq(Events), [Next]_vars
                 PROVE  order' \in Seq(Events)
      OBVIOUS
    <2>1. ASSUME NEW e \in Events, Enqueue(e) PROVE order' \in Seq(Events)
      <3>1. PICK k \in 1..(Len(order) + 1) : order' = InsertAt(order, k, e)
        BY <2>1 DEF Enqueue
      <3>2. SubSeq(order, 1, k - 1) \in Seq(Events)
        BY SubSeqProperties
      <3>3. SubSeq(order, k, Len(order)) \in Seq(Events)
        BY SubSeqProperties
      <3> QED
        BY <3>1, <3>2, <3>3 DEF InsertAt
    <2>2. CASE UNCHANGED order
      BY <2>2
    <2> QED
      BY <2>1, <2>2
      DEF Next, Dispatch, Claim, Publish, Finish, Crash, FinishFails, Tick, vars
  <1>3. Types /\ order \in Seq(Events) => TypeOK
    BY DEF Types, TypeOK
  <1> QED
    BY <1>1, <1>2, <1>3, Inductive, PTL DEF IInv, Spec

(* An event is marked as published only when every channel has got it, also *)
(* by a worker that lost its lease (finishLease compares the owner, which   *)
(* all workers share).                                                     *)
THEOREM PublishedEventsWereDelivered == Spec => []PublishedWasDelivered
  BY Inductive, PTL DEF IInv

(* INSERT OR IGNORE keeps one inbox row of an event through all deliveries.  *)
THEOREM InboxIsIdempotent == Spec => []InboxShowsOnce
  <1>1. IInv => InboxShowsOnce
    BY DEF IInv, Types, InboxShowsOnce
  <1> QED
    BY <1>1, Inductive, PTL

(* The three together: the invariant the runs check.                        *)
THEOREM DeliveryInvariantHolds == Spec => []DeliveryInvariant
<1>1. TypeOK /\ PublishedWasDelivered /\ InboxShowsOnce => DeliveryInvariant
  BY DEF DeliveryInvariant
<1> QED
  BY <1>1, TypeCorrect, PublishedEventsWereDelivered, InboxIsIdempotent, PTL

(* Published and buried events keep their status: claims select other rows, *)
(* finishing statements demand a row in flight, identifiers are unique.     *)
THEOREM OutcomesAreFinal == Spec => FinishedIsFinal
  <1> DEFINE Final ==
        \A e \in Events :
            rows[e].status \in {"published", "dead_letter"} =>
                rows'[e].status = rows[e].status
  <1>1. ASSUME IInv, [Next]_vars PROVE Final
    <2> USE <1>1 DEF IInv, Types, RowType
    <2>1. ASSUME NEW e \in Events, Enqueue(e) PROVE Final
      BY <2>1 DEF Enqueue, accepts
    <2>2. ASSUME NEW w \in Workers, Claim(w) PROVE Final
      BY <2>2 DEF Claim, oldest, claimable
    <2>3. ASSUME NEW w \in Workers, NEW e \in Events, Publish(w, e) PROVE Final
      BY <2>3 DEF Publish
    <2>4. ASSUME NEW w \in Workers, NEW e \in Events, Finish(w, e) PROVE Final
      BY <2>4 DEF Finish, holdsLease
    <2>5. ASSUME NEW w \in Workers, Crash(w) PROVE Final
      BY <2>5 DEF Crash
    <2>6. ASSUME NEW w \in Workers, NEW e \in Events, FinishFails(w, e) PROVE Final
      BY <2>6 DEF FinishFails
    <2>7. CASE Tick \/ UNCHANGED vars
      BY <2>7 DEF Tick, vars
    <2> QED
      BY <1>1, <2>7, <2>1, <2>2, <2>3, <2>4, <2>5, <2>6 DEF Next, Dispatch
  <1>2. [][Final]_vars <=> FinishedIsFinal
    BY PTL DEF FinishedIsFinal
  <1> QED
    BY <1>1, Inductive, PTL DEF Spec, FinishedIsFinal

-----------------------------------------------------------------------------
(* The event runtime.                                                       *)

Revisions == [Items -> 0..MaxEdits]

Loop ==
    [stage : {"none", "waiting", "listed", "queueing"}, listed : [Items -> Item],
     rest : SUBSET Items, day : 0..MaxDay]

Export ==
    [stage : {"off", "polling", "claimed", "writing"}, event : Event \cup {NoEvent},
     listing : Revisions, at : 0..(Len(Files) + 1), alone : BOOLEAN]

RuntimeTypes ==
    /\ RuntimeTypeOK
    /\ reminders \in [Applications -> Loop]
    /\ exports \in [Applications -> Export]
    /\ vault = [f \in ToSet(Files) |-> vault[f]]
    /\ vault[Overview] \in Revisions
    /\ \A i \in Items : vault[i] \in 0..MaxEdits

(* Where a process is in its life, and what can be left of its loop and of  *)
(* its dispatcher there.                                                    *)
processInOrder(p, phase, overdue, loop, export) ==
    /\ loop.stage = "none" <=> loop = NoLoop
    /\ loop.stage = "queueing" => loop.day >= 1
    /\ phase \in {"down", "prepared", "bound"} => loop = NoLoop /\ export = Off
    /\ phase = "draining" /\ p \notin overdue => loop = NoLoop
    /\ phase = "closed" /\ p \notin overdue => loop = NoLoop /\ export = Off

LivesInOrder ==
    \A p \in Applications : processInOrder(p, life[p], late, reminders[p], exports[p])

(* A change is queued with its revision, and none comes before it.          *)
eventsInOrder(rs, st) ==
    \A i \in Items :
       /\ rs[i] > 0 => changed(i, rs[i]) \in st
       /\ \A r \in 1..MaxEdits : changed(i, r) \in st => r <= rs[i]

(* The change that made the row what it is has been published.              *)
upToDate(i, rs, done) == rs[i] = 0 \/ changed(i, rs[i]) \in done

(* What an export has listed is no newer than the rows, and no older than   *)
(* its event.  One that is alone has what was published when it began, and  *)
(* nothing was published since; the files it wrote are as it wrote them.    *)
exportInOrder(e, rs, st, done, v) ==
    /\ e.stage \in {"claimed", "writing"} => e.event \in st
    /\ e.stage = "writing" =>
          /\ e.at >= 1
          /\ \A i \in Items :
                /\ e.listing[i] <= rs[i]
                /\ \A r \in 1..MaxEdits : e.event = changed(i, r) => r <= e.listing[i]
          /\ e.alone =>
                /\ \A i \in Items : upToDate(i, rs, done) => e.listing[i] = rs[i]
                /\ \A k \in 1..(e.at - 1) : v[Files[k]] = shown(Files[k], e.listing)

(* Only one export is alone, and if none was mixed with another, each is.   *)
Alone ==
    \A p, q \in Applications :
       exports[p].stage = "writing" /\ exports[q].stage = "writing" =>
          /\ exports[p].alone => p = q
          /\ ~mixed => exports[p].alone

(* Then the vault has all that was published.                               *)
vaultInOrder(v, rs, done) ==
    \A i \in Items : upToDate(i, rs, done) => v[i] = rs[i] /\ v[Overview][i] = rs[i]

ProjectionInOrder ==
    /\ eventsInOrder(revisions, staged)
    /\ \A p \in Applications : exportInOrder(exports[p], revisions, staged, settled, vault)
    /\ Alone
    /\ ~mixed => vaultInOrder(vault, revisions, settled)

RuntimeIInv == RuntimeTypes /\ LivesInOrder /\ ProjectionInOrder

-----------------------------------------------------------------------------

LEMMA FileFacts ==
    /\ ToSet(Files) = Items \cup {Overview} /\ Overview \notin Items
    /\ Len(Files) \in Nat
    /\ \A k \in 1..Len(Files) : Files[k] \in ToSet(Files)
    /\ \A f \in ToSet(Files) : \E k \in 1..Len(Files) : Files[k] = f
  BY RuntimeAssumption DEF ToSet

LEMMA BoundFacts ==
    /\ MaxDay \in Nat /\ MaxDay > 0 /\ LeadDays \in Nat /\ MaxEdits \in Nat /\ MaxFailures \in Nat
  BY RuntimeAssumption

LEMMA EventsApart ==
    ASSUME NEW i, NEW j, NEW r, NEW s
    PROVE  /\ changed(i, r) # reminder(j, s)
           /\ changed(i, r) = changed(j, s) => i = j /\ r = s
  BY DEF changed, reminder

LEMMA LoopFacts ==
    /\ NoLoop \in Loop /\ NoLoop.stage = "none"
    /\ Waiting \in Loop /\ Waiting.stage = "waiting" /\ Waiting # NoLoop
  <1>1. [i \in Items |-> [revision |-> 0, due |-> 0, open |-> FALSE]] \in [Items -> Item]
    BY BoundFacts DEF Item
  <1>2. NoLoop \in Loop /\ NoLoop.stage = "none"
    BY <1>1, BoundFacts DEF NoLoop, Loop
  <1>3. Waiting \in Loop /\ Waiting.stage = "waiting"
    BY <1>2 DEF Waiting, Loop
  <1> QED
    BY <1>2, <1>3

LEMMA ExportFacts ==
    /\ Off \in Export /\ Off.stage = "off" /\ Off.alone = FALSE
    /\ Polling \in Export /\ Polling.stage = "polling"
  <1>1. [i \in Items |-> 0] \in Revisions
    BY BoundFacts DEF Revisions
  <1>2. Off \in Export /\ Off.stage = "off" /\ Off.alone = FALSE
    BY <1>1, FileFacts DEF Off, Export
  <1>3. Polling \in Export /\ Polling.stage = "polling"
    BY <1>2 DEF Polling, Export
  <1> QED
    BY <1>2, <1>3

LEMMA RevisionFacts ==
    ASSUME workItems \in [Items -> Item]
    PROVE  revisions \in Revisions /\ \A i \in Items : revisions[i] = workItems[i].revision
  BY DEF revisions, Revisions, Item

LEMMA RuntimeStart == RuntimeInit => RuntimeIInv
  <1> SUFFICES ASSUME RuntimeInit PROVE RuntimeIInv
    OBVIOUS
  <1>1. workItems \in [Items -> Item] /\ \A i \in Items : workItems[i].revision = 0
    BY DEF RuntimeInit
  <1>2. revisions \in Revisions /\ \A i \in Items : revisions[i] = 0
    BY <1>1, RevisionFacts
  <1>3. /\ vault = [f \in ToSet(Files) |-> shown(f, revisions)]
        /\ vault[Overview] = revisions
        /\ \A i \in Items : vault[i] = revisions[i]
    BY FileFacts DEF RuntimeInit, shown
  <1>4. /\ \A p \in Applications : life[p] = "down" /\ reminders[p] = NoLoop /\ exports[p] = Off
        /\ staged = {} /\ settled = {}
    BY DEF RuntimeInit
  <1>5. RuntimeTypes
    <2>1. reminders \in [Applications -> Loop] /\ exports \in [Applications -> Export]
      BY LoopFacts, ExportFacts DEF RuntimeInit
    <2>2. RuntimeTypeOK
      <3>1. \A p \in Applications :
              /\ reminders[p].stage \in {"none", "waiting", "listed", "queueing"}
              /\ reminders[p].rest \subseteq Items
              /\ exports[p].stage \in {"off", "polling", "claimed", "writing"}
              /\ exports[p].event \in Event \cup {NoEvent}
        BY <2>1 DEF Loop, Export
      <3>2. life \in [Applications -> Lives]
        BY DEF RuntimeInit, Lives
      <3>3. /\ today = 1 /\ staged = {} /\ settled = {} /\ late = {}
            /\ mixed = FALSE /\ failures = 0
        BY DEF RuntimeInit
      <3>4. today \in 1..MaxDay /\ failures \in 0..MaxFailures
        BY <3>3, BoundFacts
      <3> QED
        BY <1>1, <3>1, <3>2, <3>3, <3>4 DEF RuntimeTypeOK
    <2>3. /\ vault = [f \in ToSet(Files) |-> vault[f]] /\ vault[Overview] \in Revisions
          /\ \A i \in Items : vault[i] \in 0..MaxEdits
      BY <1>2, <1>3, BoundFacts
    <2> QED
      BY <2>1, <2>2, <2>3 DEF RuntimeTypes
  <1>6. LivesInOrder
    BY <1>4, LoopFacts DEF LivesInOrder, processInOrder
  <1>7. ProjectionInOrder
    <2>1. eventsInOrder(revisions, staged)
      BY <1>2, <1>4 DEF eventsInOrder
    <2>2. \A p \in Applications : exportInOrder(exports[p], revisions, staged, settled, vault)
      BY <1>4, ExportFacts DEF exportInOrder
    <2>3. Alone
      BY <1>4, ExportFacts DEF Alone
    <2>4. vaultInOrder(vault, revisions, settled)
      BY <1>2, <1>3 DEF vaultInOrder
    <2> QED
      BY <2>1, <2>2, <2>3, <2>4 DEF ProjectionInOrder
  <1> QED
    BY <1>5, <1>6, <1>7 DEF RuntimeIInv

(* Once all is published, the files show the rows.                          *)
LEMMA PublishedIsShown == RuntimeIInv => RuntimeInvariant
  <1> SUFFICES ASSUME RuntimeIInv PROVE RuntimeInvariant
    OBVIOUS
  <1>1. RuntimeTypeOK /\ workItems \in [Items -> Item] /\ settled \subseteq staged
    BY DEF RuntimeIInv, RuntimeTypes, RuntimeTypeOK
  <1>2. revisions \in Revisions
    BY <1>1, RevisionFacts
  <1>3. NothingOutlivesShutdown
    BY DEF RuntimeIInv, LivesInOrder, processInOrder, NothingOutlivesShutdown
  <1>4. ASSUME staged = settled, ~mixed, NEW f \in ToSet(Files) PROVE vault[f] = shown(f, revisions)
    <2>1. \A i \in Items : upToDate(i, revisions, settled)
      BY <1>2, <1>4 DEF RuntimeIInv, ProjectionInOrder, eventsInOrder, upToDate, Revisions
    <2>2. \A i \in Items : vault[i] = revisions[i] /\ vault[Overview][i] = revisions[i]
      BY <1>4, <2>1 DEF RuntimeIInv, ProjectionInOrder, vaultInOrder
    <2>3. vault[Overview] = revisions
      BY <1>2, <2>2 DEF RuntimeIInv, RuntimeTypes, Revisions
    <2> QED
      BY <2>2, <2>3, FileFacts DEF shown
  <1> QED
    BY <1>1, <1>3, <1>4 DEF RuntimeInvariant, VaultShowsRows

-----------------------------------------------------------------------------
(* Steps of one process, as far as its loop and its dispatcher go.          *)

LEMMA ProcessMoves ==
    ASSUME LivesInOrder, NEW p \in Applications,
           \A q \in Applications \ {p} :
              /\ life'[q] = life[q] /\ reminders'[q] = reminders[q] /\ exports'[q] = exports[q]
              /\ q \in late' <=> q \in late,
           processInOrder(p, life'[p], late', reminders'[p], exports'[p])
    PROVE  LivesInOrder'
  BY DEF LivesInOrder, processInOrder

LEMMA TypesGoOn ==
    ASSUME RuntimeTypes,
           today' \in 1..MaxDay, workItems' \in [Items -> Item],
           settled' \subseteq staged', staged' \subseteq Event,
           life' \in [Applications -> Lives], late' \subseteq Applications,
           reminders' \in [Applications -> Loop], exports' \in [Applications -> Export],
           mixed' \in BOOLEAN, failures' \in 0..MaxFailures,
           vault' = [f \in ToSet(Files) |-> vault'[f]], vault'[Overview] \in Revisions,
           \A i \in Items : vault'[i] \in 0..MaxEdits
    PROVE  RuntimeTypes'
  <1>1. \A p \in Applications :
          /\ reminders'[p].stage \in {"none", "waiting", "listed", "queueing"}
          /\ reminders'[p].rest \subseteq Items
          /\ exports'[p].stage \in {"off", "polling", "claimed", "writing"}
          /\ exports'[p].event \in Event \cup {NoEvent}
    BY DEF Loop, Export
  <1> QED
    BY <1>1 DEF RuntimeTypes, RuntimeTypeOK

LEMMA Typed ==
    ASSUME RuntimeTypes
    PROVE  /\ today \in 1..MaxDay /\ workItems \in [Items -> Item]
           /\ settled \subseteq staged /\ staged \subseteq Event
           /\ life \in [Applications -> Lives] /\ late \subseteq Applications
           /\ reminders \in [Applications -> Loop] /\ exports \in [Applications -> Export]
           /\ mixed \in BOOLEAN /\ failures \in 0..MaxFailures
           /\ vault = [f \in ToSet(Files) |-> vault[f]] /\ vault[Overview] \in Revisions
           /\ \A i \in Items : vault[i] \in 0..MaxEdits
           /\ revisions \in Revisions
           /\ failures < MaxFailures => failures + 1 \in 0..MaxFailures
  <1>1. /\ workItems \in [Items -> Item] /\ failures \in 0..MaxFailures
    BY DEF RuntimeTypes, RuntimeTypeOK
  <1>2. revisions \in Revisions
    BY <1>1, RevisionFacts
  <1>3. failures < MaxFailures => failures + 1 \in 0..MaxFailures
    BY <1>1, BoundFacts
  <1> QED
    BY <1>1, <1>2, <1>3 DEF RuntimeTypes, RuntimeTypeOK

(* A process, its loop and its export become x, y and z.                    *)
LEMMA ProcessBecomes ==
    ASSUME RuntimeTypes, LivesInOrder, NEW p \in Applications,
           NEW x \in Lives, NEW y \in Loop, NEW z \in Export,
           life' = [life EXCEPT ![p] = x], reminders' = [reminders EXCEPT ![p] = y],
           exports' = [exports EXCEPT ![p] = z],
           late' = late \/ late' = late \cup {p} \/ late' = late \ {p},
           failures' \in 0..MaxFailures,
           processInOrder(p, x, late', y, z),
           UNCHANGED <<today, workItems>>,
           settled' \subseteq staged', staged' \subseteq Event, mixed' \in BOOLEAN,
           vault' = [f \in ToSet(Files) |-> vault'[f]], vault'[Overview] \in Revisions,
           \A i \in Items : vault'[i] \in 0..MaxEdits
    PROVE  RuntimeTypes' /\ LivesInOrder'
  <1>1. /\ today \in 1..MaxDay /\ workItems \in [Items -> Item]
        /\ life \in [Applications -> Lives] /\ late \subseteq Applications
        /\ reminders \in [Applications -> Loop] /\ exports \in [Applications -> Export]
    BY Typed
  <1>2. /\ life' \in [Applications -> Lives] /\ late' \subseteq Applications
        /\ reminders' \in [Applications -> Loop] /\ exports' \in [Applications -> Export]
    BY <1>1
  <1>3. RuntimeTypes'
    BY <1>1, <1>2, TypesGoOn
  <1>4. life'[p] = x /\ reminders'[p] = y /\ exports'[p] = z
    BY <1>1
  <1>5. \A q \in Applications \ {p} :
           /\ life'[q] = life[q] /\ reminders'[q] = reminders[q] /\ exports'[q] = exports[q]
           /\ q \in late' <=> q \in late
    BY <1>1
  <1>6. LivesInOrder'
    BY <1>4, <1>5, ProcessMoves
  <1> QED
    BY <1>3, <1>6

(* The same where rows, events and vault stay as they are.                  *)
LEMMA ProcessAlone ==
    ASSUME RuntimeTypes, LivesInOrder, NEW p \in Applications,
           NEW x \in Lives, NEW y \in Loop, NEW z \in Export,
           life' = [life EXCEPT ![p] = x], reminders' = [reminders EXCEPT ![p] = y],
           exports' = [exports EXCEPT ![p] = z],
           late' = late \/ late' = late \cup {p} \/ late' = late \ {p},
           failures' = failures \/ fails,
           processInOrder(p, x, late', y, z),
           rowsUnchanged
    PROVE  RuntimeTypes' /\ LivesInOrder'
  <1>1. failures' \in 0..MaxFailures
    BY Typed DEF fails
  <1>2. UNCHANGED <<today, workItems, staged, settled, vault, mixed>>
    BY DEF rowsUnchanged
  <1>3. /\ settled' \subseteq staged' /\ staged' \subseteq Event /\ mixed' \in BOOLEAN
        /\ vault' = [f \in ToSet(Files) |-> vault'[f]] /\ vault'[Overview] \in Revisions
        /\ \A i \in Items : vault'[i] \in 0..MaxEdits
    BY <1>2, Typed
  <1> QED
    BY <1>1, <1>2, <1>3, ProcessBecomes

LEMMA Now ==
    ASSUME RuntimeTypes, LivesInOrder, NEW p \in Applications
    PROVE  /\ life[p] \in Lives /\ reminders[p] \in Loop /\ exports[p] \in Export
           /\ life = [life EXCEPT ![p] = life[p]]
           /\ reminders = [reminders EXCEPT ![p] = reminders[p]]
           /\ exports = [exports EXCEPT ![p] = exports[p]]
           /\ processInOrder(p, life[p], late, reminders[p], exports[p])
  BY Typed DEF LivesInOrder

(* Prepare, BindApplication, Start, Close.                                  *)
LEMMA StartAndClose ==
    ASSUME RuntimeTypes, LivesInOrder, NEW p \in Applications,
           Prepare(p) \/ BindApplication(p) \/ Start(p) \/ Close(p)
    PROVE  RuntimeTypes' /\ LivesInOrder'
  <1>1. PICK x \in {"prepared", "bound", "stopping", "starting"} : life' = [life EXCEPT ![p] = x]
    BY DEF Prepare, BindApplication, Start, Close, becomes
  <1>2. UNCHANGED <<late, reminders>> /\ rowsUnchanged /\ (failures' = failures \/ fails)
    BY DEF Prepare, BindApplication, Start, Close
  <1>3. CASE exports' = exports
    <2>1. \/ x \in {"prepared", "bound"} /\ life[p] \in {"down", "prepared"}
          \/ x = "stopping"
      BY <1>1, <1>3, Now, ExportFacts, Typed DEF Prepare, BindApplication, Start, Close, becomes, processInOrder
    <2>2. processInOrder(p, x, late', reminders[p], exports[p])
      BY <1>2, <2>1, Now DEF processInOrder
    <2>3. x \in Lives /\ reminders[p] \in Loop /\ exports[p] \in Export
      BY Now DEF Lives
    <2>4. /\ reminders' = [reminders EXCEPT ![p] = reminders[p]]
          /\ exports' = [exports EXCEPT ![p] = exports[p]] /\ late' = late
      BY <1>2, <1>3, Now
    <2>5. rowsUnchanged /\ (failures' = failures \/ fails)
      BY <1>2
    <2> QED
      BY <1>1, <2>2, <2>3, <2>4, <2>5, ProcessAlone
  <1>4. CASE exports' # exports
    <2>1. exports' = [exports EXCEPT ![p] = Polling] /\ life' = [life EXCEPT ![p] = "starting"]
      BY <1>4 DEF Prepare, BindApplication, Start, Close, becomes
    <2>2. processInOrder(p, "starting", late, reminders[p], Polling)
      BY Now DEF processInOrder
    <2>3. "starting" \in Lives
      BY DEF Lives
    <2> QED
      BY <1>2, <2>1, <2>2, <2>3, Now, ExportFacts, ProcessAlone
  <1> QED
    BY <1>3, <1>4

LEMMA StopKeeps ==
    ASSUME RuntimeTypes, LivesInOrder, NEW p \in Applications,
           StopReminders(p) \/ StopDispatcher(p) \/ Exit(p) \/ Die(p)
    PROVE  RuntimeTypes' /\ LivesInOrder'
  <1>0. {"draining", "closed", "down"} \subseteq Lives
    BY DEF Lives
  <1>1. CASE StopReminders(p)
    <2>1. processInOrder(p, "draining", late', reminders[p], exports[p])
      BY <1>1, Now DEF StopReminders, loopEnded, processInOrder
    <2>2. /\ life' = [life EXCEPT ![p] = "draining"] /\ rowsUnchanged
          /\ UNCHANGED <<reminders, exports, failures>>
          /\ late' = late \/ late' = late \cup {p}
      BY <1>1 DEF StopReminders, becomes
    <2>3. /\ reminders' = [reminders EXCEPT ![p] = reminders[p]]
          /\ exports' = [exports EXCEPT ![p] = exports[p]] /\ failures' = failures
          /\ reminders[p] \in Loop /\ exports[p] \in Export
      BY <2>2, Now
    <2> QED
      BY <1>0, <2>1, <2>2, <2>3, ProcessAlone
  <1>2. CASE StopDispatcher(p) /\ exports[p].stage \in {"off", "polling"}
    <2>1. /\ life' = [life EXCEPT ![p] = "closed"] /\ rowsUnchanged
          /\ UNCHANGED <<reminders, failures, late>>
          /\ exports' = [exports EXCEPT ![p] = Off] /\ life[p] = "draining"
      BY <1>2 DEF StopDispatcher, becomes
    <2>2. processInOrder(p, "closed", late', reminders[p], Off)
      BY <2>1, Now DEF processInOrder
    <2> QED
      BY <1>0, <2>1, <2>2, Now, ExportFacts, ProcessAlone
  <1>3. CASE StopDispatcher(p) /\ exports[p].stage \notin {"off", "polling"}
    <2>1. /\ life' = [life EXCEPT ![p] = "closed"] /\ rowsUnchanged
          /\ UNCHANGED <<reminders, failures, exports>>
          /\ late' = late \cup {p}
      BY <1>3 DEF StopDispatcher, becomes
    <2>2. processInOrder(p, "closed", late', reminders[p], exports[p])
      BY <2>1, Now DEF processInOrder
    <2>3. /\ reminders' = [reminders EXCEPT ![p] = reminders[p]]
          /\ exports' = [exports EXCEPT ![p] = exports[p]] /\ failures' = failures
          /\ reminders[p] \in Loop /\ exports[p] \in Export
      BY <2>1, Now
    <2> QED
      BY <1>0, <2>1, <2>2, <2>3, ProcessAlone
  <1>4. CASE Exit(p) \/ Die(p)
    <2>1. /\ life' = [life EXCEPT ![p] = "down"] /\ rowsUnchanged /\ late' = late \ {p}
          /\ reminders' = [reminders EXCEPT ![p] = NoLoop]
          /\ exports' = [exports EXCEPT ![p] = Off]
          /\ failures' = failures \/ fails
      BY <1>4 DEF Exit, Die, gone, becomes
    <2>2. processInOrder(p, "down", late', NoLoop, Off)
      BY LoopFacts DEF processInOrder
    <2> QED
      BY <1>0, <2>1, <2>2, LoopFacts, ExportFacts, ProcessAlone
  <1> QED
    BY <1>1, <1>2, <1>3, <1>4

(* The reminder loop.                                                       *)
LEMMA LoopKeeps ==
    ASSUME RuntimeTypes, LivesInOrder, NEW p \in Applications,
           ListItems(p) \/ ReadClock(p) \/ EndRun(p) \/ FailRun(p) \/ EndLoop(p)
    PROVE  RuntimeTypes' /\ LivesInOrder'
  <1>1. /\ life[p] \in Lives /\ reminders[p] \in Loop /\ exports[p] \in Export
        /\ life = [life EXCEPT ![p] = life[p]]
        /\ exports = [exports EXCEPT ![p] = exports[p]]
        /\ processInOrder(p, life[p], late, reminders[p], exports[p])
    BY Now
  <1>2. /\ late' = late /\ exports' = exports /\ rowsUnchanged
        /\ failures' = failures \/ fails
    BY DEF ListItems, ReadClock, EndRun, FailRun, EndLoop
  <1>3. exports' = [exports EXCEPT ![p] = exports[p]]
    BY <1>1, <1>2
  <1>4. ASSUME NEW x \in Lives, NEW y \in Loop, life' = [life EXCEPT ![p] = x],
               reminders' = [reminders EXCEPT ![p] = y],
               processInOrder(p, x, late, y, exports[p])
        PROVE  RuntimeTypes' /\ LivesInOrder'
    <2>1. processInOrder(p, x, late', y, exports[p])
      BY <1>2, <1>4
    <2> QED
      BY <1>1, <1>2, <1>3, <1>4, <2>1, ProcessAlone
  <1>5. CASE ListItems(p)
    <2> DEFINE y == [NoLoop EXCEPT !.stage = "listed", !.listed = workItems]
    <2>1. y \in Loop /\ y.stage = "listed"
      BY LoopFacts, Typed DEF Loop
    <2>2. reminders' = [reminders EXCEPT ![p] = y] /\ life' = life
      BY <1>5 DEF ListItems, setLoop
    <2>3. life[p] = "starting" \/ reminders[p].stage = "waiting"
      BY <1>5 DEF ListItems
    <2> HIDE DEF y
    <2>4. processInOrder(p, life[p], late, y, exports[p])
      BY <1>1, <1>5, <2>1, <2>3, LoopFacts DEF processInOrder, ListItems, open
    <2> QED
      BY <1>1, <1>4, <2>1, <2>2, <2>4
  <1>6. CASE ReadClock(p)
    <2> DEFINE dueItems == {i \in Items : isDue(reminders[p].listed[i], today)}
               y == [reminders[p] EXCEPT !.stage = "queueing", !.day = today, !.rest = dueItems]
    <2>1. dueItems \subseteq Items /\ today \in 0..MaxDay /\ today >= 1
      BY Typed, BoundFacts
    <2>2. reminders' = [reminders EXCEPT ![p] = y] /\ life' = life /\ reminders[p].stage = "listed"
      BY <1>6 DEF ReadClock, setLoop
    <2> HIDE DEF dueItems
    <2>3. y \in Loop /\ y.stage = "queueing" /\ y.day = today
      BY <1>1, <2>1 DEF Loop
    <2> HIDE DEF y
    <2>4. processInOrder(p, life[p], late, y, exports[p])
      BY <1>1, <2>1, <2>2, <2>3, LoopFacts DEF processInOrder
    <2> QED
      BY <1>1, <1>4, <2>2, <2>3, <2>4
  <1>7. CASE EndRun(p)
    <2>1. reminders' = [reminders EXCEPT ![p] = Waiting] /\ reminders[p].stage = "queueing"
      BY <1>7 DEF EndRun, setLoop
    <2>2. PICK x \in Lives : life' = [life EXCEPT ![p] = x] /\ (x = life[p] \/ x = "running")
      BY <1>1, <1>7 DEF EndRun, becomes, Lives
    <2>3. processInOrder(p, x, late, Waiting, exports[p])
      BY <1>1, <2>1, <2>2, LoopFacts DEF processInOrder
    <2> QED
      BY <1>4, <2>1, <2>2, <2>3, LoopFacts
  <1>8. CASE FailRun(p) /\ life[p] = "starting"
    <2>1. reminders' = [reminders EXCEPT ![p] = NoLoop] /\ life' = [life EXCEPT ![p] = "stopping"]
      BY <1>8 DEF FailRun, setLoop, becomes
    <2>2. processInOrder(p, "stopping", late, NoLoop, exports[p]) /\ "stopping" \in Lives
      BY LoopFacts DEF processInOrder, Lives
    <2> QED
      BY <1>4, <2>1, <2>2, LoopFacts
  <1>9. CASE FailRun(p) /\ life[p] # "starting"
    <2>1. /\ reminders' = [reminders EXCEPT ![p] = Waiting] /\ life' = life
          /\ reminders[p].stage \in {"listed", "queueing"}
      BY <1>9 DEF FailRun, setLoop
    <2>2. processInOrder(p, life[p], late, Waiting, exports[p])
      BY <1>1, <2>1, LoopFacts DEF processInOrder
    <2> QED
      BY <1>1, <1>4, <2>1, <2>2, LoopFacts
  <1>10. CASE EndLoop(p)
    <2>1. /\ reminders' = [reminders EXCEPT ![p] = NoLoop] /\ life' = life
          /\ life[p] \in {"stopping", "draining", "closed"}
      BY <1>10 DEF EndLoop, setLoop
    <2>2. processInOrder(p, life[p], late, NoLoop, exports[p])
      BY <1>1, <2>1, LoopFacts DEF processInOrder
    <2> QED
      BY <1>1, <1>4, <2>1, <2>2, LoopFacts
  <1> QED
    BY <1>5, <1>6, <1>7, <1>8, <1>9, <1>10

LEMMA QueueKeeps ==
    ASSUME RuntimeTypes, LivesInOrder, NEW p \in Applications, Queue(p)
    PROVE  /\ RuntimeTypes' /\ LivesInOrder'
           /\ \E i \in Items, d \in 1..MaxDay : staged' = staged \cup {reminder(i, d)}
           /\ UNCHANGED <<workItems, settled, vault, mixed, exports>>
  <1>1. /\ life[p] \in Lives /\ reminders[p] \in Loop /\ exports[p] \in Export
        /\ life = [life EXCEPT ![p] = life[p]]
        /\ exports = [exports EXCEPT ![p] = exports[p]]
        /\ processInOrder(p, life[p], late, reminders[p], exports[p])
    BY Now
  <1>2. PICK i \in reminders[p].rest :
           /\ staged' = staged \cup {reminder(i, reminders[p].day)}
           /\ reminders' = [reminders EXCEPT ![p] = [reminders[p] EXCEPT !.rest = @ \ {i}]]
    BY DEF Queue, setLoop
  <1> DEFINE d == reminders[p].day
             y == [reminders[p] EXCEPT !.rest = @ \ {i}]
  <1>3. reminders[p].stage = "queueing" /\ d \in 1..MaxDay /\ i \in Items
    BY <1>1, BoundFacts DEF Queue, processInOrder, Loop
  <1>4. /\ y \in Loop /\ y.stage = reminders[p].stage /\ y.day = reminders[p].day
    BY <1>1 DEF Loop
  <1>5. UNCHANGED <<today, workItems, settled, vault, mixed, life, late, exports, failures>>
    BY DEF Queue
  <1>6. reminders' = [reminders EXCEPT ![p] = y]
    BY <1>2
  <1>7. reminder(i, d) \in Event
    BY <1>3 DEF Event
  <1>8. staged' = staged \cup {reminder(i, d)}
    BY <1>2
  <1> HIDE DEF d, y
  <1>9. processInOrder(p, life[p], late', y, exports[p])
    BY <1>1, <1>3, <1>4, <1>5, LoopFacts DEF processInOrder, d
  <1>10. /\ settled' \subseteq staged' /\ staged' \subseteq Event /\ mixed' \in BOOLEAN
         /\ vault' = [f \in ToSet(Files) |-> vault'[f]] /\ vault'[Overview] \in Revisions
         /\ \A j \in Items : vault'[j] \in 0..MaxEdits
         /\ failures' \in 0..MaxFailures
    BY <1>5, <1>7, <1>8, Typed
  <1>11. life' = [life EXCEPT ![p] = life[p]] /\ exports' = [exports EXCEPT ![p] = exports[p]]
    BY <1>1, <1>5
  <1>12. RuntimeTypes' /\ LivesInOrder'
    BY <1>1, <1>4, <1>5, <1>6, <1>9, <1>10, <1>11, ProcessBecomes
  <1> QED
    BY <1>3, <1>5, <1>8, <1>12

-----------------------------------------------------------------------------
(* Events, exports and the vault.                                           *)

(* Other events come, exports are claimed and end, and no row changes.      *)
LEMMA ProjectionStays ==
    ASSUME RuntimeTypes, ProjectionInOrder, UNCHANGED <<workItems, settled, vault, mixed>>,
           staged \subseteq staged', eventsInOrder(revisions, staged'),
           \A q \in Applications :
              \/ exports'[q] = exports[q]
              \/ exports'[q].stage \in {"off", "polling"}
              \/ exports'[q].stage = "claimed" /\ exports'[q].event \in staged'
    PROVE  ProjectionInOrder'
  <1>1. revisions' = revisions
    BY DEF revisions
  <1>2. ASSUME NEW q \in Applications
        PROVE  exportInOrder(exports'[q], revisions, staged', settled, vault)
    <2>1. exportInOrder(exports[q], revisions, staged, settled, vault)
      BY DEF ProjectionInOrder
    <2>2. CASE exports'[q] = exports[q]
      BY <2>1, <2>2 DEF exportInOrder
    <2>3. CASE exports'[q].stage \in {"off", "polling"}
      BY <2>3 DEF exportInOrder
    <2>4. CASE exports'[q].stage = "claimed" /\ exports'[q].event \in staged'
      BY <2>4 DEF exportInOrder
    <2> QED
      BY <2>2, <2>3, <2>4
  <1>3. Alone'
    <2>1. \A q \in Applications : exports'[q].stage = "writing" => exports'[q] = exports[q]
      OBVIOUS
    <2>2. Alone
      BY DEF ProjectionInOrder
    <2> QED
      BY <2>1, <2>2 DEF Alone
  <1>4. (~mixed => vaultInOrder(vault, revisions, settled))
    BY DEF ProjectionInOrder
  <1> QED
    BY <1>1, <1>2, <1>3, <1>4 DEF ProjectionInOrder

LEMMA ClaimKeeps ==
    ASSUME RuntimeIInv, NEW p \in Applications, ClaimEvent(p)
    PROVE  RuntimeIInv'
  <1>0. RuntimeTypes /\ LivesInOrder /\ ProjectionInOrder
    BY DEF RuntimeIInv
  <1>1. /\ life[p] \in Lives /\ reminders[p] \in Loop /\ exports[p] \in Export
        /\ life = [life EXCEPT ![p] = life[p]]
        /\ reminders = [reminders EXCEPT ![p] = reminders[p]]
        /\ processInOrder(p, life[p], late, reminders[p], exports[p])
    BY <1>0, Now
  <1>2. PICK e \in staged \ settled :
           exports' = [exports EXCEPT ![p] = [Polling EXCEPT !.stage = "claimed", !.event = e]]
    BY DEF ClaimEvent, setExport
  <1> DEFINE z == [Polling EXCEPT !.stage = "claimed", !.event = e]
  <1>3. e \in Event
    BY <1>0, <1>2, Typed
  <1>4. z \in Export /\ z.stage = "claimed" /\ z.event = e
    BY <1>3, ExportFacts DEF Export
  <1>5. exports' = [exports EXCEPT ![p] = z]
    BY <1>2
  <1> HIDE DEF z
  <1>6. /\ rowsUnchanged /\ UNCHANGED <<life, late, reminders, failures>>
        /\ life[p] \in {"starting", "running", "stopping"}
    BY DEF ClaimEvent
  <1>7. processInOrder(p, life[p], late', reminders[p], z)
    BY <1>1, <1>6 DEF processInOrder
  <1>8. RuntimeTypes' /\ LivesInOrder'
    <2>1. /\ life' = [life EXCEPT ![p] = life[p]] /\ reminders' = [reminders EXCEPT ![p] = reminders[p]]
          /\ late' = late /\ failures' = failures
      BY <1>1, <1>6
    <2> QED
      BY <1>0, <1>1, <1>4, <1>5, <1>6, <1>7, <2>1, ProcessAlone
  <1>9. ProjectionInOrder'
    <2>1. UNCHANGED <<workItems, settled, vault, mixed, staged>> /\ eventsInOrder(revisions, staged')
      BY <1>0, <1>6 DEF rowsUnchanged, ProjectionInOrder
    <2>2. ASSUME NEW q \in Applications
          PROVE  \/ exports'[q] = exports[q]
                 \/ exports'[q].stage = "claimed" /\ exports'[q].event \in staged'
      BY <1>0, <1>2, <1>4, <1>5, <2>1, Typed
    <2> QED
      BY <1>0, <2>1, <2>2, ProjectionStays
  <1> QED
    BY <1>8, <1>9 DEF RuntimeIInv

LEMMA FailExportKeeps ==
    ASSUME RuntimeIInv, NEW p \in Applications, FailExport(p)
    PROVE  RuntimeIInv'
  <1>0. RuntimeTypes /\ LivesInOrder /\ ProjectionInOrder
    BY DEF RuntimeIInv
  <1>1. /\ life[p] \in Lives /\ reminders[p] \in Loop /\ exports[p] \in Export
        /\ life = [life EXCEPT ![p] = life[p]]
        /\ reminders = [reminders EXCEPT ![p] = reminders[p]]
        /\ processInOrder(p, life[p], late, reminders[p], exports[p])
    BY <1>0, Now
  <1>2. PICK z \in {Off, Polling} : exports' = [exports EXCEPT ![p] = z]
    BY DEF FailExport, setExport
  <1>3. /\ rowsUnchanged /\ UNCHANGED <<life, late, reminders>> /\ (failures' = failures \/ fails)
        /\ exports[p].stage \in {"claimed", "writing"} /\ z \in Export
        /\ z.stage \in {"off", "polling"}
    BY <1>2, ExportFacts DEF FailExport
  <1>4. processInOrder(p, life[p], late', reminders[p], z)
    BY <1>1, <1>3, ExportFacts DEF processInOrder
  <1>5. RuntimeTypes' /\ LivesInOrder'
    <2>1. /\ life' = [life EXCEPT ![p] = life[p]] /\ reminders' = [reminders EXCEPT ![p] = reminders[p]]
          /\ late' = late
      BY <1>1, <1>3
    <2> QED
      BY <1>0, <1>1, <1>2, <1>3, <1>4, <2>1, ProcessAlone
  <1>6. ProjectionInOrder'
    <2>1. UNCHANGED <<workItems, settled, vault, mixed, staged>> /\ eventsInOrder(revisions, staged')
      BY <1>0, <1>3 DEF rowsUnchanged, ProjectionInOrder
    <2>2. ASSUME NEW q \in Applications
          PROVE  exports'[q] = exports[q] \/ exports'[q].stage \in {"off", "polling"}
      BY <1>0, <1>2, <1>3, <2>1, Typed
    <2> QED
      BY <1>0, <2>1, <2>2, ProjectionStays
  <1> QED
    BY <1>5, <1>6 DEF RuntimeIInv

(* Sync lists the rows, and whoever was alone is no longer.                 *)
LEMMA ListRowsKeeps ==
    ASSUME RuntimeIInv, NEW p \in Applications, ListRows(p)
    PROVE  RuntimeIInv'
  <1>0. RuntimeTypes /\ LivesInOrder /\ ProjectionInOrder
    BY DEF RuntimeIInv
  <1> DEFINE first == writing = {}
             z == [exports[p] EXCEPT !.stage = "writing", !.listing = revisions, !.at = 1, !.alone = first]
  <1>1. /\ exports' = [q \in Applications |->
              IF q = p THEN z ELSE [exports[q] EXCEPT !.alone = FALSE]]
        /\ mixed' = (mixed \/ writing # {})
        /\ UNCHANGED <<today, workItems, staged, settled, vault, life, late, reminders, failures>>
        /\ exports[p].stage = "claimed"
    BY DEF ListRows, listing
  <1>2. \A q \in Applications : exports[q] \in Export
    BY <1>0, Typed
  <1>3. first \in BOOLEAN /\ revisions \in Revisions /\ 1 \in 0..(Len(Files) + 1)
    BY <1>0, Typed, FileFacts
  <1>4. /\ z \in Export /\ z.stage = "writing" /\ z.event = exports[p].event
        /\ z.listing = revisions /\ z.at = 1 /\ z.alone = first
    <2> HIDE DEF first
    <2> QED
      BY <1>2, <1>3 DEF Export
  <1> HIDE DEF z
  <1>5. exports'[p] = z
    BY <1>1
  <1>6. ASSUME NEW q \in Applications, q # p
        PROVE  /\ exports'[q] \in Export /\ exports'[q].stage = exports[q].stage
               /\ exports'[q].event = exports[q].event /\ exports'[q].listing = exports[q].listing
               /\ exports'[q].at = exports[q].at /\ exports'[q].alone = FALSE
               /\ exports[q] = Off => exports'[q] = Off
    <2>1. exports'[q] = [exports[q] EXCEPT !.alone = FALSE]
      BY <1>1, <1>6
    <2>2. exports[q] = Off => exports'[q] = Off
      BY <1>2, <2>1, ExportFacts DEF Export
    <2> QED
      BY <1>2, <2>1, <2>2 DEF Export
  <1>7. exports' \in [Applications -> Export]
    BY <1>1, <1>4, <1>5, <1>6
  <1>8. RuntimeTypes'
    <2>1. mixed' \in BOOLEAN
      BY <1>0, <1>1, Typed
    <2> QED
      BY <1>0, <1>1, <1>7, <2>1, Typed, TypesGoOn
  <1>9. LivesInOrder'
    <2>1. processInOrder(p, life[p], late, reminders[p], exports[p]) /\ open(p)
      BY <1>0, Now DEF ListRows
    <2>2. processInOrder(p, life[p], late, reminders[p], z)
      BY <1>1, <2>1, ExportFacts DEF processInOrder, open
    <2>3. ASSUME NEW q \in Applications, q # p
          PROVE  processInOrder(q, life[q], late, reminders[q], exports'[q])
      <3>1. processInOrder(q, life[q], late, reminders[q], exports[q])
        BY <1>0 DEF LivesInOrder
      <3>2. exports[q] = Off => exports'[q] = Off
        BY <1>6, <2>3
      <3> QED
        BY <3>1, <3>2 DEF processInOrder
    <2>4. \A q \in Applications : processInOrder(q, life[q], late, reminders[q], exports'[q])
      BY <1>5, <2>2, <2>3
    <2> QED
      BY <1>1, <2>4 DEF LivesInOrder
  <1>10. ProjectionInOrder'
    <2>1. revisions' = revisions
      BY <1>1 DEF revisions
    <2>2. eventsInOrder(revisions, staged)
      BY <1>0 DEF ProjectionInOrder
    <2>3. exportInOrder(z, revisions, staged, settled, vault)
      <3>1. exports[p].event \in staged
        BY <1>0, <1>1 DEF ProjectionInOrder, exportInOrder
      <3>2. \A i \in Items : \A r \in 1..MaxEdits : z.event = changed(i, r) => r <= revisions[i]
        BY <1>4, <2>2, <3>1 DEF eventsInOrder
      <3>3. \A i \in Items : revisions[i] <= revisions[i]
        BY <1>3 DEF Revisions
      <3> QED
        BY <1>4, <3>1, <3>2, <3>3 DEF exportInOrder
    <2>4. ASSUME NEW q \in Applications, q # p
          PROVE  exportInOrder(exports'[q], revisions, staged, settled, vault)
      <3>1. exportInOrder(exports[q], revisions, staged, settled, vault)
        BY <1>0 DEF ProjectionInOrder
      <3> QED
        BY <1>6, <2>4, <3>1 DEF exportInOrder
    <2>5. Alone'
      <3> SUFFICES ASSUME NEW x \in Applications, NEW y \in Applications,
                          exports'[x].stage = "writing", exports'[y].stage = "writing"
                   PROVE  (exports'[x].alone => x = y) /\ (~mixed' => exports'[x].alone)
        BY DEF Alone
      <3>1. \A q \in Applications : q # p /\ exports'[q].stage = "writing" => ~first
        BY <1>6 DEF writing
      <3>2. ~mixed' => first
        BY <1>1
      <3> HIDE DEF first
      <3> QED
        BY <1>4, <1>5, <1>6, <3>1, <3>2
    <2>6. ~mixed' => vaultInOrder(vault, revisions, settled)
      BY <1>0, <1>1 DEF ProjectionInOrder
    <2>7. \A q \in Applications : exportInOrder(exports'[q], revisions, staged, settled, vault)
      BY <1>5, <2>3, <2>4
    <2> QED
      BY <1>1, <2>1, <2>2, <2>5, <2>6, <2>7 DEF ProjectionInOrder
  <1> QED
    BY <1>8, <1>9, <1>10 DEF RuntimeIInv

(* Export writes a file.                                                    *)
LEMMA WriteFileKeeps ==
    ASSUME RuntimeIInv, NEW p \in Applications, WriteFile(p)
    PROVE  RuntimeIInv'
  <1>0. RuntimeTypes /\ LivesInOrder /\ ProjectionInOrder
    BY DEF RuntimeIInv
  <1> DEFINE e == exports[p]
             f == Files[e.at]
             z == [e EXCEPT !.at = @ + 1]
  <1>1. /\ life[p] \in Lives /\ reminders[p] \in Loop /\ e \in Export
        /\ life = [life EXCEPT ![p] = life[p]]
        /\ reminders = [reminders EXCEPT ![p] = reminders[p]]
        /\ processInOrder(p, life[p], late, reminders[p], e)
    BY <1>0, Now
  <1>2. /\ e.stage = "writing" /\ e.at <= Len(Files)
        /\ vault' = [vault EXCEPT ![f] = shown(f, e.listing)]
        /\ exports' = [exports EXCEPT ![p] = z]
        /\ UNCHANGED <<today, workItems, staged, settled, mixed, life, late, reminders, failures>>
    BY DEF WriteFile, setExport
  <1>3. exportInOrder(e, revisions, staged, settled, vault)
    BY <1>0 DEF ProjectionInOrder
  <1>4. e.at \in 1..Len(Files) /\ f \in ToSet(Files) /\ e.listing \in Revisions /\ e.alone \in BOOLEAN
    BY <1>1, <1>2, <1>3, FileFacts DEF exportInOrder, Export
  <1>5. /\ z \in Export /\ z.stage = "writing" /\ z.at = e.at + 1 /\ z.listing = e.listing
        /\ z.event = e.event /\ z.alone = e.alone
    BY <1>1, <1>2, <1>4, FileFacts DEF Export
  <1> HIDE DEF z
  <1>6. /\ vault = [g \in ToSet(Files) |-> vault[g]] /\ vault[Overview] \in Revisions
        /\ \A i \in Items : vault[i] \in 0..MaxEdits
        /\ exports \in [Applications -> Export] /\ revisions \in Revisions
    BY <1>0, Typed
  <1>7. vault'[f] = shown(f, e.listing) /\ \A g \in ToSet(Files) \ {f} : vault'[g] = vault[g]
    BY <1>2, <1>4, <1>6
  <1>8. /\ exports'[p] = z /\ \A q \in Applications \ {p} : exports'[q] = exports[q]
        /\ exports' \in [Applications -> Export]
    BY <1>2, <1>5, <1>6
  <1>9. /\ vault' = [g \in ToSet(Files) |-> vault'[g]] /\ vault'[Overview] \in Revisions
        /\ \A i \in Items : vault'[i] \in 0..MaxEdits
    <2>1. vault' = [g \in ToSet(Files) |-> vault'[g]]
      BY <1>2, <1>6
    <2>2. vault'[Overview] \in Revisions
      BY <1>4, <1>6, <1>7, FileFacts DEF shown
    <2>3. ASSUME NEW i \in Items PROVE vault'[i] \in 0..MaxEdits
      <3>1. e.listing[i] \in 0..MaxEdits /\ i \in ToSet(Files) /\ i # Overview
        BY <1>4, FileFacts DEF Revisions
      <3> QED
        BY <1>6, <1>7, <3>1 DEF shown
    <2> QED
      BY <2>1, <2>2, <2>3
  <1>10. RuntimeTypes' /\ LivesInOrder'
    <2>1. processInOrder(p, life[p], late', reminders[p], z)
      BY <1>1, <1>2, <1>5, ExportFacts DEF processInOrder
    <2>2. /\ settled' \subseteq staged' /\ staged' \subseteq Event /\ mixed' \in BOOLEAN
          /\ failures' \in 0..MaxFailures
      BY <1>0, <1>2, Typed
    <2>3. /\ life' = [life EXCEPT ![p] = life[p]] /\ reminders' = [reminders EXCEPT ![p] = reminders[p]]
          /\ late' = late /\ UNCHANGED <<today, workItems>>
      BY <1>1, <1>2
    <2> QED
      BY <1>0, <1>1, <1>2, <1>5, <1>9, <2>1, <2>2, <2>3, ProcessBecomes
  <1>11. ProjectionInOrder'
    <2>1. revisions' = revisions
      BY <1>2 DEF revisions
    <2>2. eventsInOrder(revisions, staged) /\ Alone
      BY <1>0 DEF ProjectionInOrder
    <2>3. exportInOrder(z, revisions, staged, settled, vault')
      <3>1. ASSUME e.alone, NEW k \in 1..e.at PROVE vault'[Files[k]] = shown(Files[k], e.listing)
        <4>1. CASE Files[k] = f
          BY <1>7, <4>1
        <4>2. CASE Files[k] # f
          <5>1. k \in 1..(e.at - 1) /\ k \in 1..Len(Files)
            BY <1>4, <3>1, <4>2, FileFacts
          <5>2. vault[Files[k]] = shown(Files[k], e.listing)
            BY <1>2, <1>3, <3>1, <5>1 DEF exportInOrder
          <5> QED
            BY <1>7, <4>2, <5>1, <5>2, FileFacts
        <4> QED
          BY <4>1, <4>2
      <3>2. 1..(z.at - 1) = 1..e.at /\ z.at >= 1
        BY <1>4, <1>5, FileFacts
      <3>3. z.alone => \A k \in 1..(z.at - 1) : vault'[Files[k]] = shown(Files[k], z.listing)
        BY <1>5, <3>1, <3>2
      <3> QED
        BY <1>2, <1>3, <1>5, <3>2, <3>3 DEF exportInOrder
    <2>4. ASSUME NEW q \in Applications, q # p
          PROVE  exportInOrder(exports[q], revisions, staged, settled, vault')
      <3>1. exportInOrder(exports[q], revisions, staged, settled, vault)
        BY <1>0 DEF ProjectionInOrder
      <3>2. exports[q].stage = "writing" => ~exports[q].alone
        BY <1>2, <2>2, <2>4 DEF Alone
      <3> QED
        BY <3>1, <3>2 DEF exportInOrder
    <2>5. \A q \in Applications : exportInOrder(exports'[q], revisions, staged, settled, vault')
      BY <1>8, <2>3, <2>4
    <2>6. Alone'
      <3>1. \A q \in Applications : exports'[q].stage = exports[q].stage /\ exports'[q].alone = exports[q].alone
        BY <1>5, <1>8, <1>2
      <3>2. mixed' = mixed
        BY <1>2
      <3> QED
        BY <2>2, <3>1, <3>2 DEF Alone
    <2>7. ~mixed => vaultInOrder(vault', revisions, settled)
      <3> SUFFICES ASSUME ~mixed, NEW i \in Items, upToDate(i, revisions, settled)
                   PROVE  vault'[i] = revisions[i] /\ vault'[Overview][i] = revisions[i]
        BY DEF vaultInOrder
      <3>1. vault[i] = revisions[i] /\ vault[Overview][i] = revisions[i]
        BY <1>0 DEF ProjectionInOrder, vaultInOrder
      <3>2. e.listing[i] = revisions[i]
        BY <1>2, <1>3, <2>2 DEF Alone, exportInOrder
      <3>3. i \in ToSet(Files) /\ Overview \in ToSet(Files) /\ i # Overview
        BY FileFacts
      <3> QED
        BY <1>7, <3>1, <3>2, <3>3 DEF shown
    <2> QED
      BY <1>2, <2>1, <2>2, <2>5, <2>6, <2>7 DEF ProjectionInOrder
  <1> QED
    BY <1>10, <1>11 DEF RuntimeIInv

(* The event is published.                                                  *)
LEMMA SettleKeeps ==
    ASSUME RuntimeIInv, NEW p \in Applications, Settle(p)
    PROVE  RuntimeIInv'
  <1>0. RuntimeTypes /\ LivesInOrder /\ ProjectionInOrder
    BY DEF RuntimeIInv
  <1> DEFINE e == exports[p]
  <1>1. /\ life[p] \in Lives /\ reminders[p] \in Loop /\ e \in Export
        /\ life = [life EXCEPT ![p] = life[p]]
        /\ reminders = [reminders EXCEPT ![p] = reminders[p]]
        /\ processInOrder(p, life[p], late, reminders[p], e)
    BY <1>0, Now
  <1>2. /\ open(p) /\ e.stage = "writing" /\ e.at > Len(Files)
        /\ settled' = settled \cup {e.event} /\ mixed' = (mixed /\ ~e.alone)
        /\ exports' = [exports EXCEPT ![p] = Polling]
        /\ UNCHANGED <<today, workItems, staged, vault, life, late, reminders, failures>>
    BY DEF Settle, setExport
  <1>3. exportInOrder(e, revisions, staged, settled, vault) /\ Alone /\ eventsInOrder(revisions, staged)
    BY <1>0 DEF ProjectionInOrder
  <1>4. /\ exports'[p] = Polling /\ \A q \in Applications \ {p} : exports'[q] = exports[q]
        /\ exports \in [Applications -> Export] /\ revisions \in Revisions
    BY <1>0, <1>2, Typed
  <1>5. RuntimeTypes' /\ LivesInOrder'
    <2>1. processInOrder(p, life[p], late', reminders[p], Polling)
      BY <1>1, <1>2, ExportFacts DEF processInOrder, open
    <2>2. e.event \in staged
      BY <1>2, <1>3 DEF exportInOrder
    <2>3. /\ settled' \subseteq staged' /\ staged' \subseteq Event /\ mixed' \in BOOLEAN
          /\ failures' \in 0..MaxFailures
          /\ vault' = [g \in ToSet(Files) |-> vault'[g]] /\ vault'[Overview] \in Revisions
          /\ \A i \in Items : vault'[i] \in 0..MaxEdits
      BY <1>0, <1>2, <2>2, Typed
    <2>4. /\ life' = [life EXCEPT ![p] = life[p]] /\ reminders' = [reminders EXCEPT ![p] = reminders[p]]
          /\ late' = late /\ UNCHANGED <<today, workItems>>
      BY <1>1, <1>2
    <2> QED
      BY <1>0, <1>1, <1>2, <2>1, <2>3, <2>4, ExportFacts, ProcessBecomes
  (* A row that is published by now, was in the listing.                    *)
  <1>6. ASSUME NEW i \in Items, upToDate(i, revisions, settled'), e.alone
        PROVE  e.listing[i] = revisions[i]
    <2>1. CASE upToDate(i, revisions, settled)
      BY <1>2, <1>3, <1>6, <2>1 DEF exportInOrder
    <2>2. CASE ~upToDate(i, revisions, settled)
      <3>1. e.event = changed(i, revisions[i]) /\ revisions[i] \in 1..MaxEdits
        BY <1>2, <1>4, <1>6, <2>2, BoundFacts DEF upToDate, Revisions
      <3>2. revisions[i] <= e.listing[i] /\ e.listing[i] <= revisions[i]
        BY <1>2, <1>3, <3>1 DEF exportInOrder
      <3>3. e.listing[i] \in 0..MaxEdits
        BY <1>1 DEF Export, Revisions
      <3> QED
        BY <3>1, <3>2, <3>3, BoundFacts
    <2> QED
      BY <2>1, <2>2
  <1>7. ProjectionInOrder'
    <2>1. revisions' = revisions
      BY <1>2 DEF revisions
    <2>2. ASSUME NEW q \in Applications
          PROVE  exportInOrder(exports'[q], revisions, staged, settled', vault)
      <3>1. CASE q = p
        BY <1>4, <3>1, ExportFacts DEF exportInOrder
      <3>2. CASE q # p
        <4>1. exportInOrder(exports[q], revisions, staged, settled, vault)
          BY <1>0 DEF ProjectionInOrder
        <4>2. exports[q].stage = "writing" => ~exports[q].alone
          BY <1>2, <1>3, <3>2 DEF Alone
        <4> QED
          BY <1>4, <3>2, <4>1, <4>2 DEF exportInOrder
      <3> QED
        BY <3>1, <3>2
    <2>3. Alone'
      <3> SUFFICES ASSUME NEW x \in Applications, NEW y \in Applications,
                          exports'[x].stage = "writing", exports'[y].stage = "writing"
                   PROVE  (exports'[x].alone => x = y) /\ (~mixed' => exports'[x].alone)
        BY DEF Alone
      <3>1. x # p /\ y # p
        BY <1>4, ExportFacts
      <3>2. exports'[x] = exports[x] /\ exports'[y] = exports[y]
        BY <1>4, <3>1
      <3>3. e.alone => FALSE
        BY <1>2, <1>3, <3>1, <3>2 DEF Alone
      <3> QED
        BY <1>2, <1>3, <3>2, <3>3 DEF Alone
    <2>4. ASSUME ~mixed' PROVE vaultInOrder(vault, revisions, settled')
      <3>1. e.alone
        BY <1>2, <1>3, <2>4 DEF Alone
      <3>2. ASSUME NEW f \in ToSet(Files) PROVE vault[f] = shown(f, e.listing)
        <4>1. PICK k \in 1..Len(Files) : Files[k] = f
          BY FileFacts
        <4>2. k \in 1..(e.at - 1)
          BY <1>1, <1>2, <4>1, FileFacts DEF Export
        <4> QED
          BY <1>2, <1>3, <3>1, <4>1, <4>2 DEF exportInOrder
      <3>3. ASSUME NEW i \in Items
            PROVE  vault[i] = e.listing[i] /\ vault[Overview] = e.listing
        BY <3>2, FileFacts DEF shown
      <3> QED
        BY <1>6, <3>1, <3>3 DEF vaultInOrder
    <2> QED
      BY <1>2, <1>3, <2>1, <2>2, <2>3, <2>4 DEF ProjectionInOrder
  <1> QED
    BY <1>5, <1>7 DEF RuntimeIInv

(* A row changes, with its event.                                           *)
LEMMA EditKeeps ==
    ASSUME RuntimeIInv, NEW p \in Applications, NEW i \in Items, NEW day \in 0..MaxDay,
           NEW isOpen \in BOOLEAN, Edit(p, i, day, isOpen)
    PROVE  RuntimeIInv'
  <1>0. RuntimeTypes /\ LivesInOrder /\ ProjectionInOrder
    BY DEF RuntimeIInv
  <1> DEFINE next == workItems[i].revision + 1
             x == [revision |-> next, due |-> day, open |-> isOpen]
  <1>1. /\ workItems \in [Items -> Item] /\ revisions \in Revisions
        /\ \A j \in Items : revisions[j] = workItems[j].revision
    BY <1>0, Typed, RevisionFacts
  <1>2. /\ workItems[i].revision < MaxEdits
        /\ workItems' = [workItems EXCEPT ![i] = x]
        /\ staged' = staged \cup {changed(i, next)}
        /\ UNCHANGED <<today, settled, vault, life, late, reminders, exports, mixed, failures>>
    BY <1>1 DEF Edit
  <1>3. next \in 1..MaxEdits /\ next = revisions[i] + 1
    BY <1>1, <1>2, BoundFacts DEF Item
  <1>4. x \in Item /\ x.revision = next
    BY <1>3, BoundFacts DEF Item
  <1> HIDE DEF x, next
  <1>5. workItems' \in [Items -> Item]
    BY <1>1, <1>2, <1>4
  <1>6. revisions' \in Revisions /\ \A j \in Items : revisions'[j] = IF j = i THEN next ELSE revisions[j]
    <2>1. revisions' = [j \in Items |-> workItems'[j].revision]
      BY DEF revisions
    <2>2. \A j \in Items : workItems'[j].revision \in 0..MaxEdits
      BY <1>5 DEF Item
    <2> QED
      BY <1>1, <1>2, <1>4, <2>1, <2>2 DEF Revisions
  <1>7. changed(i, next) \in Event
    BY <1>3 DEF Event
  <1>8. RuntimeTypes'
    <2>1. /\ settled' \subseteq staged' /\ staged' \subseteq Event
      BY <1>0, <1>2, <1>7, Typed
    <2> QED
      BY <1>0, <1>2, <1>5, <2>1, Typed, TypesGoOn
  <1>9. LivesInOrder'
    BY <1>0, <1>2 DEF LivesInOrder
  (* The new revision is not published yet.                                 *)
  <1>10. eventsInOrder(revisions, staged) /\ settled \subseteq staged
    BY <1>0, Typed DEF ProjectionInOrder
  <1>11. changed(i, next) \notin settled
    <2>1. ~(next <= revisions[i])
      BY <1>1, <1>3, BoundFacts DEF Revisions
    <2> QED
      BY <1>3, <1>10, <2>1 DEF eventsInOrder
  <1>12. ASSUME NEW j \in Items, upToDate(j, revisions', settled)
         PROVE  j # i /\ revisions'[j] = revisions[j] /\ upToDate(j, revisions, settled)
    <2>1. j # i
      BY <1>3, <1>6, <1>11, <1>12 DEF upToDate
    <2> QED
      BY <1>6, <1>12, <2>1 DEF upToDate
  <1>13. ProjectionInOrder'
    <2>1. eventsInOrder(revisions', staged')
      <3> SUFFICES ASSUME NEW j \in Items
                   PROVE  /\ revisions'[j] > 0 => changed(j, revisions'[j]) \in staged'
                          /\ \A r \in 1..MaxEdits : changed(j, r) \in staged' => r <= revisions'[j]
        BY DEF eventsInOrder
      <3>1. /\ revisions[j] > 0 => changed(j, revisions[j]) \in staged
            /\ \A r \in 1..MaxEdits : changed(j, r) \in staged => r <= revisions[j]
        BY <1>10 DEF eventsInOrder
      <3>2. \A r \in 1..MaxEdits : changed(j, r) \in staged' =>
               changed(j, r) \in staged \/ (j = i /\ r = next)
        BY <1>2, EventsApart
      <3>3. revisions[j] \in 0..MaxEdits /\ revisions[i] \in 0..MaxEdits
        BY <1>1 DEF Revisions
      <3>4. CASE j = i
        BY <1>2, <1>3, <1>6, <3>1, <3>2, <3>3, <3>4, BoundFacts
      <3>5. CASE j # i
        BY <1>2, <1>6, <3>1, <3>2, <3>5
      <3> QED
        BY <3>4, <3>5
    <2>2. ASSUME NEW q \in Applications
          PROVE  exportInOrder(exports[q], revisions', staged', settled, vault)
      <3>1. exportInOrder(exports[q], revisions, staged, settled, vault) /\ exports[q] \in Export
        BY <1>0, Typed DEF ProjectionInOrder
      <3>2. ASSUME NEW j \in Items, exports[q].listing[j] <= revisions[j]
            PROVE  exports[q].listing[j] <= revisions'[j]
        <4>1. revisions[j] \in 0..MaxEdits /\ exports[q].listing[j] \in 0..MaxEdits
          BY <1>1, <3>1 DEF Revisions, Export
        <4> QED
          BY <1>3, <1>6, <3>2, <4>1, BoundFacts
      <3>3. staged \subseteq staged'
        BY <1>2
      <3> QED
        BY <1>12, <3>1, <3>2, <3>3 DEF exportInOrder
    <2>3. Alone'
      BY <1>0, <1>2 DEF ProjectionInOrder, Alone
    <2>4. ~mixed => vaultInOrder(vault, revisions', settled)
      BY <1>0, <1>12 DEF ProjectionInOrder, vaultInOrder
    <2> QED
      BY <1>2, <2>1, <2>2, <2>3, <2>4 DEF ProjectionInOrder
  <1> QED
    BY <1>8, <1>9, <1>13 DEF RuntimeIInv

LEMMA StandsStill ==
    ASSUME RuntimeIInv, today' \in 1..MaxDay,
           UNCHANGED <<workItems, staged, settled, vault, life, late, reminders, exports, mixed, failures>>
    PROVE  RuntimeIInv'
  <1>0. RuntimeTypes /\ LivesInOrder /\ ProjectionInOrder
    BY DEF RuntimeIInv
  <1>1. RuntimeTypes'
    BY <1>0, Typed, TypesGoOn
  <1>2. LivesInOrder'
    BY <1>0 DEF LivesInOrder
  <1>3. ProjectionInOrder'
    BY <1>0, ProjectionStays DEF ProjectionInOrder
  <1> QED
    BY <1>1, <1>2, <1>3 DEF RuntimeIInv

LEMMA RuntimeStep ==
    ASSUME RuntimeIInv, [RuntimeNext]_runtimeVars PROVE RuntimeIInv'
  <1>0. RuntimeTypes /\ LivesInOrder /\ ProjectionInOrder
    BY DEF RuntimeIInv
  <1>1. ASSUME NEW p \in Applications,
               \/ Prepare(p) \/ BindApplication(p) \/ Start(p) \/ Close(p)
               \/ StopReminders(p) \/ StopDispatcher(p) \/ Exit(p) \/ Die(p)
               \/ ListItems(p) \/ ReadClock(p) \/ EndRun(p) \/ FailRun(p) \/ EndLoop(p)
        PROVE  RuntimeIInv'
    <2>1. RuntimeTypes' /\ LivesInOrder'
      BY <1>0, <1>1, StartAndClose, StopKeeps, LoopKeeps
    <2>2. UNCHANGED <<workItems, staged, settled, vault, mixed>>
      BY <1>1 DEF Prepare, BindApplication, Start, Close, StopReminders, StopDispatcher, Exit, Die,
         ListItems, ReadClock, EndRun, FailRun, EndLoop, gone, rowsUnchanged
    <2>3. exports' = exports \/ \E z \in {Off, Polling} : exports' = [exports EXCEPT ![p] = z]
      BY <1>1 DEF Prepare, BindApplication, Start, Close, StopReminders, StopDispatcher, Exit, Die,
         ListItems, ReadClock, EndRun, FailRun, EndLoop, gone
    <2>4. ASSUME NEW q \in Applications
          PROVE  exports'[q] = exports[q] \/ exports'[q].stage \in {"off", "polling"}
      BY <1>0, <2>3, Typed, ExportFacts
    <2>5. ProjectionInOrder'
      <3>1. eventsInOrder(revisions, staged') /\ staged \subseteq staged'
        BY <1>0, <2>2 DEF ProjectionInOrder
      <3> QED
        BY <1>0, <2>2, <2>4, <3>1, ProjectionStays
    <2> QED
      BY <2>1, <2>5 DEF RuntimeIInv
  <1>2. ASSUME NEW p \in Applications, Queue(p) PROVE RuntimeIInv'
    <2>1. /\ RuntimeTypes' /\ LivesInOrder'
          /\ \E i \in Items, d \in 1..MaxDay : staged' = staged \cup {reminder(i, d)}
          /\ UNCHANGED <<workItems, settled, vault, mixed, exports>>
      BY <1>0, <1>2, QueueKeeps
    <2>2. PICK i \in Items, d \in 1..MaxDay : staged' = staged \cup {reminder(i, d)}
      BY <2>1
    <2>3. eventsInOrder(revisions, staged')
      <3>1. eventsInOrder(revisions, staged)
        BY <1>0 DEF ProjectionInOrder
      <3>2. \A j \in Items, r \in 1..MaxEdits : changed(j, r) \in staged' => changed(j, r) \in staged
        BY <2>2, EventsApart
      <3> QED
        BY <2>2, <3>1, <3>2 DEF eventsInOrder
    <2>4. ProjectionInOrder'
      BY <1>0, <2>1, <2>2, <2>3, ProjectionStays
    <2> QED
      BY <2>1, <2>4 DEF RuntimeIInv
  <1>3. ASSUME NEW p \in Applications,
               ClaimEvent(p) \/ ListRows(p) \/ WriteFile(p) \/ Settle(p) \/ FailExport(p)
        PROVE  RuntimeIInv'
    BY <1>3, ClaimKeeps, ListRowsKeeps, WriteFileKeeps, SettleKeeps, FailExportKeeps
  <1>4. CASE Midnight
    <2>1. today' \in 1..MaxDay
      BY <1>0, <1>4, Typed, BoundFacts DEF Midnight
    <2> QED
      BY <1>4, <2>1, StandsStill DEF Midnight
  <1>5. CASE UNCHANGED runtimeVars
    BY <1>0, <1>5, Typed, StandsStill DEF runtimeVars
  <1> QED
    BY <1>1, <1>2, <1>3, <1>4, <1>5, EditKeeps DEF RuntimeNext, Remind, Project

(* However processes start, stop, fail and overlap: what Shutdown ended in  *)
(* time leaves nothing behind, and once all events are published the vault  *)
(* shows the rows, unless exports were mixed and none came alone since.     *)
THEOREM RuntimeInvariantHolds ==
    RuntimeInit /\ [][RuntimeNext]_runtimeVars => []RuntimeInvariant
  <1>1. RuntimeInit => RuntimeIInv
    BY RuntimeStart
  <1>2. RuntimeIInv /\ [RuntimeNext]_runtimeVars => RuntimeIInv'
    BY RuntimeStep
  <1>3. RuntimeIInv => RuntimeInvariant
    BY PublishedIsShown
  <1> QED
    BY <1>1, <1>2, <1>3, PTL

-----------------------------------------------------------------------------
(***************************************************************************)
(* Third part: the migrations of a start, and the first administrator.     *)
(***************************************************************************)

DatabaseType ==
    [ledger : SUBSET MigrationIDs, schema : SUBSET MigrationIDs,
     permissions : [Permissions -> {"absent", "reserved", "active"}],
     operations : SUBSET Operations,
     users : SUBSET UserIDs,
     latch : [reason : {"open", "initialized", "preexisting_identity"},
              user : UserIDs \cup {None}]]

active(d, p) == d.permissions[p] = "active"

(* What there is of a migration comes with the rows it makes.  A row of the *)
(* ledger may lie only if it is the forged one, and the first four          *)
(* migrations are those of the release or all there.                        *)
rowsInOrder(d, forgery, core) ==
    /\ CoreMigrations \cap d.ledger \subseteq d.schema
    /\ d.schema \subseteq d.ledger /\ d.ledger \subseteq d.schema \cup {forgery}
    /\ "authorization" \in d.schema => active(d, "core")
    /\ "serviceGrants" \in d.schema => "core" \in d.operations
    /\ \A p \in AddedPermissions : p \in d.schema => active(d, p)
    /\ \A o \in AddedOperations : o \in d.schema => o \in d.operations
    /\ "configGrants" \in d.schema => active(d, "config") /\ "config" \in d.operations
    /\ d.permissions["config"] # "reserved"
    /\ CoreMigrations \subseteq d.schema \/ d.schema \cap CoreMigrations = core

latchInOrder(d) ==
    /\ d.latch.reason = "initialized" <=> d.latch.user # None
    /\ d.latch.user # None => d.latch.user \in d.users

(* What the n-th migration of a start brings, and the first n together.     *)
brought(d, n) ==
    /\ n = 1 => CoreMigrations \cup AddedOperations \subseteq d.schema
    /\ n = 2 => "credentials" \in d.schema
    /\ n = 3 => "bootstrap" \in d.schema
    /\ n = 4 => "memberAdmin" \in d.schema /\ active(d, "users")
    /\ n = 5 => "projectRoles" \in d.schema /\ active(d, "roleBindings")
    /\ n = 6 => {"sessions", "sessionControl", "throttle"} \subseteq d.schema
    /\ n = 7 => {"config", "configGrants"} \subseteq d.schema
    /\ n = 8 => "audit" \in d.schema

broughtTo(d, n) == \A k \in 1..n : brought(d, k)

coreOf(n) == released(n) \cap CoreMigrations

reason(forgery, core) ==
    forgery \in Checked \/ core = {"identity", "serviceCredentials", "authorization"}

StartupIInv ==
    /\ db \in DatabaseType /\ rowsInOrder(db, forged, coreOf(release)) /\ latchInOrder(db)
    /\ items \in {"none", "old", "revised"}
    /\ rights = [r \in {"binding", "credential", "audit"} |-> {db.latch.user} \ {None}]
    /\ process \in [Processes -> States]
    /\ release \in 0..Len(History) /\ forged \in MigrationIDs \cup {None}
    /\ \A p \in Processes :
          /\ process[p].state \in {"starting", "running"} => broughtTo(db, process[p].at)
          /\ process[p].state = "refused" => reason(forged, coreOf(release))

-----------------------------------------------------------------------------
(* The migrations.                                                          *)

LEMMA HistoryIs ==
    /\ Len(History) = 19
    /\ MigrationIDs = {"identity", "serviceCredentials", "authorization", "serviceGrants",
                       "audit", "config", "configGrants", "projects", "planning", "itemReads",
                       "views", "health", "credentials", "bootstrap", "memberAdmin", "sessions",
                       "sessionControl", "projectRoles", "throttle"}
    /\ Len(Steps) = 8
<1>1. Len(History) = 19 /\ Len(Steps) = 8  BY DEF History, Steps
<1> DEFINE ids == {"identity", "serviceCredentials", "authorization", "serviceGrants",
                   "audit", "config", "configGrants", "projects", "planning", "itemReads",
                   "views", "health", "credentials", "bootstrap", "memberAdmin", "sessions",
                   "sessionControl", "projectRoles", "throttle"}
<1>2. ASSUME NEW k \in 1..19 PROVE History[k] \in ids
  <2>1. \/ k = 1 \/ k = 2 \/ k = 3 \/ k = 4 \/ k = 5 \/ k = 6 \/ k = 7 \/ k = 8 \/ k = 9 \/ k = 10
        \/ k = 11 \/ k = 12 \/ k = 13 \/ k = 14 \/ k = 15 \/ k = 16 \/ k = 17 \/ k = 18 \/ k = 19
    BY SMT
  <2> QED  BY <2>1 DEF History
<1>3. /\ History[1] = "identity" /\ History[2] = "serviceCredentials"
      /\ History[3] = "authorization" /\ History[4] = "serviceGrants" /\ History[5] = "audit"
      /\ History[6] = "config" /\ History[7] = "configGrants" /\ History[8] = "projects"
      /\ History[9] = "planning" /\ History[10] = "itemReads" /\ History[11] = "views"
      /\ History[12] = "health" /\ History[13] = "credentials" /\ History[14] = "bootstrap"
      /\ History[15] = "memberAdmin" /\ History[16] = "sessions"
      /\ History[17] = "sessionControl" /\ History[18] = "projectRoles"
      /\ History[19] = "throttle"
  BY DEF History
<1>4. \A k \in {1, 2, 3, 4, 5, 6, 7, 8, 9, 10, 11, 12, 13, 14, 15, 16, 17, 18, 19} : k \in 1..19
  BY SMT
<1>5. ids \subseteq {History[k] : k \in 1..19}
  <2> HIDE DEF ids
  <2>1. \A m \in ids : \E k \in 1..19 : History[k] = m  BY <1>3, <1>4 DEF ids
  <2> QED  BY <2>1
<1>6. {History[k] : k \in 1..19} \subseteq ids  BY <1>2
<1> QED  BY <1>1, <1>5, <1>6 DEF MigrationIDs

(* The permissions of the authorization dictionary came after those of      *)
(* identities and service credentials.                                      *)
LEMMA CoreIsPrefix ==
    ASSUME NEW n \in 0..Len(History), "authorization" \in coreOf(n),
           "serviceGrants" \notin coreOf(n)
    PROVE  coreOf(n) = {"identity", "serviceCredentials", "authorization"}
<1>1. Len(History) = 19  BY HistoryIs
<1>2. PICK k \in 1..n : History[k] = "authorization"  BY DEF coreOf, released
<1>3. k # 1 /\ k # 2  BY <1>2 DEF History
<1>4. 1 \in 1..n /\ 2 \in 1..n  BY <1>1, <1>2, <1>3, SMT
<1>5. History[1] = "identity" /\ History[2] = "serviceCredentials"  BY DEF History
<1>6. {"identity", "serviceCredentials"} \subseteq released(n)  BY <1>4, <1>5 DEF released
<1> QED  BY <1>6 DEF coreOf, CoreMigrations

grows(d, e) ==
    /\ d.schema \subseteq e.schema
    /\ \A p \in Permissions : active(d, p) => active(e, p)

extends(d, e) ==
    /\ e \in DatabaseType /\ grows(d, e) /\ e.users = d.users
    /\ \/ e.latch = d.latch
       \/ d.latch = NoLatch /\ e.latch = [reason |-> "preexisting_identity", user |-> None]

LEMMA ExtendsOnce ==
    ASSUME NEW d, NEW e, NEW f, extends(d, e), extends(e, f)
    PROVE  extends(d, f)
<1>1. NoLatch # [reason |-> "preexisting_identity", user |-> None]  BY DEF NoLatch
<1> QED  BY <1>1 DEF extends, grows

LEMMA BroughtStays ==
    ASSUME NEW d, NEW e, grows(d, e), NEW n, brought(d, n)
    PROVE  brought(e, n)
<1>1. {"users", "roleBindings"} \subseteq Permissions  BY DEF Permissions
<1>2. d.schema \subseteq e.schema /\ \A p \in Permissions : active(d, p) => active(e, p)
  BY DEF grows
<1> QED  BY <1>1, <1>2 DEF brought

LEMMA InstalledKeeps ==
    ASSUME NEW d \in DatabaseType, NEW forgery, NEW core, rowsInOrder(d, forgery, core),
           NEW m \in MigrationIDs \ (CoreMigrations \cup AddedOperations),
           m = "configGrants" => active(d, "config") /\ "config" \in d.operations
    PROVE  LET e == installed(d, m) IN
           /\ rowsInOrder(e, forgery, core) /\ extends(d, e) /\ m \in e.schema
           /\ e.permissions = d.permissions /\ e.operations = d.operations
<1> DEFINE e == installed(d, m)
<1>1. /\ e \in DatabaseType
      /\ e.ledger = d.ledger \cup {m} /\ e.schema = d.schema \cup {m}
      /\ e.permissions = d.permissions /\ e.operations = d.operations
      /\ e.users = d.users /\ e.latch = d.latch
  BY DEF installed, DatabaseType
<1> HIDE DEF e
<1>2. extends(d, e)  BY <1>1 DEF extends, grows, active
<1>3. /\ m \notin CoreMigrations /\ m \notin AddedOperations /\ m \notin AddedPermissions
      /\ m # "authorization" /\ m # "serviceGrants"
  BY DEF CoreMigrations, AddedPermissions, AddedOperations
<1>4. rowsInOrder(e, forgery, core)
  <2>1. /\ CoreMigrations \cap e.ledger \subseteq e.schema
        /\ e.schema \subseteq e.ledger /\ e.ledger \subseteq e.schema \cup {forgery}
    BY <1>1, <1>3 DEF rowsInOrder
  <2>2. /\ "authorization" \in e.schema => active(e, "core")
        /\ "serviceGrants" \in e.schema => "core" \in e.operations
        /\ "configGrants" \in e.schema => active(e, "config") /\ "config" \in e.operations
        /\ e.permissions["config"] # "reserved"
    BY <1>1, <1>3 DEF rowsInOrder, active
  <2>3. /\ \A p \in AddedPermissions : p \in e.schema => active(e, p)
        /\ \A o \in AddedOperations : o \in e.schema => o \in e.operations
    BY <1>1, <1>3 DEF rowsInOrder, active
  <2>4. CoreMigrations \subseteq e.schema \/ e.schema \cap CoreMigrations = core
    BY <1>1, <1>3 DEF rowsInOrder
  <2> QED  BY <2>1, <2>2, <2>3, <2>4 DEF rowsInOrder
<1> QED  BY <1>1, <1>2, <1>4 DEF e

LEMMA GrantedKeeps ==
    ASSUME NEW d \in DatabaseType, NEW forgery, NEW core, rowsInOrder(d, forgery, core),
           NEW p \in Permissions
    PROVE  LET e == granted(d, p) IN
           /\ rowsInOrder(e, forgery, core) /\ extends(d, e) /\ active(e, p)
           /\ e.schema = d.schema
<1> DEFINE e == granted(d, p)
<1>1. /\ e = [d EXCEPT !.permissions = [d.permissions EXCEPT ![p] = "active"]]
      /\ d.permissions \in [Permissions -> {"absent", "reserved", "active"}]
  BY DEF granted, DatabaseType
<1>2. [d.permissions EXCEPT ![p] = "active"] \in [Permissions -> {"absent", "reserved", "active"}]
  BY <1>1
<1>3. /\ e \in DatabaseType
      /\ e.ledger = d.ledger /\ e.schema = d.schema /\ e.operations = d.operations
      /\ e.users = d.users /\ e.latch = d.latch
      /\ e.permissions = [d.permissions EXCEPT ![p] = "active"]
  BY <1>1, <1>2 DEF DatabaseType
<1> HIDE DEF e
<1>4. /\ e.permissions[p] = "active"
      /\ \A q \in Permissions \ {p} : e.permissions[q] = d.permissions[q]
  BY <1>1, <1>3
<1>5. \A q \in Permissions : active(d, q) => active(e, q)
  BY <1>4 DEF active
<1>6. extends(d, e)  BY <1>3, <1>5 DEF extends, grows
<1>7. {"core", "config"} \cup AddedPermissions \subseteq Permissions
  BY DEF AddedPermissions, Permissions
<1>8. e.permissions["config"] # "reserved"  BY <1>4, <1>7 DEF rowsInOrder
<1>9. rowsInOrder(e, forgery, core)  BY <1>3, <1>5, <1>7, <1>8 DEF rowsInOrder
<1> QED  BY <1>3, <1>4, <1>6, <1>9 DEF e, active

LEMMA ClosedKeeps ==
    ASSUME NEW d \in DatabaseType, NEW forgery, NEW core, rowsInOrder(d, forgery, core)
    PROVE  LET e == closed(d) IN
           rowsInOrder(e, forgery, core) /\ extends(d, e) /\ e.schema = d.schema
<1> DEFINE e == closed(d)
           shut == [reason |-> "preexisting_identity", user |-> None]
<1>1. CASE d.latch = NoLatch /\ d.users # {}
  <2>1. e = [d EXCEPT !.latch = shut]  BY <1>1 DEF closed, None
  <2>2. shut \in [reason : {"open", "initialized", "preexisting_identity"},
                  user : UserIDs \cup {None}]
    OBVIOUS
  <2> HIDE DEF shut
  <2>3. /\ e \in DatabaseType /\ e.latch = shut
        /\ e.ledger = d.ledger /\ e.schema = d.schema /\ e.operations = d.operations
        /\ e.users = d.users /\ e.permissions = d.permissions
    BY <2>1, <2>2 DEF DatabaseType
  <2> HIDE DEF e
  <2>4. extends(d, e)  BY <1>1, <2>3 DEF extends, grows, active, shut
  <2>5. rowsInOrder(e, forgery, core)  BY <2>3 DEF rowsInOrder, active
  <2> QED  BY <2>3, <2>4, <2>5 DEF e
<1>2. CASE ~(d.latch = NoLatch /\ d.users # {})
  <2>1. e = d  BY <1>2 DEF closed
  <2>2. extends(d, d)  BY DEF extends, grows
  <2> QED  BY <2>1, <2>2
<1> QED  BY <1>1, <1>2

(* Refused is only what the ledger has and the schema has not.              *)
LEMMA VerifiedKeeps ==
    ASSUME NEW d \in DatabaseType, NEW forgery, NEW core, rowsInOrder(d, forgery, core),
           NEW m \in MigrationIDs
    PROVE  /\ verified(d, m) = {} => m = forgery
           /\ \A e \in verified(d, m) : e = installed(d, m)
BY DEF verified, installed, rowsInOrder, has

goesOn(d, e, n, forgery, core) ==
    extends(d, e) /\ rowsInOrder(e, forgery, core) /\ brought(e, n)

LEMMA OperationsAre ==
    /\ Operations = {"core", "config", "projects", "planning", "itemReads", "views", "health"}
    /\ \A o \in Operations :
          needs[o] \subseteq {"core", "config"} \cup AddedPermissions
<1>1. Operations = {"core", "config", "projects", "planning", "itemReads", "views", "health"}
  BY DEF Operations, needs
<1>2. \A o \in Operations : needs[o] \subseteq {"core", "config"} \cup AddedPermissions
  BY <1>1 DEF needs, AddedPermissions
<1> QED  BY <1>1, <1>2

(* The dictionary with the additions, or the ledger knows one of them that  *)
(* is not there.                                                            *)
LEMMA EnsuredKeeps ==
    ASSUME NEW d \in DatabaseType, NEW forgery, NEW core, rowsInOrder(d, forgery, core)
    PROVE  LET all == ensured(d, dictionary(d)) IN
           /\ all = {} => forgery \in Checked
           /\ \A q \in all :
                 /\ q \in [Permissions -> {"absent", "reserved", "active"}]
                 /\ \A p \in Permissions : active(d, p) => q[p] = "active"
                 /\ \A p \in AddedPermissions \cup {"core"} : q[p] = "active"
                 /\ q["config"] # "reserved"
                 /\ q["config"] = "absent" => has(d, "authorization")
<1> DEFINE P == dictionary(d)
           all == ensured(d, P)
<1>1. AddedPermissions \cup {"core", "config"} \subseteq Permissions
      /\ "core" \notin AddedPermissions /\ "config" \notin AddedPermissions
      /\ AddedPermissions \subseteq Checked
  BY DEF AddedPermissions, Permissions, Checked, AddedOperations
<1>2. has(d, "authorization") => active(d, "core")
  BY DEF has, rowsInOrder, CoreMigrations
<1>3. /\ P \in [Permissions -> {"absent", "reserved", "active"}]
      /\ \A p \in Permissions : active(d, p) => P[p] = "active"
      /\ P["core"] = "active" /\ P["config"] # "reserved"
      /\ P["config"] = "absent" => has(d, "authorization")
  <2>1. CASE has(d, "authorization")
    <3>1. P = d.permissions  BY <2>1 DEF dictionary
    <3> QED  BY <3>1, <2>1, <1>2 DEF DatabaseType, active, rowsInOrder
  <2>2. CASE ~has(d, "authorization")
    <3>1. P = [p \in Permissions |-> "active"]  BY <2>2 DEF dictionary
    <3> QED  BY <3>1, <1>1
  <2> QED  BY <2>1, <2>2
<1> HIDE DEF P
<1>4. all = {} => forgery \in Checked
  <2> SUFFICES ASSUME all = {} PROVE forgery \in Checked  OBVIOUS
  <2>1. PICK p \in AddedPermissions : has(d, p) /\ P[p] = "absent"  BY DEF ensured
  <2>2. ~active(d, p)  BY <2>1, <1>1, <1>3
  <2>3. p \notin d.schema /\ p \in d.ledger  BY <2>1, <2>2 DEF rowsInOrder, has
  <2>4. p = forgery  BY <2>3 DEF rowsInOrder
  <2> QED  BY <2>4, <1>1
<1>5. ASSUME NEW q \in all
      PROVE  /\ q \in [Permissions -> {"absent", "reserved", "active"}]
             /\ \A p \in Permissions : active(d, p) => q[p] = "active"
             /\ \A p \in AddedPermissions \cup {"core"} : q[p] = "active"
             /\ q["config"] = P["config"]
  <2>1. q = [p \in Permissions |-> IF p \in AddedPermissions THEN "active" ELSE P[p]]
    BY DEF ensured
  <2> QED  BY <2>1, <1>1, <1>3
<1> QED  BY <1>3, <1>4, <1>5 DEF P

LEMMA SeededKeeps ==
    ASSUME NEW d \in DatabaseType, NEW forgery, NEW core, rowsInOrder(d, forgery, core),
           "authorization" \in core /\ "serviceGrants" \notin core => reason(forgery, core),
           NEW q \in [Permissions -> {"absent", "reserved", "active"}],
           \A p \in AddedPermissions \cup {"core"} : q[p] = "active",
           q["config"] = "absent" => has(d, "authorization")
    PROVE  LET all == seeded([d EXCEPT !.permissions = q]) IN
           /\ all = {} => reason(forgery, core)
           /\ \A s \in all : s \subseteq Operations /\ d.operations \subseteq s /\ "core" \in s
<1> DEFINE c == [d EXCEPT !.permissions = q]
           all == seeded(c)
<1>1. c.permissions = q /\ c.ledger = d.ledger /\ c.operations = d.operations
  BY DEF DatabaseType
<1>2. d.operations \subseteq Operations  BY DEF DatabaseType
<1> HIDE DEF c
<1>3. CASE has(d, "serviceGrants")
  <2>1. all = {d.operations}  BY <1>1, <1>3 DEF seeded, has
  <2>2. "core" \in d.operations  BY <1>3 DEF has, rowsInOrder, CoreMigrations
  <2> QED  BY <2>1, <2>2, <1>2 DEF c
<1>4. CASE ~has(d, "serviceGrants")
  <2>1. all = IF permitted(c, Operations) THEN {Operations} ELSE {}
    BY <1>1, <1>4 DEF seeded, has
  <2>2. "core" \in Operations  BY OperationsAre
  <2>3. ~permitted(c, Operations) => reason(forgery, core)
    <3> SUFFICES ASSUME ~permitted(c, Operations) PROVE reason(forgery, core)  OBVIOUS
    <3>1. PICK o \in Operations : \E p \in needs[o] : q[p] = "absent"  BY <1>1 DEF permitted
    <3>2. PICK p \in needs[o] : q[p] = "absent"  BY <3>1
    <3>3. p \in {"core", "config"} \cup AddedPermissions  BY OperationsAre
    <3>4. p = "config"  BY <3>2, <3>3
    <3>5. has(d, "authorization")  BY <3>2, <3>4
    <3>6. "authorization" \in d.schema /\ "serviceGrants" \notin d.schema
      BY <3>5, <1>4 DEF has, rowsInOrder, CoreMigrations
    <3>7. "authorization" \in core /\ "serviceGrants" \notin core
      BY <3>6 DEF rowsInOrder, CoreMigrations
    <3> QED  BY <3>7
  <2> HIDE DEF all
  <2>4. all = {} => reason(forgery, core)  BY <2>1, <2>3
  <2>5. \A s \in all : s \subseteq Operations /\ d.operations \subseteq s /\ "core" \in s
    BY <2>1, <2>2, <1>2
  <2> QED  BY <2>4, <2>5 DEF all, c
<1> QED  BY <1>3, <1>4

LEMMA WithDictionaryKeeps ==
    ASSUME NEW d \in DatabaseType, NEW forgery, NEW core, rowsInOrder(d, forgery, core),
           NEW q \in [Permissions -> {"absent", "reserved", "active"}],
           \A p \in Permissions : active(d, p) => q[p] = "active",
           \A p \in AddedPermissions \cup {"core"} : q[p] = "active",
           q["config"] # "reserved",
           NEW o \in SUBSET Operations, d.operations \cup AddedOperations \cup {"core"} \subseteq o
    PROVE  goesOn(d, withDictionary(d, q, o), 1, forgery, core)
<1> DEFINE e == withDictionary(d, q, o)
<1>1. CoreMigrations \subseteq MigrationIDs /\ AddedOperations \subseteq MigrationIDs
  BY HistoryIs DEF CoreMigrations, AddedOperations
<1>2. /\ e.ledger = d.ledger \cup CoreMigrations \cup AddedOperations
      /\ e.schema = d.schema \cup (CoreMigrations \ d.ledger) \cup AddedOperations
      /\ e.permissions = q /\ e.operations = o /\ e.users = d.users /\ e.latch = d.latch
  BY DEF withDictionary, DatabaseType
<1>3. e \in DatabaseType
  <2>1. d.ledger \cup CoreMigrations \cup AddedOperations \in SUBSET MigrationIDs
    BY <1>1 DEF DatabaseType
  <2>2. d.schema \cup (CoreMigrations \ d.ledger) \cup AddedOperations \in SUBSET MigrationIDs
    BY <1>1 DEF DatabaseType
  <2> QED  BY <2>1, <2>2 DEF withDictionary, DatabaseType
<1> HIDE DEF e
<1>4. CoreMigrations \subseteq e.schema  BY <1>2 DEF rowsInOrder
<1>5. extends(d, e)  BY <1>2, <1>3 DEF extends, grows, active
<1>6. rowsInOrder(e, forgery, core)
  <2>1. /\ CoreMigrations \cap e.ledger \subseteq e.schema
        /\ e.schema \subseteq e.ledger /\ e.ledger \subseteq e.schema \cup {forgery}
    BY <1>2, <1>4 DEF rowsInOrder
  <2>2. active(e, "core") /\ "core" \in e.operations /\ e.permissions["config"] # "reserved"
    BY <1>2 DEF active
  <2>3. /\ \A p \in AddedPermissions : active(e, p)
        /\ \A a \in AddedOperations : a \in e.operations
    BY <1>2 DEF active
  <2>4. "configGrants" \in e.schema => active(e, "config") /\ "config" \in e.operations
    <3>1. "configGrants" \notin CoreMigrations /\ "configGrants" \notin AddedOperations
      BY DEF CoreMigrations, AddedOperations
    <3>2. "config" \in Permissions  BY DEF Permissions
    <3> QED  BY <3>1, <3>2, <1>2 DEF rowsInOrder, active
  <2> QED  BY <2>1, <2>2, <2>3, <2>4, <1>4 DEF rowsInOrder
<1>7. brought(e, 1)  BY <1>2, <1>4 DEF brought
<1> QED  BY <1>5, <1>6, <1>7 DEF e, goesOn

LEMMA IdentityCoreKeeps ==
    ASSUME NEW d \in DatabaseType, NEW forgery, NEW core, rowsInOrder(d, forgery, core),
           "authorization" \in core /\ "serviceGrants" \notin core => reason(forgery, core)
    PROVE  /\ IdentityCore(d) = {} => reason(forgery, core)
           /\ \A e \in IdentityCore(d) : goesOn(d, e, 1, forgery, core)
<1> DEFINE dictionaries == ensured(d, dictionary(d))
           operationsOf(q) == seeded([d EXCEPT !.permissions = q])
<1>1. /\ dictionaries = {} => forgery \in Checked
      /\ \A q \in dictionaries :
            /\ q \in [Permissions -> {"absent", "reserved", "active"}]
            /\ \A p \in Permissions : active(d, p) => q[p] = "active"
            /\ \A p \in AddedPermissions \cup {"core"} : q[p] = "active"
            /\ q["config"] # "reserved"
            /\ q["config"] = "absent" => has(d, "authorization")
  BY EnsuredKeeps
<1>2. ASSUME NEW q \in dictionaries
      PROVE  /\ operationsOf(q) = {} => reason(forgery, core)
             /\ \A s \in operationsOf(q) :
                   s \subseteq Operations /\ d.operations \subseteq s /\ "core" \in s
  BY <1>1, SeededKeeps
<1>3. ASSUME NEW s, d.operations \subseteq s, ensuredOperations(d, s) = {}
      PROVE  forgery \in Checked
  <2>1. PICK o \in AddedOperations \ s : o \in d.ledger  BY <1>3 DEF ensuredOperations, has
  <2>2. o \notin d.schema  BY <2>1, <1>3 DEF rowsInOrder
  <2>3. o = forgery  BY <2>1, <2>2 DEF rowsInOrder
  <2> QED  BY <2>1, <2>3 DEF Checked
<1>4. \A e : e \in IdentityCore(d) <=>
         \E q \in dictionaries : \E s \in operationsOf(q) : \E o \in ensuredOperations(d, s) :
            e = withDictionary(d, q, o)
  <2> DEFINE made(q, s) == {withDictionary(d, q, o) : o \in ensuredOperations(d, s)}
             madeOf(q) == UNION {made(q, s) : s \in operationsOf(q)}
  <2>1. IdentityCore(d) = UNION {madeOf(q) : q \in dictionaries}  BY DEF IdentityCore
  <2> HIDE DEF madeOf
  <2>2. \A e : e \in IdentityCore(d) <=> \E q \in dictionaries : e \in madeOf(q)  BY <2>1
  <2> HIDE DEF made
  <2>3. \A e : \A q \in dictionaries :
           e \in madeOf(q) <=> \E s \in operationsOf(q) : e \in made(q, s)
    BY DEF madeOf
  <2>4. \A e : \A q : \A s :
           e \in made(q, s) <=> \E o \in ensuredOperations(d, s) : e = withDictionary(d, q, o)
    BY DEF made
  <2> HIDE DEF dictionaries, operationsOf
  <2> QED  BY <2>2, <2>3, <2>4
<1>5. IdentityCore(d) = {} => reason(forgery, core)
  <2> SUFFICES ASSUME IdentityCore(d) = {}, ~reason(forgery, core) PROVE FALSE  OBVIOUS
  <2>1. forgery \notin Checked  BY DEF reason
  <2> HIDE DEF dictionaries, operationsOf
  <2>2. PICK q \in dictionaries : TRUE  BY <1>1, <2>1
  <2>3. PICK s \in operationsOf(q) : d.operations \subseteq s  BY <1>2, <2>2
  <2>4. PICK o \in ensuredOperations(d, s) : TRUE  BY <1>3, <2>1, <2>3
  <2>5. withDictionary(d, q, o) \in IdentityCore(d)  BY <1>4, <2>2, <2>3, <2>4
  <2> QED  BY <2>5
<1>6. ASSUME NEW e \in IdentityCore(d) PROVE goesOn(d, e, 1, forgery, core)
  <2> HIDE DEF dictionaries, operationsOf
  <2>1. PICK q \in dictionaries : \E s \in operationsOf(q) : \E o \in ensuredOperations(d, s) :
           e = withDictionary(d, q, o)
    BY <1>4
  <2>2. PICK s \in operationsOf(q) : \E o \in ensuredOperations(d, s) :
           e = withDictionary(d, q, o)
    BY <2>1
  <2>3. PICK o \in ensuredOperations(d, s) : e = withDictionary(d, q, o)  BY <2>2
  <2>4. s \subseteq Operations /\ d.operations \subseteq s /\ "core" \in s  BY <1>2, <2>2
  <2>5. o = s \cup AddedOperations  BY <2>3 DEF ensuredOperations
  <2>6. AddedOperations \subseteq Operations  BY OperationsAre DEF AddedOperations
  <2>7. /\ o \in SUBSET Operations
        /\ d.operations \cup AddedOperations \cup {"core"} \subseteq o
    BY <2>4, <2>5, <2>6
  <2>8. /\ q \in [Permissions -> {"absent", "reserved", "active"}]
        /\ \A p \in Permissions : active(d, p) => q[p] = "active"
        /\ \A p \in AddedPermissions \cup {"core"} : q[p] = "active"
        /\ q["config"] # "reserved"
    BY <1>1, <2>1
  <2>9. goesOn(d, withDictionary(d, q, o), 1, forgery, core)
    BY <2>7, <2>8, WithDictionaryKeeps
  <2> QED  BY <2>3, <2>9
<1> QED  BY <1>5, <1>6

LEMMA LaterAre ==
    {"credentials", "bootstrap", "memberAdmin", "projectRoles", "sessions", "sessionControl",
     "throttle", "config", "configGrants", "audit"}
       \subseteq MigrationIDs \ (CoreMigrations \cup AddedOperations)
BY HistoryIs DEF CoreMigrations, AddedOperations

(* Those that create what is missing.                                       *)
LEMMA CreatingKeeps ==
    ASSUME NEW d \in DatabaseType, NEW forgery, NEW core, rowsInOrder(d, forgery, core)
    PROVE  /\ {"identity"} \subseteq d.schema =>
                 /\ LocalCredentials(d) # {}
                 /\ \A e \in LocalCredentials(d) : goesOn(d, e, 2, forgery, core)
           /\ {"identity", "authorization", "credentials"} \subseteq d.schema =>
                 /\ Bootstrap(d) # {} /\ MemberAdmin(d) # {}
                 /\ \A e \in Bootstrap(d) : goesOn(d, e, 3, forgery, core)
                 /\ \A e \in MemberAdmin(d) : goesOn(d, e, 4, forgery, core)
           /\ {"identity", "authorization"} \subseteq d.schema =>
                 /\ ProjectRoles(d) # {}
                 /\ \A e \in ProjectRoles(d) : goesOn(d, e, 5, forgery, core)
           /\ {"identity", "credentials"} \subseteq d.schema =>
                 /\ Sessions(d) # {}
                 /\ \A e \in Sessions(d) : goesOn(d, e, 6, forgery, core)
<1> DEFINE later == {"credentials", "bootstrap", "memberAdmin", "projectRoles", "sessions",
                     "sessionControl", "throttle"}
<1>1. ASSUME NEW c \in DatabaseType, rowsInOrder(c, forgery, core), NEW m \in later
      PROVE  /\ rowsInOrder(installed(c, m), forgery, core) /\ extends(c, installed(c, m))
             /\ m \in installed(c, m).schema /\ installed(c, m) \in DatabaseType
  <2>1. m \in MigrationIDs \ (CoreMigrations \cup AddedOperations) /\ m # "configGrants"
    BY LaterAre
  <2> QED  BY <1>1, <2>1, InstalledKeeps DEF extends, grows
<1>2. ASSUME NEW p \in {"users", "roleBindings"}, NEW c \in DatabaseType,
             rowsInOrder(c, forgery, core)
      PROVE  /\ rowsInOrder(granted(c, p), forgery, core) /\ extends(c, granted(c, p))
             /\ active(granted(c, p), p) /\ granted(c, p).schema = c.schema
  <2>1. p \in Permissions  BY DEF Permissions
  <2> QED  BY <1>2, <2>1, GrantedKeeps
<1>3. {"identity"} \subseteq d.schema =>
         /\ LocalCredentials(d) # {}
         /\ \A e \in LocalCredentials(d) : goesOn(d, e, 2, forgery, core)
  <2> DEFINE e == installed(d, "credentials")
  <2>1. "credentials" \in later  OBVIOUS
  <2>2. rowsInOrder(e, forgery, core) /\ extends(d, e) /\ "credentials" \in e.schema
    BY <1>1, <2>1
  <2> HIDE DEF e
  <2>3. goesOn(d, e, 2, forgery, core)  BY <2>2 DEF goesOn, brought
  <2> QED  BY <2>3 DEF LocalCredentials, e
<1>4. {"identity", "authorization", "credentials"} \subseteq d.schema =>
         /\ Bootstrap(d) # {}
         /\ \A e \in Bootstrap(d) : goesOn(d, e, 3, forgery, core)
  <2> DEFINE c == installed(d, "bootstrap")
             e == closed(c)
  <2>1. "bootstrap" \in later  OBVIOUS
  <2>2. /\ rowsInOrder(c, forgery, core) /\ extends(d, c) /\ "bootstrap" \in c.schema
        /\ c \in DatabaseType
    BY <1>1, <2>1
  <2> HIDE DEF c
  <2>3. rowsInOrder(e, forgery, core) /\ extends(c, e) /\ e.schema = c.schema
    BY <2>2, ClosedKeeps
  <2> HIDE DEF e
  <2>4. extends(d, e)  BY <2>2, <2>3, ExtendsOnce
  <2>5. goesOn(d, e, 3, forgery, core)  BY <2>2, <2>3, <2>4 DEF goesOn, brought
  <2> QED  BY <2>5 DEF Bootstrap, e, c
<1>5. {"identity", "authorization", "credentials"} \subseteq d.schema =>
         /\ MemberAdmin(d) # {}
         /\ \A e \in MemberAdmin(d) : goesOn(d, e, 4, forgery, core)
  <2> DEFINE c == installed(d, "memberAdmin")
             e == granted(c, "users")
  <2>1. "memberAdmin" \in later /\ "users" \in {"users", "roleBindings"}  OBVIOUS
  <2>2. /\ rowsInOrder(c, forgery, core) /\ extends(d, c) /\ "memberAdmin" \in c.schema
        /\ c \in DatabaseType
    BY <1>1, <2>1
  <2> HIDE DEF c
  <2>3. /\ rowsInOrder(e, forgery, core) /\ extends(c, e) /\ e.schema = c.schema
        /\ active(e, "users")
    BY <1>2, <2>1, <2>2
  <2> HIDE DEF e
  <2>4. extends(d, e)  BY <2>2, <2>3, ExtendsOnce
  <2>5. goesOn(d, e, 4, forgery, core)  BY <2>2, <2>3, <2>4 DEF goesOn, brought
  <2> QED  BY <2>5 DEF MemberAdmin, e, c
<1>6. {"identity", "authorization"} \subseteq d.schema =>
         /\ ProjectRoles(d) # {}
         /\ \A e \in ProjectRoles(d) : goesOn(d, e, 5, forgery, core)
  <2> DEFINE c == installed(d, "projectRoles")
             e == granted(c, "roleBindings")
  <2>1. "projectRoles" \in later /\ "roleBindings" \in {"users", "roleBindings"}  OBVIOUS
  <2>2. /\ rowsInOrder(c, forgery, core) /\ extends(d, c) /\ "projectRoles" \in c.schema
        /\ c \in DatabaseType
    BY <1>1, <2>1
  <2> HIDE DEF c
  <2>3. /\ rowsInOrder(e, forgery, core) /\ extends(c, e) /\ e.schema = c.schema
        /\ active(e, "roleBindings")
    BY <1>2, <2>1, <2>2
  <2> HIDE DEF e
  <2>4. extends(d, e)  BY <2>2, <2>3, ExtendsOnce
  <2>5. goesOn(d, e, 5, forgery, core)  BY <2>2, <2>3, <2>4 DEF goesOn, brought
  <2> QED  BY <2>5 DEF ProjectRoles, ensureManagePermission, e, c
<1>7. {"identity", "credentials"} \subseteq d.schema =>
         /\ Sessions(d) # {}
         /\ \A e \in Sessions(d) : goesOn(d, e, 6, forgery, core)
  <2> DEFINE b == installed(d, "sessions")
             c == installed(b, "sessionControl")
             e == installed(c, "throttle")
  <2>1. "sessions" \in later /\ "sessionControl" \in later /\ "throttle" \in later  OBVIOUS
  <2>2. /\ rowsInOrder(b, forgery, core) /\ extends(d, b) /\ "sessions" \in b.schema
        /\ b \in DatabaseType
    BY <1>1, <2>1
  <2> HIDE DEF b
  <2>3. /\ rowsInOrder(c, forgery, core) /\ extends(b, c) /\ "sessionControl" \in c.schema
        /\ c \in DatabaseType
    BY <1>1, <2>1, <2>2
  <2> HIDE DEF c
  <2>4. rowsInOrder(e, forgery, core) /\ extends(c, e) /\ "throttle" \in e.schema
    BY <1>1, <2>1, <2>3
  <2> HIDE DEF e
  <2>5. extends(d, c)  BY <2>2, <2>3, ExtendsOnce
  <2>6. extends(d, e)  BY <2>4, <2>5, ExtendsOnce
  <2>7. {"sessions", "sessionControl", "throttle"} \subseteq e.schema
    BY <2>2, <2>3, <2>4 DEF extends, grows
  <2>8. goesOn(d, e, 6, forgery, core)  BY <2>4, <2>6, <2>7 DEF goesOn, brought
  <2> QED  BY <2>8 DEF Sessions, SessionControl, Throttle, e, c, b
<1> QED  BY <1>3, <1>4, <1>5, <1>6, <1>7

(* Those that look whether the ledger tells the truth.                      *)
LEMMA AuditKeeps ==
    ASSUME NEW d \in DatabaseType, NEW forgery, NEW core, rowsInOrder(d, forgery, core)
    PROVE  /\ Audit(d) = {} => reason(forgery, core)
           /\ \A e \in Audit(d) : goesOn(d, e, 8, forgery, core)
<1>1. "audit" \in MigrationIDs \ (CoreMigrations \cup AddedOperations) /\ "audit" # "configGrants"
      /\ "audit" \in Checked
  BY LaterAre DEF Checked
<1>2. /\ verified(d, "audit") = {} => "audit" = forgery
      /\ \A e \in verified(d, "audit") : e = installed(d, "audit")
  BY <1>1, VerifiedKeeps
<1>3. /\ rowsInOrder(installed(d, "audit"), forgery, core) /\ extends(d, installed(d, "audit"))
      /\ "audit" \in installed(d, "audit").schema
  BY <1>1, InstalledKeeps
<1>4. goesOn(d, installed(d, "audit"), 8, forgery, core)  BY <1>3 DEF goesOn, brought
<1> QED  BY <1>1, <1>2, <1>4 DEF Audit, reason

LEMMA SeedConfigKeeps ==
    ASSUME NEW d \in DatabaseType, NEW forgery, NEW core, rowsInOrder(d, forgery, core)
    PROVE  LET e == seedConfig(d) IN
           /\ rowsInOrder(e, forgery, core) /\ extends(d, e)
           /\ e.schema = d.schema /\ e.ledger = d.ledger
           /\ "configGrants" \in d.schema \/ "configGrants" \notin d.ledger => configSeeded(e)
<1>1. CASE has(d, "configGrants")
  <2>1. seedConfig(d) = d  BY <1>1 DEF seedConfig
  <2>2. extends(d, d)  BY DEF extends, grows
  <2>3. "configGrants" \in d.schema => configSeeded(d)
    BY DEF rowsInOrder, configSeeded, active
  <2> QED  BY <1>1, <2>1, <2>2, <2>3 DEF has
<1>2. CASE ~has(d, "configGrants")
  <2> DEFINE e == seedConfig(d)
             q == [d.permissions EXCEPT !["config"] =
                     IF d.permissions["config"] = "absent" THEN "active"
                     ELSE d.permissions["config"]]
             o == d.operations \cup {"config"}
  <2>1. e = [d EXCEPT !.permissions = q, !.operations = o]  BY <1>2 DEF seedConfig
  <2>2. d.permissions \in [Permissions -> {"absent", "reserved", "active"}]
        /\ "config" \in Permissions /\ "config" \in Operations /\ o \in SUBSET Operations
    BY OperationsAre DEF DatabaseType, Permissions
  <2>3. /\ q \in [Permissions -> {"absent", "reserved", "active"}]
        /\ \A p \in Permissions \ {"config"} : q[p] = d.permissions[p]
        /\ q["config"] = "active"
    BY <2>2 DEF rowsInOrder
  <2> HIDE DEF q, o
  <2>4. /\ e \in DatabaseType
        /\ e.permissions = q /\ e.operations = o /\ e.ledger = d.ledger /\ e.schema = d.schema
        /\ e.users = d.users /\ e.latch = d.latch
    BY <2>1, <2>2, <2>3 DEF DatabaseType
  <2> HIDE DEF e
  <2>5. \A p \in Permissions : active(d, p) => active(e, p)  BY <2>3, <2>4 DEF active
  <2>6. extends(d, e)  BY <2>4, <2>5 DEF extends, grows
  <2>7. d.operations \subseteq e.operations /\ "config" \in e.operations  BY <2>4 DEF o
  <2>8. active(e, "config") /\ e.permissions["config"] # "reserved"  BY <2>3, <2>4 DEF active
  <2>9. AddedPermissions \cup {"core"} \subseteq Permissions
    BY DEF AddedPermissions, Permissions
  <2>10. rowsInOrder(e, forgery, core)
    BY <2>4, <2>5, <2>7, <2>8, <2>9 DEF rowsInOrder
  <2>11. configSeeded(e)  BY <2>7, <2>8 DEF configSeeded, active
  <2> QED  BY <2>4, <2>6, <2>10, <2>11 DEF e
<1> QED  BY <1>1, <1>2

LEMMA ConfigKeeps ==
    ASSUME NEW d \in DatabaseType, NEW forgery, NEW core, rowsInOrder(d, forgery, core),
           "authorization" \in d.schema
    PROVE  /\ Config(d) = {} => reason(forgery, core)
           /\ \A e \in Config(d) : goesOn(d, e, 7, forgery, core)
<1> DEFINE b == installed(d, "config")
           c == seedConfig(b)
           e == installed(c, "configGrants")
<1>1. /\ "config" \in MigrationIDs \ (CoreMigrations \cup AddedOperations)
      /\ "configGrants" \in MigrationIDs \ (CoreMigrations \cup AddedOperations)
      /\ "config" # "configGrants" /\ {"config", "configGrants"} \subseteq Checked
  BY LaterAre DEF Checked
<1>2. /\ rowsInOrder(b, forgery, core) /\ extends(d, b) /\ "config" \in b.schema
      /\ b \in DatabaseType /\ "authorization" \in b.schema
  BY <1>1, InstalledKeeps DEF extends, grows
<1>3. /\ verified(d, "config") = {} => "config" = forgery
      /\ \A f \in verified(d, "config") : f = b
  BY <1>1, VerifiedKeeps
<1> HIDE DEF b
<1>4. /\ rowsInOrder(c, forgery, core) /\ extends(b, c)
      /\ c.schema = b.schema /\ c.ledger = b.ledger /\ c \in DatabaseType
      /\ "configGrants" \in b.schema \/ "configGrants" \notin b.ledger => configSeeded(c)
  BY <1>2, SeedConfigKeeps DEF extends, grows
<1> HIDE DEF c
<1>5. /\ verified(c, "configGrants") = {} => "configGrants" = forgery
      /\ \A f \in verified(c, "configGrants") : f = e
  BY <1>1, <1>4, VerifiedKeeps
<1>6. configSeeded(c) => /\ rowsInOrder(e, forgery, core) /\ extends(c, e)
                         /\ "configGrants" \in e.schema /\ configSeeded(e)
  BY <1>1, <1>4, InstalledKeeps DEF configSeeded, active
<1>7. e.permissions = c.permissions /\ e.operations = c.operations
  BY <1>4 DEF installed, DatabaseType
<1> HIDE DEF e
<1>8. configSeeded(e) => configSeeded(c)  BY <1>7 DEF configSeeded
<1>9. \A g \in Config(d) : g = e /\ configSeeded(e)
  <2> TAKE g \in Config(d)
  <2>1. PICK f \in verified(d, "config") :
           g \in IF "authorization" \notin f.schema THEN {f}
                 ELSE {h \in verified(seedConfig(f), "configGrants") : configSeeded(h)}
    BY DEF Config
  <2>2. f = b  BY <1>3, <2>1
  <2>3. g \in verified(c, "configGrants") /\ configSeeded(g)  BY <1>2, <2>1, <2>2 DEF c
  <2> QED  BY <1>5, <2>3
<1>10. \A g \in Config(d) : goesOn(d, g, 7, forgery, core)
  <2> SUFFICES ASSUME NEW g \in Config(d) PROVE goesOn(d, g, 7, forgery, core)  OBVIOUS
  <2>1. g = e /\ configSeeded(c)  BY <1>8, <1>9
  <2>2. /\ rowsInOrder(e, forgery, core) /\ extends(c, e) /\ "configGrants" \in e.schema
    BY <1>6, <2>1
  <2>3. extends(d, c)  BY <1>2, <1>4, ExtendsOnce
  <2>4. extends(d, e)  BY <2>2, <2>3, ExtendsOnce
  <2>5. "config" \in e.schema  BY <1>2, <1>4, <2>2 DEF extends, grows
  <2> QED  BY <2>1, <2>2, <2>4, <2>5 DEF goesOn, brought
<1>11. Config(d) = {} => reason(forgery, core)
  <2> SUFFICES ASSUME Config(d) = {}, forgery \notin Checked PROVE FALSE  BY DEF reason
  <2>1. b \in verified(d, "config")  BY <1>1, <1>3
  <2>2. e \in verified(c, "configGrants")  BY <1>1, <1>5
  <2>3. "configGrants" \in b.schema \/ "configGrants" \notin b.ledger
    BY <1>1, <1>2 DEF rowsInOrder
  <2>4. configSeeded(e)  BY <1>4, <1>6, <2>3
  <2>5. e \in {h \in verified(seedConfig(b), "configGrants") : configSeeded(h)}
    BY <2>2, <2>4 DEF c
  <2>6. e \in Config(d)  BY <1>2, <2>1, <2>5 DEF Config
  <2> QED  BY <2>6
<1> QED  BY <1>10, <1>11

LEMMA StepKeeps ==
    ASSUME NEW d \in DatabaseType, NEW forgery, NEW core, rowsInOrder(d, forgery, core),
           "authorization" \in core /\ "serviceGrants" \notin core => reason(forgery, core),
           NEW n \in 1..8, broughtTo(d, n - 1)
    PROVE  /\ Apply(Steps[n], d) = {} => reason(forgery, core)
           /\ \A e \in Apply(Steps[n], d) : goesOn(d, e, n, forgery, core)
<1>1. \A k \in 1..7 : k < n => brought(d, k)
  <2> TAKE k \in 1..7
  <2>1. k < n => k \in 1..(n - 1)  BY SMT
  <2> QED  BY <2>1 DEF broughtTo
<1>2. 1 \in 1..7 /\ 2 \in 1..7  BY SMT
<1>3. n > 1 => {"identity", "authorization"} \subseteq d.schema
  <2>1. n > 1 => brought(d, 1)  BY <1>1, <1>2
  <2> QED  BY <2>1 DEF brought, CoreMigrations
<1>4. n > 2 => {"identity", "authorization", "credentials"} \subseteq d.schema
  <2>1. n > 2 => brought(d, 2) /\ n > 1  BY <1>1, <1>2, SMT
  <2> QED  BY <1>3, <2>1 DEF brought
<1>5. \/ n = 1 \/ n = 2 \/ n = 3 \/ n = 4 \/ n = 5 \/ n = 6 \/ n = 7 \/ n = 8  BY SMT
<1>6. CASE n = 1
  <2>1. Apply(Steps[n], d) = IdentityCore(d)  BY <1>6 DEF Steps, Apply
  <2> QED  BY <1>6, <2>1, IdentityCoreKeeps
<1>7. CASE n = 2
  <2>1. Apply(Steps[n], d) = LocalCredentials(d)  BY <1>7 DEF Steps, Apply
  <2>2. {"identity"} \subseteq d.schema  BY <1>3, <1>7
  <2> QED  BY <1>7, <2>1, <2>2, CreatingKeeps
<1>8. CASE n = 3
  <2>1. Apply(Steps[n], d) = Bootstrap(d)  BY <1>8 DEF Steps, Apply
  <2>2. {"identity", "authorization", "credentials"} \subseteq d.schema  BY <1>4, <1>8
  <2> QED  BY <1>8, <2>1, <2>2, CreatingKeeps
<1>9. CASE n = 4
  <2>1. Apply(Steps[n], d) = MemberAdmin(d)  BY <1>9 DEF Steps, Apply
  <2>2. {"identity", "authorization", "credentials"} \subseteq d.schema  BY <1>4, <1>9
  <2> QED  BY <1>9, <2>1, <2>2, CreatingKeeps
<1>10. CASE n = 5
  <2>1. Apply(Steps[n], d) = ProjectRoles(d)  BY <1>10 DEF Steps, Apply
  <2>2. {"identity", "authorization"} \subseteq d.schema  BY <1>3, <1>10
  <2> QED  BY <1>10, <2>1, <2>2, CreatingKeeps
<1>11. CASE n = 6
  <2>1. Apply(Steps[n], d) = Sessions(d)  BY <1>11 DEF Steps, Apply
  <2>2. {"identity", "credentials"} \subseteq d.schema  BY <1>4, <1>11
  <2> QED  BY <1>11, <2>1, <2>2, CreatingKeeps
<1>12. CASE n = 7
  <2>1. Apply(Steps[n], d) = Config(d)  BY <1>12 DEF Steps, Apply
  <2>2. "authorization" \in d.schema  BY <1>3, <1>12
  <2> QED  BY <1>12, <2>1, <2>2, ConfigKeeps
<1>13. CASE n = 8
  <2>1. Apply(Steps[n], d) = Audit(d)  BY <1>13 DEF Steps, Apply
  <2> QED  BY <1>13, <2>1, AuditKeeps
<1> QED  BY <1>5, <1>6, <1>7, <1>8, <1>9, <1>10, <1>11, <1>12, <1>13

(* All of the steps together make the database of this release.             *)
LEMMA BroughtIsComplete ==
    ASSUME NEW d \in DatabaseType, NEW forgery, NEW core, rowsInOrder(d, forgery, core),
           broughtTo(d, 8)
    PROVE  Complete(d)
<1>1. /\ 1 \in 1..8 /\ 2 \in 1..8 /\ 3 \in 1..8 /\ 4 \in 1..8 /\ 5 \in 1..8 /\ 6 \in 1..8
      /\ 7 \in 1..8 /\ 8 \in 1..8
  BY SMT
<1>2. /\ brought(d, 1) /\ brought(d, 2) /\ brought(d, 3) /\ brought(d, 4) /\ brought(d, 5)
      /\ brought(d, 6) /\ brought(d, 7) /\ brought(d, 8)
  BY <1>1 DEF broughtTo
<1>3. /\ CoreMigrations \cup AddedOperations \subseteq d.schema
      /\ {"credentials", "bootstrap", "memberAdmin", "projectRoles", "sessions",
          "sessionControl", "throttle", "config", "configGrants", "audit"} \subseteq d.schema
      /\ active(d, "users") /\ active(d, "roleBindings")
  BY <1>2 DEF brought
<1>4. MigrationIDs \subseteq d.schema
  BY <1>3, HistoryIs DEF CoreMigrations, AddedOperations
<1>5. d.schema = MigrationIDs /\ d.ledger = MigrationIDs
  BY <1>4 DEF DatabaseType, rowsInOrder
<1>6. \A p \in Permissions : active(d, p)
  <2>1. active(d, "core") /\ active(d, "config")
    BY <1>3 DEF rowsInOrder, CoreMigrations
  <2>2. \A p \in AddedPermissions : active(d, p)
    BY <1>3 DEF rowsInOrder, AddedPermissions, AddedOperations
  <2> QED  BY <1>3, <2>1, <2>2 DEF Permissions, AddedPermissions
<1>7. d.operations = Operations
  <2>1. "core" \in d.operations /\ "config" \in d.operations
    BY <1>3 DEF rowsInOrder, CoreMigrations
  <2>2. AddedOperations \subseteq d.operations  BY <1>3 DEF rowsInOrder
  <2>3. Operations \subseteq d.operations  BY <2>1, <2>2, OperationsAre DEF AddedOperations
  <2> QED  BY <2>3 DEF DatabaseType
<1> QED  BY <1>5, <1>6, <1>7 DEF Complete, active

-----------------------------------------------------------------------------
(* The specification.                                                       *)

LEMMA DatabaseIsInOrder ==
    ASSUME NEW n \in 0..Len(History), NEW f \in {None} \cup (MigrationIDs \ (released(n) \cup CoreMigrations)),
           NEW users \in SUBSET UserIDs,
           NEW latch \in [reason : {"open", "initialized", "preexisting_identity"},
                          user : UserIDs \cup {None}],
           NEW d, d.ledger = released(n) \cup ({f} \ {None}), d.schema = released(n),
           d.permissions = Database(n).permissions, d.operations = Database(n).operations,
           d.users = users, d.latch = latch,
           d = [ledger |-> d.ledger, schema |-> d.schema, permissions |-> d.permissions,
                operations |-> d.operations, users |-> d.users, latch |-> d.latch]
    PROVE  d \in DatabaseType /\ rowsInOrder(d, f, coreOf(n))
<1>1. released(n) \subseteq MigrationIDs  BY SMT DEF released, MigrationIDs
<1>2. /\ d.permissions = [p \in Permissions |->
            IF permissionSince(p) \notin released(n) THEN "absent"
            ELSE IF p = "roleBindings" /\ "projectRoles" \notin released(n) THEN "reserved"
            ELSE "active"]
      /\ d.operations = {o \in Operations : operationSince(o) \in released(n)}
  BY DEF Database
<1>3. d \in DatabaseType
  <2>1. d.ledger \in SUBSET MigrationIDs /\ d.schema \in SUBSET MigrationIDs  BY <1>1
  <2>2. d.permissions \in [Permissions -> {"absent", "reserved", "active"}]  BY <1>2
  <2>3. d.operations \in SUBSET Operations  BY <1>2
  <2> QED  BY <2>1, <2>2, <2>3 DEF DatabaseType
<1>4. \A p \in Permissions \ {"roleBindings"} :
         IF permissionSince(p) \in released(n) THEN active(d, p) ELSE d.permissions[p] = "absent"
  BY <1>2 DEF active
<1>5. /\ {"core", "config"} \cup AddedPermissions \subseteq Permissions \ {"roleBindings"}
      /\ permissionSince("core") = "authorization"
      /\ permissionSince("config") = "configGrants"
  BY DEF Permissions, AddedPermissions, permissionSince
<1>6. \A p \in AddedPermissions : permissionSince(p) = p
  <2> TAKE p \in AddedPermissions
  <2>1. p # "core" /\ p # "config" /\ p # "users" /\ p # "roleBindings"
    BY DEF AddedPermissions
  <2> QED  BY <2>1 DEF permissionSince
<1>7. operationSince("core") = "serviceGrants" /\ operationSince("config") = "configGrants"
  BY DEF operationSince
<1>8. \A o \in AddedOperations : operationSince(o) = o
  <2> TAKE o \in AddedOperations
  <2>1. o # "core" /\ o # "config"  BY DEF AddedOperations
  <2> QED  BY <2>1 DEF operationSince
<1>9. {"core", "config"} \cup AddedOperations \subseteq Operations
  BY OperationsAre DEF AddedOperations
<1>10. /\ "authorization" \in d.schema => active(d, "core")
       /\ \A p \in AddedPermissions : p \in d.schema => active(d, p)
       /\ "configGrants" \in d.schema => active(d, "config")
  BY <1>4, <1>5, <1>6
<1>11. d.permissions["config"] # "reserved"  BY <1>4, <1>5 DEF active
<1>12. /\ "serviceGrants" \in d.schema => "core" \in d.operations
       /\ \A o \in AddedOperations : o \in d.schema => o \in d.operations
       /\ "configGrants" \in d.schema => "config" \in d.operations
  BY <1>2, <1>7, <1>8, <1>9
<1>13. None \notin CoreMigrations  BY DEF None, CoreMigrations
<1>14. /\ CoreMigrations \cap d.ledger \subseteq d.schema
       /\ d.schema \subseteq d.ledger /\ d.ledger \subseteq d.schema \cup {f}
       /\ d.schema \cap CoreMigrations = coreOf(n)
  BY <1>13 DEF coreOf
<1> QED  BY <1>3, <1>10, <1>11, <1>12, <1>14 DEF rowsInOrder

LEMMA StartupInitInOrder == StartupInit => StartupIInv
<1> SUFFICES ASSUME StartupInit PROVE StartupIInv  OBVIOUS
<1>1. /\ release \in 0..Len(History)
      /\ forged \in {None} \cup (MigrationIDs \ (released(release) \cup CoreMigrations))
      /\ items \in (IF release = 0 THEN {"none"} ELSE {"old", "revised"})
      /\ process = [p \in Processes |-> [state |-> "down", at |-> 0]]
  BY DEF StartupInit
<1>2. PICK users \in SUBSET UserIDs, first \in UserIDs \cup {None}, latched \in BOOLEAN :
          LET d == [Database(release) EXCEPT !.users = users]
              l == IF first # None THEN [reason |-> "initialized", user |-> first]
                   ELSE IF latched THEN closed(d).latch ELSE NoLatch IN
          /\ users # {} => "identity" \in d.schema
          /\ first # None => first \in users /\ "bootstrap" \in d.schema
          /\ latched => "bootstrap" \in d.schema
          /\ db = [d EXCEPT !.latch = l, !.ledger = @ \cup ({forged} \ {None})]
          /\ rights = [r \in {"binding", "credential", "audit"} |-> {first} \ {None}]
  BY DEF StartupInit
<1> DEFINE d == [Database(release) EXCEPT !.users = users]
           l == IF first # None THEN [reason |-> "initialized", user |-> first]
                ELSE IF latched THEN closed(d).latch ELSE NoLatch
<1>3. /\ d.ledger = released(release) /\ d.schema = released(release)
      /\ d.permissions = Database(release).permissions
      /\ d.operations = Database(release).operations
      /\ d.users = users /\ d.latch = NoLatch
      /\ d = [ledger |-> d.ledger, schema |-> d.schema, permissions |-> d.permissions,
              operations |-> d.operations, users |-> d.users, latch |-> d.latch]
  <2> DEFINE D == Database(release)
             A == released(release)
             P == D.permissions
             O == D.operations
  <2>1. D = [ledger |-> A, schema |-> A, permissions |-> P, operations |-> O,
             users |-> {}, latch |-> NoLatch]
    BY DEF Database
  <2> HIDE DEF D, A, P, O, NoLatch
  <2>2. d = [D EXCEPT !.users = users]  BY DEF D
  <2> HIDE DEF d
  <2>3. d = [ledger |-> A, schema |-> A, permissions |-> P, operations |-> O,
             users |-> users, latch |-> NoLatch]
    BY <2>1, <2>2
  <2>4. /\ d.ledger = A /\ d.schema = A /\ d.permissions = P /\ d.operations = O
        /\ d.users = users /\ d.latch = NoLatch
    BY <2>3
  <2> QED  BY <2>3, <2>4 DEF A, P, O, D
<1>4. /\ db = [d EXCEPT !.latch = l, !.ledger = @ \cup ({forged} \ {None})]
      /\ first # None => first \in users
      /\ rights = [r \in {"binding", "credential", "audit"} |-> {first} \ {None}]
  BY <1>2
<1>5. closed(d).latch \in {NoLatch, [reason |-> "preexisting_identity", user |-> None]}
  <2> HIDE DEF d
  <2>1. CASE d.latch = NoLatch /\ d.users # {}
    <3>1. closed(d) = [d EXCEPT !.latch = [reason |-> "preexisting_identity", user |-> None]]
      BY <2>1 DEF closed, None
    <3> QED  BY <3>1, <1>3
  <2>2. CASE ~(d.latch = NoLatch /\ d.users # {})
    <3>1. closed(d) = d  BY <2>2 DEF closed
    <3> QED  BY <3>1, <1>3
  <2> QED  BY <2>1, <2>2
<1>6. NoLatch = [reason |-> "open", user |-> None]  BY DEF NoLatch, None
<1>7. /\ l \in [reason : {"open", "initialized", "preexisting_identity"},
                user : UserIDs \cup {None}]
      /\ l.user = first /\ (l.reason = "initialized" <=> first # None)
  <2> HIDE DEF d
  <2>1. CASE first # None
    <3>1. l = [reason |-> "initialized", user |-> first]  BY <2>1
    <3> QED  BY <3>1, <2>1
  <2>2. CASE first = None
    <3>1. l \in {NoLatch, [reason |-> "preexisting_identity", user |-> None]}
      BY <2>2, <1>5
    <3> QED  BY <3>1, <2>2, <1>6
  <2> QED  BY <2>1, <2>2
<1> HIDE DEF d, l
<1>8. /\ db.ledger = released(release) \cup ({forged} \ {None}) /\ db.schema = released(release)
      /\ db.permissions = Database(release).permissions
      /\ db.operations = Database(release).operations
      /\ db.users = users /\ db.latch = l
      /\ db = [ledger |-> db.ledger, schema |-> db.schema, permissions |-> db.permissions,
               operations |-> db.operations, users |-> db.users, latch |-> db.latch]
  BY <1>3, <1>4
<1>9. db \in DatabaseType /\ rowsInOrder(db, forged, coreOf(release))
  BY <1>1, <1>7, <1>8, DatabaseIsInOrder
<1>10. latchInOrder(db)  BY <1>4, <1>7, <1>8 DEF latchInOrder
<1>11. rights = [r \in {"binding", "credential", "audit"} |-> {db.latch.user} \ {None}]
  BY <1>4, <1>7, <1>8
<1>12. [state |-> "down", at |-> 0] \in States  BY DEF States
<1>13. process \in [Processes -> States]  BY <1>1, <1>12
<1>14. \A p \in Processes : process[p].state = "down"  BY <1>1
<1>15. items \in {"none", "old", "revised"}  BY <1>1
<1>16. forged \in MigrationIDs \cup {None}  BY <1>1
<1> QED  BY <1>1, <1>9, <1>10, <1>11, <1>13, <1>14, <1>15, <1>16 DEF StartupIInv

LEMMA RefusalIsExplained ==
    ASSUME StartupIInv
    PROVE  "authorization" \in coreOf(release) /\ "serviceGrants" \notin coreOf(release)
              => reason(forged, coreOf(release))
BY CoreIsPrefix DEF StartupIInv, reason

(* A process moves while the database only grows.                           *)
LEMMA StartMoves ==
    ASSUME StartupIInv, NEW p \in Processes, NEW s \in States, grows(db, db'),
           process' = [process EXCEPT ![p] = s], UNCHANGED <<release, forged>>,
           s.state \in {"starting", "running"} => broughtTo(db', s.at),
           s.state = "refused" => reason(forged, coreOf(release))
    PROVE  /\ process' \in [Processes -> States]
           /\ \A q \in Processes :
                 /\ process'[q].state \in {"starting", "running"} => broughtTo(db', process'[q].at)
                 /\ process'[q].state = "refused" => reason(forged', coreOf(release'))
<1>1. /\ process \in [Processes -> States]
      /\ \A q \in Processes :
            /\ process[q].state \in {"starting", "running"} => broughtTo(db, process[q].at)
            /\ process[q].state = "refused" => reason(forged, coreOf(release))
  BY DEF StartupIInv
<1>2. process' \in [Processes -> States]  BY <1>1
<1>3. process'[p] = s /\ \A q \in Processes \ {p} : process'[q] = process[q]
  BY <1>1
<1>4. \A n : broughtTo(db, n) => broughtTo(db', n)  BY BroughtStays DEF broughtTo
<1>5. ASSUME NEW q \in Processes
      PROVE  /\ process'[q].state \in {"starting", "running"} => broughtTo(db', process'[q].at)
             /\ process'[q].state = "refused" => reason(forged', coreOf(release'))
  <2>1. CASE q = p  BY <2>1, <1>3
  <2>2. CASE q # p  BY <2>2, <1>1, <1>3, <1>4
  <2> QED  BY <2>1, <2>2
<1> QED  BY <1>2, <1>5

(* A process moves and the database stays.                                  *)
LEMMA OnlyStartMoves ==
    ASSUME StartupIInv, NEW p \in Processes, NEW state, NEW at,
           [state |-> state, at |-> at] \in States, to(p, state, at),
           UNCHANGED <<db, rights, release, forged>>, items' \in {"none", "old", "revised"},
           state = "starting" => at = 0, state # "running",
           state = "refused" => reason(forged, coreOf(release))
    PROVE  StartupIInv'
<1> DEFINE s == [state |-> state, at |-> at]
<1>1. grows(db, db')  BY DEF grows
<1>2. process' = [process EXCEPT ![p] = s]  BY DEF to
<1>3. s \in States /\ s.state = state /\ s.at = at  OBVIOUS
<1> HIDE DEF s
<1>4. s.state \in {"starting", "running"} => broughtTo(db', s.at)
  <2>1. \A k \in 1..0 : FALSE  BY SMT
  <2> QED  BY <1>3, <2>1 DEF broughtTo
<1>5. /\ process' \in [Processes -> States]
      /\ \A q \in Processes :
            /\ process'[q].state \in {"starting", "running"} => broughtTo(db', process'[q].at)
            /\ process'[q].state = "refused" => reason(forged', coreOf(release'))
  BY <1>1, <1>2, <1>3, <1>4, StartMoves
<1> QED  BY <1>5 DEF StartupIInv

LEMMA MigrateDoes ==
    ASSUME StartupIInv, NEW p \in Processes, Migrate(p)
    PROVE  StartupIInv' /\ rights' = rights /\ (db.latch # NoLatch => db'.latch = db.latch)
<1> DEFINE n == process[p].at + 1
           results == Apply(Steps[n], db)
           core == coreOf(release)
<1>1. /\ process[p].state = "starting" /\ UNCHANGED <<items, rights, release, forged>>
      /\ \/ /\ results = {} /\ to(p, "refused", 0) /\ UNCHANGED db
         \/ /\ db' \in results
            /\ \/ n = Len(Steps) /\ to(p, "running", Len(Steps))
               \/ n # Len(Steps) /\ to(p, "starting", n)
  BY DEF Migrate, is
<1>2. /\ db \in DatabaseType /\ rowsInOrder(db, forged, core) /\ latchInOrder(db)
      /\ process[p] \in States /\ broughtTo(db, process[p].at)
  BY <1>1 DEF StartupIInv
<1>3. Len(Steps) = 8  BY HistoryIs
<1>4. process[p].at \in 0..7
  <2>1. process[p] \in [state : {"starting"}, at : 0..(Len(Steps) - 1)]
    BY <1>1, <1>2 DEF States
  <2> QED  BY <1>3, <2>1, SMT
<1>5. n \in 1..8 /\ n - 1 = process[p].at  BY <1>4, SMT
<1>6. broughtTo(db, n - 1)  BY <1>2, <1>5
<1>7. "authorization" \in core /\ "serviceGrants" \notin core => reason(forged, core)
  BY RefusalIsExplained
<1> HIDE DEF n, core
<1>8. /\ results = {} => reason(forged, core)
      /\ \A e \in results : goesOn(db, e, n, forged, core)
  BY <1>2, <1>5, <1>6, <1>7, StepKeeps
<1> HIDE DEF results
<1>9. CASE results = {} /\ to(p, "refused", 0) /\ UNCHANGED db
  <2>1. [state |-> "refused", at |-> 0] \in States  BY DEF States
  <2>2. items' \in {"none", "old", "revised"}  BY <1>1 DEF StartupIInv
  <2>3. UNCHANGED <<db, rights, release, forged>>  BY <1>1, <1>9
  <2>4. reason(forged, coreOf(release))  BY <1>8, <1>9 DEF core
  <2>5. StartupIInv'  BY <1>9, <2>1, <2>2, <2>3, <2>4, OnlyStartMoves
  <2> QED  BY <1>1, <1>9, <2>5
<1>10. CASE /\ db' \in results
            /\ \/ n = Len(Steps) /\ to(p, "running", Len(Steps))
               \/ n # Len(Steps) /\ to(p, "starting", n)
  <2>1. extends(db, db') /\ rowsInOrder(db', forged, core) /\ brought(db', n)
    BY <1>8, <1>10 DEF goesOn
  <2>2. grows(db, db') /\ db' \in DatabaseType  BY <2>1 DEF extends
  <2>3. broughtTo(db', n)
    <3>1. ASSUME NEW k \in 1..n PROVE brought(db', k)
      <4>1. CASE k = n  BY <2>1, <4>1
      <4>2. CASE k # n
        <5>1. k \in 1..(n - 1)  BY <1>5, <4>2, SMT
        <5>2. brought(db, k)  BY <1>6, <5>1 DEF broughtTo
        <5> QED  BY <2>2, <5>2, BroughtStays
      <4> QED  BY <4>1, <4>2
    <3> QED  BY <3>1 DEF broughtTo
  <2>4. PICK s \in States :
           /\ process' = [process EXCEPT ![p] = s] /\ s.at = n
           /\ s.state \in {"starting", "running"}
    <3>1. CASE n = Len(Steps) /\ to(p, "running", Len(Steps))
      <4> DEFINE s == [state |-> "running", at |-> Len(Steps)]
      <4>1. s \in States  BY DEF States
      <4>2. process' = [process EXCEPT ![p] = s] /\ s.at = n  BY <3>1 DEF to
      <4> QED  BY <4>1, <4>2
    <3>2. CASE n # Len(Steps) /\ to(p, "starting", n)
      <4> DEFINE s == [state |-> "starting", at |-> n]
      <4>1. n \in 0..(Len(Steps) - 1)  BY <1>3, <1>5, <3>2, SMT
      <4>2. s \in States  BY <4>1 DEF States
      <4>3. process' = [process EXCEPT ![p] = s] /\ s.at = n  BY <3>2 DEF to
      <4> QED  BY <4>2, <4>3
    <3> QED  BY <1>10, <3>1, <3>2
  <2>5. UNCHANGED <<release, forged>> /\ s.state # "refused"  BY <1>1, <2>4
  <2>6. s.state \in {"starting", "running"} => broughtTo(db', s.at)  BY <2>3, <2>4
  <2>7. /\ process' \in [Processes -> States]
        /\ \A q \in Processes :
              /\ process'[q].state \in {"starting", "running"} => broughtTo(db', process'[q].at)
              /\ process'[q].state = "refused" => reason(forged', coreOf(release'))
    BY <2>2, <2>4, <2>5, <2>6, StartMoves
  <2>8. /\ db'.users = db.users /\ db'.latch.user = db.latch.user /\ latchInOrder(db')
        /\ db.latch # NoLatch => db'.latch = db.latch
    BY <1>2, <2>1 DEF extends, latchInOrder, NoLatch, None
  <2>9. rights' = [r \in {"binding", "credential", "audit"} |-> {db'.latch.user} \ {None}]
    BY <1>1, <2>8 DEF StartupIInv
  <2>10. rowsInOrder(db', forged', coreOf(release'))  BY <1>1, <2>1 DEF core
  <2> QED  BY <1>1, <2>2, <2>7, <2>8, <2>9, <2>10 DEF StartupIInv
<1> QED  BY <1>1, <1>9, <1>10

(* Users and the latch change, the rows of the migrations do not.           *)
LEMMA OnlyUsersChange ==
    ASSUME StartupIInv, NEW users \in SUBSET UserIDs, db.users \subseteq users,
           NEW latch \in [reason : {"open", "initialized", "preexisting_identity"},
                          user : UserIDs \cup {None}],
           latch.reason = "initialized" <=> latch.user # None,
           latch.user # None => latch.user \in users,
           db' = [db EXCEPT !.latch = latch, !.users = users],
           rights' = [r \in {"binding", "credential", "audit"} |-> {latch.user} \ {None}],
           UNCHANGED <<items, process, release, forged>>
    PROVE  StartupIInv' /\ db'.latch = latch
<1>1. db \in DatabaseType /\ rowsInOrder(db, forged, coreOf(release))  BY DEF StartupIInv
<1>2. /\ db' \in DatabaseType /\ db'.latch = latch /\ db'.users = users
      /\ db'.ledger = db.ledger /\ db'.schema = db.schema
      /\ db'.permissions = db.permissions /\ db'.operations = db.operations
  BY <1>1 DEF DatabaseType
<1>3. rowsInOrder(db', forged, coreOf(release))  BY <1>1, <1>2 DEF rowsInOrder, active
<1>4. latchInOrder(db')  BY <1>2 DEF latchInOrder
<1>5. grows(db, db')  BY <1>2 DEF grows, active
<1>6. \A n : broughtTo(db, n) => broughtTo(db', n)  BY <1>5, BroughtStays DEF broughtTo
<1> QED  BY <1>2, <1>3, <1>4, <1>6 DEF StartupIInv

LEMMA BindDoes ==
    ASSUME StartupIInv, NEW p \in Processes, NEW u \in UserIDs, Bind(p, u)
    PROVE  StartupIInv' /\ rights' = rights /\ db'.latch = db.latch
<1> DEFINE users == db.users \cup {u}
           latch == db.latch
<1>1. /\ db \in DatabaseType /\ latchInOrder(db)
      /\ rights = [r \in {"binding", "credential", "audit"} |-> {db.latch.user} \ {None}]
  BY DEF StartupIInv
<1>2. db' = [db EXCEPT !.latch = latch, !.users = users]  BY <1>1 DEF Bind, DatabaseType
<1>3. /\ users \in SUBSET UserIDs /\ db.users \subseteq users
      /\ latch \in [reason : {"open", "initialized", "preexisting_identity"},
                    user : UserIDs \cup {None}]
      /\ latch.reason = "initialized" <=> latch.user # None
      /\ latch.user # None => latch.user \in users
  BY <1>1 DEF DatabaseType, latchInOrder
<1>4. /\ rights' = rights /\ UNCHANGED <<items, process, release, forged>>
  BY DEF Bind
<1>5. rights' = [r \in {"binding", "credential", "audit"} |-> {latch.user} \ {None}]
  BY <1>1, <1>4
<1> HIDE DEF users, latch
<1>6. StartupIInv' /\ db'.latch = latch  BY <1>2, <1>3, <1>4, <1>5, OnlyUsersChange
<1> QED  BY <1>4, <1>6 DEF latch

LEMMA InitializeDoes ==
    ASSUME StartupIInv, NEW p \in Processes, NEW u \in UserIDs, Initialize(p, u)
    PROVE  StartupIInv' /\ db.latch = NoLatch /\ (rights' # rights => db.users = {})
<1>1. /\ db \in DatabaseType /\ latchInOrder(db)
      /\ rights = [r \in {"binding", "credential", "audit"} |-> {db.latch.user} \ {None}]
  BY DEF StartupIInv
<1>2. /\ db.latch = NoLatch /\ NoLatch.user = None /\ u # None
      /\ UNCHANGED <<items, process, release, forged>>
  BY StartupAssumption DEF Initialize, NoLatch, None
<1>3. CASE db.users # {}
  <2> DEFINE latch == [reason |-> "preexisting_identity", user |-> None]
  <2>1. db' = closed(db) /\ rights' = rights  BY <1>3 DEF Initialize, preexisting
  <2>2. db' = [db EXCEPT !.latch = latch]  BY <1>2, <1>3, <2>1 DEF closed, None
  <2>3. /\ latch \in [reason : {"open", "initialized", "preexisting_identity"},
                      user : UserIDs \cup {None}]
        /\ latch.reason # "initialized" /\ latch.user = None
    OBVIOUS
  <2> HIDE DEF latch
  <2>4. db' = [db EXCEPT !.latch = latch, !.users = db.users]
    BY <1>1, <2>2 DEF DatabaseType
  <2>5. rights' = [r \in {"binding", "credential", "audit"} |-> {latch.user} \ {None}]
    BY <1>1, <1>2, <2>1, <2>3
  <2>6. db.users \in SUBSET UserIDs  BY <1>1 DEF DatabaseType
  <2>7. StartupIInv'  BY <1>2, <2>3, <2>4, <2>5, <2>6, OnlyUsersChange
  <2> QED  BY <1>2, <2>1, <2>7
<1>4. CASE db.users = {}
  <2> DEFINE latch == [reason |-> "initialized", user |-> u]
             users == db.users \cup {u}
  <2>1. /\ db' = [db EXCEPT !.latch = latch, !.users = users]
        /\ rights' = [r \in DOMAIN rights |-> rights[r] \cup {u}]
    BY <1>4 DEF Initialize, preexisting, claimBootstrap
  <2>2. /\ latch \in [reason : {"open", "initialized", "preexisting_identity"},
                      user : UserIDs \cup {None}]
        /\ latch.reason = "initialized" /\ latch.user = u
    OBVIOUS
  <2>3. users \in SUBSET UserIDs /\ db.users \subseteq users /\ u \in users
    BY <1>1 DEF DatabaseType
  <2> HIDE DEF latch, users
  <2>4. rights' = [r \in {"binding", "credential", "audit"} |-> {latch.user} \ {None}]
    BY <1>1, <1>2, <2>1, <2>2
  <2>5. StartupIInv'  BY <1>2, <2>1, <2>2, <2>3, <2>4, OnlyUsersChange
  <2> QED  BY <1>2, <1>4, <2>5
<1> QED  BY <1>3, <1>4

(* What any step does.                                                      *)
LEMMA StartupStep ==
    ASSUME StartupIInv, StartupNext
    PROVE  /\ StartupIInv' /\ (rights' # rights => db.users = {} /\ db.latch = NoLatch)
           /\ db.latch # NoLatch => db'.latch = db.latch
<1>1. items \in {"none", "old", "revised"}  BY DEF StartupIInv
<1>2. PICK p \in Processes :
         \/ Open(p) \/ Inspect(p) \/ Alter(p) \/ Migrate(p) \/ Fail(p)
         \/ \E u \in UserIDs : Bind(p, u) \/ Initialize(p, u)
  BY DEF StartupNext
<1>3. CASE Open(p) \/ Inspect(p) \/ Alter(p) \/ Fail(p)
  <2>1. PICK state \in {"opening", "altering", "starting", "failed"} : to(p, state, 0)
    BY <1>3 DEF Open, Inspect, Alter, Fail
  <2>2. /\ UNCHANGED <<db, rights, release, forged>>
        /\ items' \in {"none", "old", "revised"}
    BY <1>1, <1>3 DEF Open, Inspect, Alter, Fail
  <2>3. [state |-> state, at |-> 0] \in States
    <3>1. 0 \in 0..(Len(Steps) - 1)  BY HistoryIs, SMT
    <3> QED  BY <3>1 DEF States
  <2>4. state # "running" /\ state # "refused"  OBVIOUS
  <2>5. StartupIInv'  BY <2>1, <2>2, <2>3, <2>4, OnlyStartMoves
  <2> QED  BY <2>2, <2>5
<1>4. CASE Migrate(p)  BY <1>4, MigrateDoes
<1>5. ASSUME NEW u \in UserIDs, Bind(p, u)
      PROVE  /\ StartupIInv' /\ (rights' # rights => db.users = {} /\ db.latch = NoLatch)
             /\ db.latch # NoLatch => db'.latch = db.latch
  BY <1>5, BindDoes
<1>6. ASSUME NEW u \in UserIDs, Initialize(p, u)
      PROVE  /\ StartupIInv' /\ (rights' # rights => db.users = {} /\ db.latch = NoLatch)
             /\ db.latch # NoLatch => db'.latch = db.latch
  BY <1>6, InitializeDoes
<1> QED  BY <1>2, <1>3, <1>4, <1>5, <1>6

LEMMA StartupIInvHolds == StartupSpec => []StartupIInv
<1>1. StartupInit => StartupIInv  BY StartupInitInOrder
<1>2. StartupIInv /\ [StartupNext]_startupVars => StartupIInv'
  <2> SUFFICES ASSUME StartupIInv, [StartupNext]_startupVars PROVE StartupIInv'  OBVIOUS
  <2>1. CASE StartupNext  BY <2>1, StartupStep
  <2>2. CASE UNCHANGED startupVars  BY <2>2 DEF StartupIInv, startupVars
  <2> QED  BY <2>1, <2>2
<1> QED  BY <1>1, <1>2, PTL DEF StartupSpec

(* Whatever release the database comes from, whatever row was forged in its *)
(* ledger and however many processes start, crash and start again on it: a  *)
(* process that runs has the schema and the dictionary of its release, a    *)
(* start is refused for a reason only, and the latch names the one user     *)
(* that the bootstrap has given its rights (New, Initialize).               *)
THEOREM StartupInvariantHolds == StartupSpec => []StartupInvariant
<1>1. StartupIInv => StartupInvariant
  <2> SUFFICES ASSUME StartupIInv PROVE StartupInvariant  OBVIOUS
  <2>1. /\ db \in DatabaseType /\ rowsInOrder(db, forged, coreOf(release)) /\ latchInOrder(db)
        /\ rights = [r \in {"binding", "credential", "audit"} |-> {db.latch.user} \ {None}]
        /\ process \in [Processes -> States]
        /\ \A p \in Processes :
              /\ process[p].state \in {"starting", "running"} => broughtTo(db, process[p].at)
              /\ process[p].state = "refused" => reason(forged, coreOf(release))
    BY DEF StartupIInv
  <2>2. StartupTypeOK
    <3>1. db.users \subseteq UserIDs /\ db.latch.user \in UserIDs \cup {None}
      BY <2>1 DEF DatabaseType
    <3>2. db.latch.user # None => db.latch.user \in UserIDs  BY <3>1
    <3>3. {db.latch.user} \ {None} \in SUBSET UserIDs  BY <3>2
    <3>4. rights \in [{"binding", "credential", "audit"} -> SUBSET UserIDs]
      BY <2>1, <3>3
    <3> QED  BY <3>4 DEF StartupTypeOK, StartupIInv, DatabaseType
  <2>3. RunningIsComplete
    <3> SUFFICES ASSUME NEW p \in Processes, process[p].state = "running" PROVE Complete(db)
      BY DEF RunningIsComplete, is
    <3>1. process[p] \in [state : {"running"}, at : {Len(Steps)}]  BY <2>1 DEF States
    <3>2. process[p].at = 8  BY <3>1, HistoryIs
    <3>3. broughtTo(db, 8)  BY <2>1, <3>2
    <3> QED  BY <2>1, <3>3, BroughtIsComplete
  <2>4. RefusedForReason  BY <2>1 DEF RefusedForReason, is, reason, coreOf
  <2>5. LatchIsTrue  BY <2>1 DEF LatchIsTrue, latchInOrder
  <2> QED  BY <2>2, <2>3, <2>4, <2>5 DEF StartupInvariant
<1> QED  BY <1>1, StartupIInvHolds, PTL

(* An administrator is only made where there was no user, by one call ever, *)
(* and a closed latch stays as it is (initialize, closedReason).            *)
THEOREM FirstUserOnlyHolds == StartupSpec => FirstUserOnly
<1> DEFINE Step == /\ rights' # rights => db.users = {} /\ db.latch = NoLatch
                   /\ db.latch # NoLatch => db'.latch = db.latch
<1>1. StartupIInv /\ [StartupNext]_startupVars => [Step]_startupVars
  BY StartupStep
<1> QED  BY <1>1, StartupIInvHolds, PTL DEF StartupSpec, FirstUserOnly
===============================================================================
