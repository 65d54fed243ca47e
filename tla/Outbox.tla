------------------------------- MODULE Outbox -------------------------------
(***************************************************************************)
(* The outbox of localoutbox/sqlite.go between the transactions that stage *)
(* events and the consumers that receive them: rows with leases, claimed   *)
(* in batches by the dispatchers of several processes, published to the    *)
(* notification router and then marked, retried or buried.                 *)
(*                                                                         *)
(* The dispatcher is external and modelled as the service configures it    *)
(* (bootstrap/application.go): one event after the other, and the same     *)
(* worker identifier in every process.  A worker may be arbitrarily slow,  *)
(* so a lease can end while its holder is still at work.                   *)
(*                                                                         *)
(* Time is what is left of a lease or a delay, in ticks of a second.  The   *)
(* rows hold times as text that does not order fractions of a second, so a *)
(* comparison within the last second may go either way.                    *)
(***************************************************************************)
EXTENDS Naturals, Sequences, FiniteSets, SequencesExt

CONSTANTS
    Events,       \* event identifiers
    Workers,      \* the dispatchers, one in each process
    Channels,     \* the notification channels in the order of their names
    Batch,        \* records a claim takes at most
    Lease, Delay, \* ticks of a lease, and of the wait before a retry
    MaxAttempts,  \* attempts before an event is buried; counted up to it
    MaxFaults     \* bound on crashes and on statements that fail

ASSUME BoundsAssumption ==
    /\ {Batch, Lease, Delay, MaxAttempts} \subseteq Nat \ {0}
    /\ MaxFaults \in Nat

ASSUME ChannelsAssumption == Channels \in Seq(STRING) /\ "local-inbox" \in ToSet(Channels)

VARIABLES
    rows,    \* the rows of iotd_outbox
    order,   \* the events in the order of created_at and id
    claimed, \* what each worker has claimed and not finished
    inbox,   \* how many inbox rows each event has
    sent,    \* pairs <<event, channel>> that were delivered
    faults

vars == <<rows, order, claimed, inbox, sent, faults>>

-----------------------------------------------------------------------------
(* Data.                                                                   *)

Statuses == {"none", "pending", "in_flight", "published", "dead_letter"}

(* left is the rest of the lease of an in-flight row, or of the delay of a  *)
(* pending one.                                                            *)
RowType ==
    [status : Statuses, attempts : 0..MaxAttempts, left : 0..(Lease + Delay)]

(* A claimed record keeps the number of attempts it was claimed with.       *)
ClaimType ==
    [attempts : 0..MaxAttempts, result : {"none", "open", "succeeded", "failed"}]

NoClaim == [attempts |-> 0, result |-> "none"]

NoRow == [status |-> "none", attempts |-> 0, left |-> 0]

Init ==
    /\ rows = [e \in Events |-> NoRow]
    /\ order = <<>>
    /\ claimed = [w \in Workers |-> [e \in Events |-> NoClaim]]
    /\ inbox = [e \in Events |-> 0]
    /\ sent = {}
    /\ faults = 0

-----------------------------------------------------------------------------
(* Staging.                                                                *)

(* The identifier is unique and rows stay, so a reminder that is staged     *)
(* again, by the next tick, a restart or another process, is a duplicate.   *)
(* created_at is the time an event occurred, not that of its commit, so the *)
(* row takes any place in the order.                                       *)
accepts(e) == rows[e].status = "none"

Enqueue(e) ==
    /\ accepts(e)
    /\ rows' = [rows EXCEPT ![e] = [NoRow EXCEPT !.status = "pending"]]
    /\ \E k \in 1..(Len(order) + 1) : order' = InsertAt(order, k, e)
    /\ UNCHANGED <<claimed, inbox, sent, faults>>

-----------------------------------------------------------------------------
(* Claims.                                                                 *)

(* Faulty variant: only pending rows are claimed.                           *)
claimable_Pending(e) == rows[e].status = "pending" /\ rows[e].left <= 1

(* The row is due, or its lease has ended, as text compares the times: in   *)
(* the last second it may look due.                                        *)
claimable(e) == rows[e].status \in {"pending", "in_flight"} /\ rows[e].left <= 1

(* The rows that are due beyond doubt.                                      *)
due(e) == claimable(e) /\ rows[e].left = 0

older(f, e) ==
    \E i, j \in DOMAIN order : i < j /\ order[i] = f /\ order[j] = e

(* ORDER BY created_at, id LIMIT Batch.                                     *)
oldest(events) ==
    {e \in events : Cardinality({f \in events : older(f, e)}) < Batch}

(* What a worker holds, and whose turn it is there.                         *)
held(w) == {e \in Events : claimed[w][e] # NoClaim}

turn(w, e) == e \in held(w) /\ \A f \in held(w) : ~ older(f, e)

nextAttempt(e) ==
    IF rows[e].attempts < MaxAttempts THEN rows[e].attempts + 1 ELSE MaxAttempts

(* One transaction selects the oldest rows and updates them.  What looks    *)
(* due contains what is due.                                               *)
Claim(w) ==
    /\ held(w) = {}
    /\ \E seemsDue \in SUBSET {e \in Events : claimable(e)} :
          /\ {e \in Events : due(e)} \subseteq seemsDue
          /\ seemsDue # {}
          /\ claimed' = [claimed EXCEPT ![w] = [e \in Events |->
                IF e \in oldest(seemsDue)
                THEN [attempts |-> nextAttempt(e), result |-> "open"]
                ELSE NoClaim]]
          /\ rows' = [e \in Events |->
                IF e \in oldest(seemsDue)
                THEN [status |-> "in_flight", attempts |-> nextAttempt(e),
                      left |-> Lease]
                ELSE rows[e]]
    /\ UNCHANGED <<order, inbox, sent, faults>>

-----------------------------------------------------------------------------
(* Publication.                                                            *)

(* Faulty variant: a second delivery adds a second inbox row.               *)
saved_Plain(e) == inbox[e] + 1

(* INSERT OR IGNORE on event and channel.                                   *)
saved(e) == 1

(* The router stops at the first channel that fails, and so does the event. *)
(* It may fail after all of them, through the projection or a timeout.      *)
succeeds(reached) == reached = Len(Channels)

Publish(w, e) ==
    /\ turn(w, e)
    /\ claimed[w][e].result = "open"
    /\ \E reached \in 0..Len(Channels), result \in {"succeeded", "failed"} :
          LET delivered == {Channels[k] : k \in 1..reached}
          IN  /\ result = "succeeded" => succeeds(reached)
              /\ sent' = sent \cup {<<e, c>> : c \in delivered}
              /\ inbox' = [inbox EXCEPT
                    ![e] = IF "local-inbox" \in delivered THEN saved(e) ELSE @]
              /\ claimed' = [claimed EXCEPT ![w][e].result = result]
    /\ UNCHANGED <<rows, order, faults>>

(* Faulty variant: the statement finds the row by its identifier only.      *)
holdsLease_Id(e) == TRUE

(* finishLease: the row is in flight and its owner is the caller, which is  *)
(* the same name in every process.                                         *)
holdsLease(e) == rows[e].status = "in_flight"

(* MarkPublished, DeadLetter and Retry.                                     *)
outcome(claim) ==
    IF claim.result = "succeeded"
    THEN [status |-> "published", left |-> 0]
    ELSE IF claim.attempts >= MaxAttempts
    THEN [status |-> "dead_letter", left |-> 0]
    ELSE [status |-> "pending", left |-> Delay]

(* A worker whose lease was lost learns it from the statement and goes on.  *)
Finish(w, e) ==
    /\ turn(w, e)
    /\ claimed[w][e].result # "open"
    /\ rows' = IF holdsLease(e)
               THEN [rows EXCEPT
                        ![e].status = outcome(claimed[w][e]).status,
                        ![e].left = outcome(claimed[w][e]).left]
               ELSE rows
    /\ claimed' = [claimed EXCEPT ![w][e] = NoClaim]
    /\ UNCHANGED <<order, inbox, sent, faults>>

-----------------------------------------------------------------------------
(* Faults and time.                                                        *)

(* The statement fails (busy database): the row stays in flight.            *)
FinishFails(w, e) ==
    /\ faults < MaxFaults
    /\ turn(w, e)
    /\ claimed[w][e].result # "open"
    /\ claimed' = [claimed EXCEPT ![w][e] = NoClaim]
    /\ faults' = faults + 1
    /\ UNCHANGED <<rows, order, inbox, sent>>

(* The process dies, or shuts down, and starts again.                       *)
Crash(w) ==
    /\ faults < MaxFaults
    /\ held(w) # {}
    /\ claimed' = [claimed EXCEPT ![w] = [e \in Events |-> NoClaim]]
    /\ faults' = faults + 1
    /\ UNCHANGED <<rows, order, inbox, sent>>

Tick ==
    /\ \E e \in Events : rows[e].left > 0
    /\ rows' = [e \in Events |->
                   [rows[e] EXCEPT !.left = IF @ > 0 THEN @ - 1 ELSE 0]]
    /\ UNCHANGED <<order, claimed, inbox, sent, faults>>

Dispatch(w) ==
    Claim(w) \/ \E e \in Events : Publish(w, e) \/ Finish(w, e)

Next ==
    \/ \E e \in Events : Enqueue(e)
    \/ \E w \in Workers :
          Dispatch(w) \/ Crash(w) \/ \E e \in Events : FinishFails(w, e)
    \/ Tick

(* Time passes and the dispatchers poll; nothing has to be staged, and      *)
(* nothing has to fail.                                                    *)
Spec ==
    Init /\ [][Next]_vars /\ WF_vars(Tick)
      /\ \A w \in Workers : WF_vars(Dispatch(w))

-----------------------------------------------------------------------------
(* Properties.                                                             *)

TypeOK ==
    /\ rows \in [Events -> RowType]
    /\ order \in Seq(Events)
    /\ claimed \in [Workers -> [Events -> ClaimType]]
    /\ inbox \in [Events -> Nat]
    /\ sent \subseteq Events \X ToSet(Channels)
    /\ faults \in 0..MaxFaults

(* An event is marked as published only when every channel has got it, also *)
(* when a worker finishes the lease another one took over from it.          *)
PublishedWasDelivered ==
    \A e \in Events :
        rows[e].status = "published" =>
            \A c \in ToSet(Channels) : <<e, c>> \in sent

(* However often an event is delivered - expired leases, partial failures,  *)
(* two processes, crashes - the inbox shows it once (INSERT OR IGNORE).      *)
InboxShowsOnce == \A e \in Events : inbox[e] <= 1

(* What holds of rows, deliveries and inbox at any time.                    *)
DeliveryInvariant == TypeOK /\ PublishedWasDelivered /\ InboxShowsOnce

(* No late worker and no repeated staging revives an event that is          *)
(* published or buried (finishLease, the unique identifier).                *)
FinishedIsFinal ==
    [][\A e \in Events :
          rows[e].status \in {"published", "dead_letter"} =>
              rows'[e].status = rows[e].status]_vars

(* Every staged event is published or buried in the end: none stays behind  *)
(* a dead worker's lease, and workers that lose leases to each other do not *)
(* pass it on for ever.                                                    *)
EveryEventSettles ==
    \A e \in Events :
        rows[e].status = "pending" ~>
            rows[e].status \in {"published", "dead_letter"}
=============================================================================
