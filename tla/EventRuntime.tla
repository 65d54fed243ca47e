----------------------------- MODULE EventRuntime -----------------------------
(***************************************************************************)
(* What a process runs in the background (deliveryruntime): the loop that  *)
(* queues reminders of due items, and the dispatcher, whose events make it *)
(* write the rows to the Obsidian vault.  Several processes, the service   *)
(* and the MCP servers beside it, share one database and one vault.        *)
(*                                                                         *)
(* The application starts and stops a process with one call after the      *)
(* other, and stops it too when its start fails (core.App).  How an event  *)
(* is claimed, and buried after too many attempts, is in Outbox; here a    *)
(* claim is held as long as its process lives and works on it.             *)
(***************************************************************************)
EXTENDS Naturals, Sequences, SequencesExt, FiniteSets

CONSTANTS
    Applications,           \* processes that run the application
    Items,
    Overview, Files,        \* the file that shows all items; all, as they are written
    MaxDay, LeadDays,       \* days, and how many of them a reminder comes ahead
    MaxEdits, MaxFailures,  \* bounds
    NoEvent

ASSUME RuntimeAssumption ==
    /\ Overview \notin Items
    /\ Files \in Seq(Items \cup {Overview}) /\ ToSet(Files) = Items \cup {Overview}
    /\ MaxDay \in Nat \ {0} /\ {LeadDays, MaxEdits, MaxFailures} \subseteq Nat

VARIABLES
    today,            \* the date
    workItems,        \* iotd_delivery_items
    staged, settled,  \* the events of the outbox, and those it has published
    vault,            \* [Files -> the revisions a file shows]
    life,             \* [Applications -> where it is in its life]
    late,             \* processes whose shutdown ran into its deadline
    reminders,        \* [Applications -> the reminder loop]
    exports,          \* [Applications -> the dispatcher and the export it runs]
    mixed,            \* exports overlapped, and no other followed alone
    failures

runtimeVars ==
    <<today, workItems, staged, settled, vault, life, late, reminders, exports, mixed, failures>>

-----------------------------------------------------------------------------
(* A due day of 0 is none.  An item is open until its progress is complete. *)
Item == [revision : 0..MaxEdits, due : 0..MaxDay, open : BOOLEAN]

changed(i, revision) == <<"changed", i, revision>>

(* dueReminderEventID.                                                      *)
reminder(i, day) == <<"reminder", i, day>>

Event ==
    {changed(i, r) : i \in Items, r \in 1..MaxEdits} \cup {reminder(i, d) : i \in Items, d \in 1..MaxDay}

Lives == {"down", "prepared", "bound", "starting", "running", "stopping", "draining", "closed"}

NoLoop == [stage |-> "none", listed |-> [i \in Items |-> [revision |-> 0, due |-> 0, open |-> FALSE]],
           rest |-> {}, day |-> 0]

Waiting == [NoLoop EXCEPT !.stage = "waiting"]

Off == [stage |-> "off", event |-> NoEvent, listing |-> [i \in Items |-> 0], at |-> 0, alone |-> FALSE]

Polling == [Off EXCEPT !.stage = "polling"]

revisions == [i \in Items |-> workItems[i].revision]

(* What a file shows of the rows.                                           *)
shown(f, listing) == IF f = Overview THEN listing ELSE listing[f]

RuntimeTypeOK ==
    /\ today \in 1..MaxDay /\ workItems \in [Items -> Item]
    /\ settled \subseteq staged /\ staged \subseteq Event
    /\ life \in [Applications -> Lives] /\ late \subseteq Applications
    /\ \A p \in Applications :
          /\ reminders[p].stage \in {"none", "waiting", "listed", "queueing"}
          /\ reminders[p].rest \subseteq Items
          /\ exports[p].stage \in {"off", "polling", "claimed", "writing"}
          /\ exports[p].event \in Event \cup {NoEvent}
    /\ mixed \in BOOLEAN /\ failures \in 0..MaxFailures

RuntimeInit ==
    /\ today = 1
    /\ workItems \in [Items -> {x \in Item : x.revision = 0 /\ x.open}]
    /\ staged = {} /\ settled = {}
    /\ vault = [f \in ToSet(Files) |-> shown(f, revisions)]
    /\ life = [p \in Applications |-> "down"] /\ late = {}
    /\ reminders = [p \in Applications |-> NoLoop]
    /\ exports = [p \in Applications |-> Off]
    /\ mixed = FALSE /\ failures = 0

-----------------------------------------------------------------------------
(* The life of a process.                                                   *)

becomes(p, next) == life' = [life EXCEPT ![p] = next]

fails == failures < MaxFailures /\ failures' = failures + 1

rowsUnchanged == UNCHANGED <<today, workItems, staged, settled, vault, mixed>>

(* New prepares what the module gets ...                                    *)
Prepare(p) ==
    /\ life[p] = "down"
    /\ becomes(p, "prepared")
    /\ rowsUnchanged /\ UNCHANGED <<late, reminders, exports, failures>>

(* ... and binds the reminders and the subscriptions, or gives up.          *)
BindApplication(p) ==
    /\ life[p] = "prepared"
    /\ \/ becomes(p, "bound") /\ UNCHANGED failures
       \/ fails /\ becomes(p, "stopping")
    /\ rowsUnchanged /\ UNCHANGED <<late, reminders, exports>>

(* Start up to the reminders: the database answers, the dispatcher starts.  *)
Start(p) ==
    /\ life[p] = "bound"
    /\ \/ /\ becomes(p, "starting")
          /\ exports' = [exports EXCEPT ![p] = Polling]
          /\ UNCHANGED failures
       \/ fails /\ becomes(p, "stopping") /\ UNCHANGED exports
    /\ rowsUnchanged /\ UNCHANGED <<late, reminders>>

(* Close, at a signal.                                                      *)
Close(p) ==
    /\ life[p] = "running"
    /\ becomes(p, "stopping")
    /\ rowsUnchanged /\ UNCHANGED <<late, reminders, exports, failures>>

(* Faulty variant: Stop cancels the loop and does not wait for it.          *)
loopEnded_AtOnce(p) == TRUE

loopEnded(p) == reminders[p].stage = "none"

(* Shutdown: Stop waits for the loop, if there is one, up to the deadline.  *)
StopReminders(p) ==
    /\ life[p] = "stopping"
    /\ \/ loopEnded(p) /\ UNCHANGED late
       \/ ~loopEnded(p) /\ late' = late \cup {p}
    /\ becomes(p, "draining")
    /\ rowsUnchanged /\ UNCHANGED <<reminders, exports, failures>>

(* Then the dispatcher, the subscriptions, the broker and the database.     *)
StopDispatcher(p) ==
    /\ life[p] = "draining"
    /\ \/ /\ exports[p].stage \in {"off", "polling"}
          /\ exports' = [exports EXCEPT ![p] = Off]
          /\ UNCHANGED late
       \/ /\ exports[p].stage \notin {"off", "polling"}
          /\ late' = late \cup {p}
          /\ UNCHANGED exports
    /\ becomes(p, "closed")
    /\ rowsUnchanged /\ UNCHANGED <<reminders, failures>>

gone(p) ==
    /\ becomes(p, "down") /\ late' = late \ {p}
    /\ reminders' = [reminders EXCEPT ![p] = NoLoop]
    /\ exports' = [exports EXCEPT ![p] = Off]
    /\ rowsUnchanged

Exit(p) == life[p] = "closed" /\ gone(p) /\ UNCHANGED failures

Die(p) == life[p] # "down" /\ gone(p) /\ fails

-----------------------------------------------------------------------------
(* The reminder loop.                                                       *)

open(p) == life[p] # "closed"

setLoop(p, loop) == reminders' = [reminders EXCEPT ![p] = loop]

(* RunOnce lists the rows: within Start, and at each tick of the loop,      *)
(* where a tick that waits may be taken before the cancellation is ...      *)
ListItems(p) ==
    /\ open(p)
    /\ \/ life[p] = "starting" /\ reminders[p].stage = "none"
       \/ reminders[p].stage = "waiting"
    /\ setLoop(p, [NoLoop EXCEPT !.stage = "listed", !.listed = workItems])
    /\ rowsUnchanged /\ UNCHANGED <<life, late, exports, failures>>

(* Faulty variant: what is overdue is left out.                             *)
isDue_NotOverdue(x, day) == x.open /\ x.due \in day..(day + LeadDays)

(* Due by the lead time, or overdue.                                        *)
isDue(x, day) == x.open /\ x.due \in 1..(day + LeadDays)

(* ... and reads the clock ...                                              *)
ReadClock(p) ==
    /\ reminders[p].stage = "listed"
    /\ setLoop(p, [reminders[p] EXCEPT !.stage = "queueing", !.day = today,
                     !.rest = {i \in Items : isDue(reminders[p].listed[i], today)}])
    /\ rowsUnchanged /\ UNCHANGED <<life, late, exports, failures>>

(* ... and queues one event after the other; the identifiers of those that  *)
(* are there already are refused, and skipped.                              *)
Queue(p) ==
    /\ open(p) /\ reminders[p].stage = "queueing"
    /\ \E i \in reminders[p].rest :
          /\ staged' = staged \cup {reminder(i, reminders[p].day)}
          /\ setLoop(p, [reminders[p] EXCEPT !.rest = @ \ {i}])
    /\ UNCHANGED <<today, workItems, settled, vault, mixed, life, late, exports, failures>>

(* The first run that succeeds starts the loop.                             *)
EndRun(p) ==
    /\ reminders[p].stage = "queueing" /\ reminders[p].rest = {}
    /\ setLoop(p, Waiting)
    /\ IF life[p] = "starting" THEN becomes(p, "running") ELSE UNCHANGED life
    /\ rowsUnchanged /\ UNCHANGED <<late, exports, failures>>

(* A statement fails, as all do once the database is closed: the rest of    *)
(* the run is left to the next tick.  Start gives up.                       *)
FailRun(p) ==
    /\ reminders[p].stage \in {"listed", "queueing"}
    /\ IF open(p) THEN fails ELSE UNCHANGED failures
    /\ IF life[p] = "starting"
       THEN becomes(p, "stopping") /\ setLoop(p, NoLoop)
       ELSE setLoop(p, Waiting) /\ UNCHANGED life
    /\ rowsUnchanged /\ UNCHANGED <<late, exports>>

(* The cancelled loop returns.                                              *)
EndLoop(p) ==
    /\ life[p] \in {"stopping", "draining", "closed"} /\ reminders[p].stage = "waiting"
    /\ setLoop(p, NoLoop)
    /\ rowsUnchanged /\ UNCHANGED <<life, late, exports, failures>>

-----------------------------------------------------------------------------
(* The dispatcher and the projection.                                       *)

setExport(p, export) == exports' = [exports EXCEPT ![p] = export]

ClaimEvent(p) ==
    /\ life[p] \in {"starting", "running", "stopping"} /\ exports[p].stage = "polling"
    /\ \E e \in staged \ settled :
          /\ \A q \in Applications : exports[q].event # e
          /\ setExport(p, [Polling EXCEPT !.stage = "claimed", !.event = e])
    /\ rowsUnchanged /\ UNCHANGED <<life, late, reminders, failures>>

writing == {q \in Applications : exports[q].stage = "writing"}

(* ProjectionConsumer projects the rows as they are, not the event.         *)
listing(e) == revisions

(* Sync lists the rows ...                                                  *)
ListRows(p) ==
    /\ open(p) /\ exports[p].stage = "claimed"
    /\ exports' = [q \in Applications |->
          IF q = p THEN [exports[p] EXCEPT !.stage = "writing", !.listing = listing(exports[p].event),
                                           !.at = 1, !.alone = writing = {}]
          ELSE [exports[q] EXCEPT !.alone = FALSE]]
    /\ mixed' = (mixed \/ writing # {})
    /\ UNCHANGED <<today, workItems, staged, settled, vault, life, late, reminders, failures>>

(* ... and Export writes one file after the other, the overview first.      *)
WriteFile(p) ==
    LET e == exports[p] IN
    /\ e.stage = "writing" /\ e.at <= Len(Files)
    /\ vault' = [vault EXCEPT ![Files[e.at]] = shown(Files[e.at], e.listing)]
    /\ setExport(p, [e EXCEPT !.at = @ + 1])
    /\ UNCHANGED <<today, workItems, staged, settled, mixed, life, late, reminders, failures>>

(* The notifications are delivered (Outbox), the event is published.        *)
Settle(p) ==
    LET e == exports[p] IN
    /\ open(p) /\ e.stage = "writing" /\ e.at > Len(Files)
    /\ settled' = settled \cup {e.event}
    /\ mixed' = (mixed /\ ~e.alone)
    /\ setExport(p, Polling)
    /\ UNCHANGED <<today, workItems, staged, vault, life, late, reminders, failures>>

(* The listing, a file, the time limit of a publication, a notification or  *)
(* the last statement fails, and the event is left for another attempt.     *)
FailExport(p) ==
    /\ exports[p].stage \in {"claimed", "writing"}
    /\ IF open(p) THEN fails /\ setExport(p, Polling)
       ELSE UNCHANGED failures /\ setExport(p, Off)
    /\ rowsUnchanged /\ UNCHANGED <<life, late, reminders>>

-----------------------------------------------------------------------------
(* A request of a running process changes an item, with its event.          *)
Edit(p, i, due, isOpen) ==
    /\ life[p] = "running" /\ workItems[i].revision < MaxEdits
    /\ workItems' = [workItems EXCEPT ![i] = [revision |-> @.revision + 1, due |-> due, open |-> isOpen]]
    /\ staged' = staged \cup {changed(i, workItems[i].revision + 1)}
    /\ UNCHANGED <<today, settled, vault, life, late, reminders, exports, mixed, failures>>

Midnight ==
    /\ today < MaxDay
    /\ today' = today + 1
    /\ UNCHANGED <<workItems, staged, settled, vault, life, late, reminders, exports, mixed, failures>>

(* What goes on by itself in a process.                                     *)
Remind(p) == ListItems(p) \/ ReadClock(p) \/ Queue(p) \/ EndRun(p)

Project(p) == ClaimEvent(p) \/ ListRows(p) \/ WriteFile(p) \/ Settle(p)

RuntimeNext ==
    \/ Midnight
    \/ \E p \in Applications :
          \/ Prepare(p) \/ BindApplication(p) \/ Start(p) \/ Close(p)
          \/ StopReminders(p) \/ StopDispatcher(p) \/ Exit(p) \/ Die(p)
          \/ Remind(p) \/ FailRun(p) \/ EndLoop(p)
          \/ Project(p) \/ FailExport(p)
          \/ \E i \in Items, due \in 0..MaxDay, isOpen \in BOOLEAN : Edit(p, i, due, isOpen)

(* The ticker ticks and the loop goes on; nothing else has to happen.       *)
RuntimeFairness == \A p \in Applications : WF_runtimeVars(Remind(p))

-----------------------------------------------------------------------------
(* Properties.                                                              *)

(* When Shutdown has returned without running into its deadline, neither    *)
(* loop nor dispatcher is left, also when Start had got only half way.      *)
NothingOutlivesShutdown ==
    \A p \in Applications \ late :
       life[p] \in {"closed", "down"} => reminders[p] = NoLoop /\ exports[p] = Off

(* Once all events are published every file shows the rows as they are,     *)
(* whatever was lost, repeated or reordered before; unless the exports of   *)
(* two processes overlapped, one of which can have written what it listed   *)
(* before the other, and none has run alone since.                          *)
VaultShowsRows ==
    staged = settled /\ writing = {} /\ ~mixed =>
       \A f \in ToSet(Files) : vault[f] = shown(f, revisions)

(* What holds at any time.                                                  *)
RuntimeInvariant == RuntimeTypeOK /\ NothingOutlivesShutdown /\ VaultShowsRows

needsReminder(i) ==
    LET x == workItems[i] IN x.open /\ x.due # 0 /\ x.due <= today + LeadDays

(* An item that stays due, or overdue, is reminded of on the day, if there  *)
(* is a process that goes on running: failing runs, restarts and midnight   *)
(* between the listing and the reading of the clock lose no reminder.       *)
DueItemsAreReminded ==
     \A i \in Items, p \in Applications :
       <>[](life[p] = "running" /\ needsReminder(i))
          => <>[](<<"reminder", i, today>> \in staged)
=============================================================================
