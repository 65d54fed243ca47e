# Verification of the IoT delivery system

TLA+ specifications of the delivery backend (`src/backend-yunka`), their TLC
runs and their TLAPS proofs. The service is a Go program on one SQLite file
that tracks work items from planning to production, with its own login,
authorization, audit, outbox and notifications. Paths below are relative to
`src/backend-yunka/internal/` unless they start with `src/`.

## 1. The system

### Components, state and operations

| Component | State | Operations |
| --- | --- | --- |
| work item lifecycle (`delivery/service.go`, `delivery/application`) | one row per item: revision, gate, status, blocker, implementation and validation principals, activity log | create, update, comment, context, combined patch, advance gate, close |
| work item graph and planning (same files) | projects, releases, sprints, milestones; parents, dependencies and titles of items | create each of them; update links, title, dependencies |
| views and searches | none | dashboard, member week, progress, schedule, similarity, search |
| unit of work and audit (`localtx`, `delivery/application/audited.go`, `delivery/outbox_stager.go`, `audit`) | the open transaction of the one pooled connection; `iotd_audit_entries` | begin, commit, roll back; append an entry; record a rollback afterwards |
| outbox (`localoutbox`, the framework's dispatcher) | `iotd_outbox`: status, attempts, lease owner and end, next attempt | enqueue, claim, mark published, retry, dead letter |
| notifications (`notification`) | inbox rows keyed by event and channel | deliver to the channels in name order |
| due reminders, event runtime (`delivery/due_reminder.go`, `deliveryruntime`) | the running loop, the subscriptions | prepare, bind, start, tick, stop, shut down |
| Obsidian projection (`obsidian`) | generated files in a vault | list the rows, write every file |
| local login and sessions (`locallogin`, `localcredential`) | credentials and sessions with revisions, attempt buckets | log in, reserve an attempt, verify, issue a token, log out, change the password |
| members and project roles (`localmemberadmin`, `localprojectroleadmin`) | users with revisions, role bindings with revisions | create, disable, reset; assign, revoke |
| administrator bootstrap (`localbootstrap`) | the one-row latch | initialize once |
| schema migrations (`identitycore`, `audit`, `localbootstrap`, `locallogin`, ...) | the ledger of migrations and the schema and dictionary rows they leave | migrate at every start |
| configuration (`configrevision`, `configapplication`) | append-only chains of revisions | change, roll back, append, history, latest |
| service accounts (`serviceauth`, `serviceauthz`) | credentials with expiry and revocation; grants | issue, rotate, revoke, disable, authenticate; grant, revoke |
| identities (`identitycore`, `identitybinding`, `oidcverify`) | organizations, users, external identities | resolve or provision, disable |
| authorization (`deliveryauthz`, `humanauthz`, `principalauthz`) | none of its own | resolve grants; verify them again and decide an operation from them |
| BFF assertion (`bffassertion`, `bffhttp`) | nonces used so far, in memory and bounded | verify and consume |
| transports (`httpapi`, `localbffhttp`, `mcpserver`, `localtransportauth`, gRPC) | none | decode, authenticate, call an operation |
| web client (`src/web`), legacy backend (`src/backend`) | - | not part of the models |

### How they interact

Every write operation goes through one executor of the external framework: it
authorizes the call (grants are resolved, then a guard verifies them one by one), begins
a SQLite transaction, invokes the application method with the transaction in
the context, and commits or rolls back. On that one transaction the delivery
service reads the row, stages an event in the outbox, saves the row with a
compare-and-set on its revision, and the audited decorator appends the entry
of the success. Afterwards a recording executor reports a rollback in a
statement of its own. A dispatcher polls the outbox and hands each event to
in-process subscribers: the notification router and the Obsidian projection.
Reminders enter the outbox under an identifier that is stable per item and
day. Administration (members, roles, configuration) uses the same executor;
login, logout and change of password begin transactions of their own.

A process has one pooled connection (`delivery/sqlite_repository.go:69-77`), so
its transactions are serial. Several processes may still open the file (the
HTTP server and the MCP server, `src/backend-yunka/README.md:115`), so
transactions of different processes interleave, and SQLite's snapshot and lock
rules decide. `UnitOfWork` and `ConfigRevisions` model these rules; the other
modules take a transaction as one step, which is what the rules amount to:
SQLite refuses a write on a snapshot that is not the newest state, so a
transaction that commits has read what it overwrote. The guard and the
resolution of grants have no transaction: they are queries on the pool, one after
the other (`serviceauthz/resolver.go:204-255`, `deliveryauthz/guard.go:260-321`),
and the models of requests take each as a step of its own. The guards of member
and role administration make a single query, which is one step.

### What is hard, and what makes each part correct

- *Interleaved writers.* A client writes with a revision it read earlier. No
  write may replace a change its author has not seen.
- *Separation of duties.* The implementer of a change, as the server derived it
  from the request, neither validates nor closes it, whatever path of
  blocks, edits and repeated closings the item takes.
- *Structure.* Dependencies, parents and planning records stay within a
  project; the prerequisite graph stays acyclic; titles stay unique. They are
  validated on a single write but must hold of all rows.
- *A recursive search over maps in random order* answers whether a dependency
  list closes a cycle.
- *Atomicity.* Row, event and audit entry are three inserts in several
  packages; a crash, a conflict or the failure of a second part of a combined
  patch leaves all or nothing.
- *Waiting.* A statement that asks the pool while its own transaction holds
  the only connection waits for itself.
- *At-least-once delivery.* Leases expire, workers are slow, processes die; an
  event is neither lost nor finished twice with different results, and the
  inbox shows it once.
- *Check and use.* A guard passes before the transaction of the call begins;
  grants are resolved, then verified one by one, then used; a session is
  verified, then a token is signed for it. Whatever is revoked or disabled in
  between has to count, or its effect has to be bounded: a revocation counts if
  it commits before the guard asks for the grant, and otherwise reaches only
  the requests that a guard is at work on or has let through.
- *Revisions of several tables.* A change of password compares the session's
  revision, the user's and the credential's; a login may rehash the password
  it just verified. Whoever is let in must know the password in force.
- *One-time things.* A nonce, a rotation, a latch, the last administrator, the
  first user, a conditional append: two callers race for one row, with
  revisions, triggers or unique indexes as the only defence.
- *Upgrades.* A start runs every migration on the database of any earlier
  release, in processes that may crash and race; some migrations trust the
  ledger, others look at the schema.
- *Loops.* Reminders and exports run in several processes over days, fail, and
  are shut down with a deadline.

`PROJECT.json` lists each hazard at its line with the properties that cover it.

## 2. The plan and its order

Done in this order, most important behaviour first:

1. `DeliveryLifecycle` with `DutySeparation` above it.
2. `WorkItemGraph` with `DependencyGraph`, and `CycleSearch` for the search.
3. `UnitOfWork` with `AtomicWrites` above it.
4. `Outbox`, with the notification channels behind it; `PasswordThrottle`.
5. `LocalAccounts` (members, credentials), `LocalSessions` on top of it with
   `AbstractSessions` above.
6. `ProjectRoles` on `LocalAccounts`; `Permits`, the pure part of the guard;
   `HumanRequests`, which composes them.
7. `ServiceAccounts`, and `ServiceRequests`, which composes it with `Permits`.
8. `IdentityBinding`, and `BffRequests` on top of it.
9. `ConfigRevisions` with `ConfigChains` above it.
10. `Migrations`, and `Startup` with the bootstrap of the administrator;
    `EventRuntime` with reminders and projection.

11. Proofs of every safety property of the runs.

Left: the pure queries of section 7. Liveness stays with TLC (section 6).

## 3. The modules

### DutySeparation, DeliveryLifecycle

State: `items` (a row: `revision`, `gate`, `status`, `blocker`, `implementer`,
`validator`, and the subjects of its "closed" activities) and `seen`, the
revision each principal last obtained of each item, which is what clients
send back. One action per handler: `Create`, `UpdateWorkItem`, `AddComment`,
`UpdateContext`, `UpdateWorkItemAndContext` (a patch of both kinds: two
revisions in one transaction), `AdvanceGate`, `Close`, and `GetItem`. A handler
is one step because its transaction is atomic (module `UnitOfWork`). Each
write also needs an actor the audit trusts, as its entry is part of the same
transaction. A rejected call changes nothing and is a disabled action.

Principals are records of method, subject, tenant and authentication, and
`trusted`, `SourceOf`, `namedJWT` and `mayJudge` translate how the server
derives a principal source and tests independence. Texts are left out.

`DutySeparation` is the promise without revisions and blockers: an item is
opened, implemented, validated, closed, the last two by an independent human.

### DependencyGraph, CycleSearch, WorkItemGraph

`Cyclic(G)` is stated without paths: a non-empty set of nodes each of which
waits for one in the set. `CycleSearch` is the depth-first search of
`wouldCreateDependencyCycle` frame by frame, with the loops in any order; its
`AnswerIsRight` ties it to `Cyclic`, which `WorkItemGraph` then uses as the
decision. `WorkItemGraph` keeps projects, planning records (release, sprint
and milestone behave alike) and items with project, parent, kind, board, title,
planning links and dependency list, and translates the validation of `Create`
and `UpdateWorkItem`, including what `Create` does not check.
`dependencyBlockedItemIDs` and `DependencyRisks` are the items that
`ProjectSchedule` reports as waiting.

### AtomicWrites, UnitOfWork

`UnitOfWork` takes a write apart: `Send` (the client fixes its expected
revision), `Begin`, `Read`, `Stage`, `Save`, `Audit`, `Commit`, `Rollback` at
any step, `RecordApplicationRollback` or `GiveUpRecording`, and `Crash` of a
process. A combined patch runs read to audit twice before its commit. SQLite
in WAL mode is external and modelled by what it does: a snapshot at the first
read, one write lock, refusal of a write on an old snapshot, atomic commit.
`Idle` says that the pooled connection is free; `executor` says on which
connection a statement runs. `AtomicWrites` is the promise: a request is
applied with all its parts, events and entries at once, or not at all.

### Outbox

State: `rows` (status, attempts, what is left of a lease or delay), `order`
(the events by `created_at`), `claimed` (what each worker has claimed and not
finished), `inbox`, `sent`. Actions: `Enqueue`, `Claim` (one transaction that takes the
oldest rows which are due), `Publish` (the router delivers to a prefix of the
channels and may fail after any of them), `Finish` (mark published, retry or
bury, if the row is in flight), `FinishFails`, `Crash`, `Tick`. The dispatcher
is the framework's and modelled as `bootstrap/application.go` configures it:
one event at a time, the same worker identifier in every process. Therefore
`holdsLease` cannot tell two workers apart, and a worker whose lease ended may
finish the attempt of the one that took over. That is safe - its own delivery
was complete or it says so - and it even helps: were the owners distinct, two
slow workers could lose their leases to each other for ever.

Times are text without a fixed number of fractional digits, so `claimable`
lets the last tick look due or not (`seemsDue`). The number of attempts before
an event is buried is the framework's default; `MaxAttempts` stands for it.

### PasswordThrottle

State: `buckets` (attempts, whether locked, what is left until `expires_at`)
and the calls under way. `Arrive` reads the clock, `Reserve` is the whole
transaction (expired rows, source, account, commit or roll back), `Report` the
audit entry of a new lock, `GiveUp` a cancelled or failed call. The reading of
the clock is up to `MaxWait` ticks old when the transaction uses it. `passes`
(calls let through, by age), `guarded` (how long a lock still has to hold) and
`unreported` record history for the properties.

### LocalAccounts, LocalSessions, AbstractSessions

`LocalAccounts` keeps `users` and `credentials` with their revisions, the
calls of administrators that passed the guard (`prepared`) and the `trail`,
the audit entries and events that commit with each change. `Prepare` is
`OperationGuard.Prepare`; `CarryOut` is the root transaction of a create,
disable or reset, at any later time; `Refuse` every failure. Because of the
gap, an order that was authorized before its administrator was disabled may
still commit; `DisabledIsFinal` and `AdministratorRemains` bound what it can
do. `matches` and `stored` are the compare-and-set of `SetPassword`.

`LocalSessions` adds `sessions`, `tokens` (signed, never stored), `issuing`
(verified, not yet signed) and the history `opened`. `Login` is one
transaction with its rehash; a login that rehashes ends the user's other
sessions without revoking them, since their credential revision is no longer
the current one. `valid` is the one query that decides over access;
`controllable` is the weaker one for logout and change of password, which
ignores the credential, and `ChangeNeedsValidSession` shows that the
comparisons made later repair this. `AbstractSessions` promises that a session
is opened once, for one user, and ends once and for all.

### ProjectRoles, Permits, HumanRequests

`ProjectRoles` adds role `bindings` to `LocalAccounts`, with the same gap
between guard and transaction. `Permits` holds the pure definitions of guard
and dictionary: which grants allow an operation in which scope, and which
projects a listing shows. `HumanRequests` is a request from `Resolve` (one
query for the grants) over `VerifyGrant` (one query for each grant, in any
order, outside of a transaction) and `Admit` (the scope checks on verified
grants) to `Finish`; members and roles change between any two of them. The lookups
of `Admit` are no steps of their own: they read which project an item is in
and which organization a project is in, and no code changes either.

`rights` says what the tables allow at a moment, without grants and queries.
`GuardAgreesWithTables` compares the decision of the guard with it, if nothing
changes meanwhile. `AdmittedWasEntitled` is about the changes: the field `had`,
which influences nothing, collects the rights at the moments of the guard's
queries, and what is admitted must be among them. That the tables allow the whole
operation at one moment would be too much to say: with a role revoked after its
query and another assigned, a request passes on rights that never held together.
Once admitted, a request runs on although rights are revoked afterwards, and
a listing resolved before a role was assigned shows fewer projects. In the dictionary a role that holds a
permission holds it in the scope of every operation that needs it
(`RequestsAssumption`); the guard, which refuses a request as soon as one of its
grants does not verify, needs that. Listing operations are of project scope.

### ServiceAccounts, ServiceRequests

`ServiceAccounts` keeps service credentials and grants. `Issue`, `Rotate` and
`Grant` look at the tables before their transaction (`Request`,
`RequestGrant`) and again in it. A revocation leaves an audit entry, a rotation
none: its old credential is explained by the successor alone. Authentication
is `current`. A request of `ServiceRequests` goes through `Authenticate`,
`Query` (for each permission of the operation one query on the projects and one
on the configuration, in this order), `Authorize` (a grant for each permission),
`VerifyGrant`, `Admit` and `Finish`, each of them a step, as for members.
Accounts, and the rows that grant configuration operations, are written by no
code of the service; they are constants or initial state.

### IdentityBinding, BffRequests

`IdentityBinding` is `ResolveOrProvision` and the disabling operations on
organizations, external identities and users. `DisableUser` of that package
always fails, because a trigger refuses a change of status without a new
revision (`localmemberadmin/migration.go:17-25`); users are disabled by member
administration. `BffRequests` is the path of a signed assertion: checks against the
clock, a second reading of the clock, the cache of nonces under its lock, the
resolution of the subject, the audit of the acceptance, and the call. An assertion
that was validated before it expired can be consumed after it expired, and
after a restart its nonce is forgotten; `AcceptedOnce` says what remains true.

### ConfigChains, ConfigRevisions

`ConfigRevisions` has the conditional insert with SQLite's snapshot and lock,
as in `UnitOfWork`, for the audited operations (`Prepare`, `Insert`, `Commit`,
`Abort`) and for the store on its own (`Attempt` with its retries, `Read` and
`Verify`, two statements of one reading), which only tests use. `History`
returns the oldest revisions up to the limit. `ConfigChains` is the promise: a
chain per key that only grows, by somebody who knew the last revision.

### Migrations, Startup, EventRuntime

`Migrations` is pure: `Apply(step, d)` gives the databases a migration may
leave, with one element of `schema` per migration, the rows of the dictionary
that refer to each other, and the degree to which each step trusts the ledger.
`History` follows the identifiers; the first four rows of the ledger are
trusted, as by the code. `Startup` runs all of them in several processes, with the
column that is added outside any transaction (`Inspect`, `Alter`: two processes
may both see it missing, one start fails and is repeated), and makes the first
administrator (`Initialize`, one transaction, with the latch).

`EventRuntime` is the life of a process: `Prepare`, `BindApplication`, `Start`,
the first run of the reminders, `Close`, `StopReminders`, `StopDispatcher`,
`Exit`, and `Die`; the reminder loop (`ListItems`, `ReadClock`, `Queue`,
`EndRun`, `FailRun`, `EndLoop`); and the export (`ClaimEvent`, `ListRows`,
`WriteFile`, `Settle`, `FailExport`). A claim lasts as long as its process
works on it, because `Outbox` already has the leases. The application calls
start and stop one after the other, so the gap between two locks in the
`Start` of the reminders cannot be reached. Two processes that export at once
can leave an older file until the next export that runs alone; `mixed` records
that.

### The MC modules

Each `MC` module gives small sets to the constants. Most of them have a variable
`kind` that is chosen initially and never changes: the behaviours of one run
are then of disjoint kinds, each with bounds of its own (administrators under
way, or sessions; credentials, or grants, or requests; ...), so that the
product of two busy components is explored where they meet and not where they
do not. `MCWorkItemGraph` runs the search to its end before it creates items.

## 4. The runs

| Run | What it checks | Instance |
| --- | --- | --- |
| `Lifecycle` | `GateInvariant` (types, `SeparationOfDuties`, `StatusAgreesWithGate`), `NoLostUpdate`, `ClosedIsFinal`, refinement of `DutySeparation` | seven kinds of principal, one item, `MaxRevision` 8 |
| `Graph` | `GraphInvariant` (types, `LinksStayInProject`, `TitlesAreUnique`), `SomethingCanStart`, `OnlyMixedCreationCloses`, `UpdatesLeaveNoCycle`; `AnswerIsRight` and `SearchEnds` of the search | three items, two projects, a planning record, three titles, every dependency list; every graph on three items, every loop order |
| `GraphAcyclic` | expects a violation of `Acyclic` | as `Graph` |
| `UnitOfWork` | `WriteInvariant` (types, `Lockstep`, `AllOrNothing`, `LockedViewIsCurrent`), `NoOverwrite`, `EveryRequestEnds`, refinement of `AtomicWrites` | three requests of one or two parts on one row, two processes, one crash |
| `Outbox` | `DeliveryInvariant` (types, `PublishedWasDelivered`, `InboxShowsOnce`), `FinishedIsFinal`, `EveryEventSettles` | two events, two workers, two channels, leases of two ticks, two attempts, one fault |
| `Throttle` | `ThrottleInvariant` (types, `BurstIsBounded`, `TableIsBounded`, `NoEntryFlood`), `LockHolds`, `LockEnds` | two sources, an account, two calls, a table of two rows, readings one tick old |
| `Sessions` | `AccountsInvariant` (types, `AdministratorRemains`, `EveryRevisionAccounted`), `DisabledIsFinal`, `SessionsInvariant` (types, `ValidKnowsPassword`, `TokenWithinSession`), `ChangeNeedsValidSession`, refinement of `AbstractSessions` | three members, two passwords, two sessions of two ticks, two calls under way, three revisions |
| `Requests` | `RequestsInvariant` (types, `RolesInvariant`, `GuardAgreesWithTables`), `BindingsOnlyGrow`, `AdmittedWasEntitled` | an administrator and a member, three projects, two project roles, five operations of the dictionary, two bindings; beside requests one call of an administrator at a time |
| `ServiceRequests` | `RequestsInvariant` (types, `ServiceInvariant`, `GuardAgreesWithTables`), `DeadStaysDead`, `AdmittedWasEntitled` | two accounts, three credentials, two grants, four operations, expiry after one tick; beside a request one call of an administrator at a time |
| `Bff` | `BffInvariant` (types, `OneToOne`, `AcceptedOnce`, `AcceptedIsShortLived`, `HandledIsAccountable`), `IdentityIsStable`, `RefusedForReason` | two assertions, three deliveries, a cache of one nonce, two identities and users, one restart |
| `Config` | `ConfigInvariant` (types, `AnswersAreTrue`, `EveryRevisionExplained`, `ReadersSeeCompleteChains`), refinement of `ConfigChains` | three calls on one chain, three revisions, two attempts |
| `Startup` | `StartupInvariant` (types, `RunningIsComplete`, `RefusedForReason`, `LatchIsTrue`), `FirstUserOnly`; `RuntimeInvariant` (types, `NothingOutlivesShutdown`, `VaultShowsRows`), `DueItemsAreReminded` | two processes and users on the database of every release, with or without a forged row in the ledger; two processes, two items, two edits, two days, one failure |

Why the bounds suffice. Five gates need five revisions after creation; the
others leave room for a block, an unblock and a second closing, and one item
suffices because handlers never read two. Cycles through a new item need two
others, so three items show both a cycle that the search finds and one that
creation lets in. Conflicts need two processes, a third request makes a process
act on what two others left behind, and a second crash repeats the first, since
a crash forgets everything that is not committed. A lease of two ticks has a
tick that is beyond doubt and one that is not; two attempts show both the retry
and the burial; one crash or failed statement leaves a row to another worker,
while slow workers are unlimited. The three keys of the throttle do not fit its
table of two rows, and a lock outlasts its window, so locks meet full tables,
other sources and expired rows. Two administrators suffice for the race for the
last one, three revisions for a stale call after a change, two sessions of a
user for an end of both. A binding that is revoked and assigned anew needs two
bindings, a permission through two roles two as well. Two rotations of one
credential need three credentials. A cache of one nonce is full with one entry,
and with two ticks an assertion expires between the checks and the consumption.
A rollback to a revision before the last needs three revisions, and three calls
two writers and a reader. Migrations are deterministic but for their order
among processes, of which two meet at every step. `MaxRevision`, `MaxCrashes`,
`MaxFaults`, `MaxAttempts`, `MaxPrepared`, `MaxRoleCalls`, `MaxPending`,
`MaxRequests`, `MaxRestarts`, `MaxTime`, `MaxDay`, `MaxEdits` and `MaxFailures` are
the bounds of counters; the constraints named `Small` and `FewRecords` bound the
instances.

Symmetry is used where nothing distinguishes the identifiers, and never with a
liveness property. Deadlock is not checked where the system may stop:
requests that were all answered, items at the revision bound, processes that
were refused.

### A disagreement between the code and what is said of it

`GraphAcyclic`: the capability map promises cycle validation of dependencies;
`Create` calls `validateDependencies` without an identifier, which skips the
search, and an item that blocks one item and depends on another closes a cycle.
Afterwards every other dependency update is refused while the cycle stands, and
the schedule shows its items waiting for each other. `OnlyMixedCreationCloses`
is the positive half: no other step can. `SomethingCanStart` says what an acyclic graph
is good for.

### What the models show besides

- Items that are blocked, or wait for a dependency, can advance: blocking is
  advisory (`AdvanceGate` does not look at the status), though the policy page of
  the web client lists it among the rules.
- The window of the throttle is fixed to its first attempt, so two budgets can
  meet at its end: nearly twice the limit passes in the time of one window, which
  `BurstIsBounded` states as the bound that holds.
- A database with the authorization dictionary and without the migration of
  the service grants cannot be started on: the operations of services refer to
  permissions of the configuration which are only seeded later. `RefusedForReason`
  names this case. A comment at `identitycore/migration.go:381-384` is about this
  upgrade, but what is installed there are the permissions on projects, planning
  and views, not those on the configuration. The upgrade test builds its old
  database from the current dictionary and does not meet the case.
- A guard asks for grant after grant, so a request can pass with a grant that
  was revoked while the guard was at work. `AdmittedWasEntitled` is what remains
  true: nothing is admitted that the tables did not allow, part by part, at one of
  the guard's queries.
- Development API keys bypass the tables of the guard; the models leave them out.

## 5. Fairness

The safety runs assume none. `SearchEnds` needs none either: every step of the
search answers or leaves less to do, and the run checks deadlock for it.
`UnitOfWork` assumes weak fairness of each process's work, which is the Go
scheduler and SQLite's bounded busy wait; nobody has to send a request, and
crashes need not happen. A statement always returns with a result or an error,
so `Rollback` may answer for it, except while it waits for a connection.
`Outbox` assumes that time passes and that each dispatcher goes on with what it
polled (its loop runs every 50 ms); nothing has to be staged and nothing has to
fail. `Throttle` assumes that time passes and that a waiting call is answered or
given up, as every request has a context; the callers may go on for ever, and a
lock ends nevertheless. `DueItemsAreReminded` assumes weak fairness of the steps
of a reminder loop alone: its ticker goes on ticking. Exports, edits, midnight
and restarts need not happen, and the property speaks of processes that go on
running.

## 6. The proofs

Proved with TLAPS for every value of the constants.

`DeliveryLifecycle_proofs`. The inductive invariant `IInv` adds to the types
that an existing row is `Sound`: the implementer is recorded from
development on and is a source, the validator is an independent human once
production is validated, closers are independent too, and the status is one
the gate and the blocker allow. It is needed because separation of duties
speaks of items at the last gate only, while the step that reaches it relies
on what was recorded two gates earlier. `GateInvariantHolds`, `TypeCorrect`,
`DutiesSeparated`, `StatusFollowsGate`, `ClosedStaysClosed`, `NoUpdateIsLost`
and `ImplementsDutySeparation` (the refinement) follow. Assumptions: principals
have their record type, `NoSubject` and `NoSource` are not values of the
types they extend.

`WorkItemGraph_proofs`. About `CycleSearch`, `Progress` is inductive as it stands: the stack is a
path of distinct nodes that are being visited, the prerequisites a frame has
left behind are visited, so are those of a visited node, and no set of nodes
that wait for each other contains a visited one. `SearchIsRight`: "cycle" is
answered only when the path closed, and "none" only when all nodes are visited.
There is no induction over paths, since `Cyclic` speaks of sets.

About `WorkItemGraph`, `IInv` is types, `LinksStayInProject` and
`TitlesAreUnique`, inductive as it stands (`GraphInvariantHolds`).
`OnlyMixedCreations` shows that the creation of an item with dependencies in
one direction leaves the graph acyclic: the new node is a source or a sink of
it. `UpdatesAreSafe` follows from the guard and the frame of the other rows;
`ScheduleLeavesWork` from the definition of `Cyclic`, with the waiting items as
its set.

`UnitOfWork_proofs`. `IInv` says what an open transaction sees: on a database that
nobody has changed since it began, its view is that database plus exactly the
events, rows and entries its parts have staged so far (`ViewsFollow`); the write
lock is held from the first event to the end (`HolderStaged`), so the holder works
on the current version and finds the revision its client expects; and before
its commit nothing of a request is in the database (`NothingBeforeCommit`).
`AllOrNothing` follows, which counts the events and entries of a request
(`FiniteLogs` makes the counts meaningful). `WriteInvariantHolds` and
`NoOverwriteHolds` are for any number of processes, requests, rows and crashes.
In the refinement (`ImplementsAtomicWrites`) only `Commit` and the report of a
failure are steps of `AtomicWrites`; everything else is a stutter. Assumptions:
`NoProcess` and `NoTransaction` are not values of the types they extend, and the
bound on crashes is a number.

`Outbox_proofs`. `IInv` adds to the types and to `PublishedWasDelivered` that
`ClaimsAreHonest`: what a worker takes for a success was delivered to every
channel. It is needed because the worker that marks a row is not always the
one that holds it. `DeliveryInvariantHolds`, `PublishedEventsWereDelivered`,
`InboxIsIdempotent`, `OutcomesAreFinal` and `TypeCorrect` follow, for any number
of workers and channels. Assumptions: the bounds are positive, and the inbox is
a channel.

Its second part is about `EventRuntime`. Where a process is in its life bounds what
is left of its loop and its dispatcher (`LivesInOrder`). What an export has listed is
no newer than the rows and no older than its event; one that works alone has listed
what was published when it began, and the files it has written are as it wrote
them; what is published and not shown yet is thus impossible once exports no
longer overlap (`ProjectionInOrder`, `RuntimeInvariantHolds`). Assumptions: the
files are a sequence of one per item and the overview, and the bounds are numbers.

Its third part is about `Startup`. A row of the ledger lies only if it is the forged
one, what the schema has of a migration comes with the rows that it makes, and the
first four migrations are those of the release or all there (`rowsInOrder`); a
process that has run n migrations has what they bring (`broughtTo`), also if others
run them at the same time. There is one lemma per kind of migration. That a start
is refused only for one of two reasons, a forged row or the release in between, is
part of the invariant. `StartupInvariantHolds` and `FirstUserOnlyHolds` are for any
number of processes and users, every release and every forged row; the history
itself is the one of the code. Assumption: the mark for nobody is no user.

`LocalSessions_proofs`. About accounts, `AccountsIInv` adds to the types and to
`AdministratorRemains` that `TrailIsExact`: no audit entry is ahead of the row it
is about, and the entries about each revision are a set of one. The first part
is needed because a new revision must not have been recorded before. One lemma
(`TrailGrows`) covers every kind of entry. It holds under administrators alone
(`AdministratorsKeepAccounts`, with guards of any age) and together with the
sessions (`SessionsKeepTheAccounts`). About sessions, `SessionsIInv` adds
`RowsInOrder` and `TokensInOrder`: a session belongs to a user who exists and to a
revision of the credential that is not ahead of it, and as long as it is the
current one its login presented the current password; every token was signed
for the first revision of its session and has no more time left than it.
`ValidSessionsAreKnown` is then immediate. For the refinement
(`SessionsAreImplemented`) the point is that a revision which grows past the one of
a session ends it for ever: a reset, a change or a rehash maps to
`EndAllOf` or to a part of `Open`, the creation of a user to a stutter, as nobody
who does not exist has a session. `OnlyValidSessionsChange` and
`DisabledStaysDisabled` need the same facts. Assumptions: there is an
administrator initially, an access token does not live longer than a session,
and `NoPassword` is not a password.

Its second part is about `PasswordThrottle`. What passed within the span of a window
belongs to the row of its key or to the one before, and is told apart by that and by
its number in the row; its age is at least what the row has used up of its window,
but for the longest wait of a call; and a lock that must still hold has a blocked row
with at least that much left (`keyInOrder`). That the table keeps its limit is needed
together with it, since cleaning is what may delete a row. `ThrottleInvariantHolds`
then bounds the burst by counting: the pairs of row and number are mapped to
`1..2n-1` one to one, as the first attempt of the row before is past.
`LockHoldsHolds` follows from the last part. Assumptions: limits are positive, and
sources are not accounts.

`ConfigRevisions_proofs`. `IInv` says of each call what it may rely on while
others act (`callInOrder`): a call past its insert holds the lock and its key still
ends with what it expects; a prepared rollback carries the payload of the row it
names; a reading found a row that is there; and a row names a caller exactly
when it was told so. With `RowsInOrder` (no gaps below a revision, nothing that
was not asked for) this gives `ConfigInvariantHolds`. That the revisions of a key
are an interval is shown by counting (`NoGaps`), without induction. For
`ChainsAreImplemented`, `RowExtends` shows that one row more, with its entry, is one
element more at the end of one chain, and the other steps are stutters.

Its second part is about service accounts. `ServiceInvariant` is inductive with the
types: one active grant, and one successor of a credential, of its account, are
kept because every transaction looks at the rows again; every revocation is
explained by an audit entry or a successor, which needs that credentials and grants
have different identifiers (`ServiceRequestsInvariantHolds`, `DeadStaysDeadHolds`). For the guard,
`RequestsInOrder` adds that a request acts with a credential that was issued and,
once resolved, has a grant of each part of its operation, and that while it is
verified `had` covers the grants verified so far. `AllowedIsJustified` and
`RightsResolve` are the two directions of the agreement with the tables, as for
members; `ServiceAdmittedWasEntitledHolds` uses the first. The other one brought to light what a service
depends on: its grants name permissions, the tables name operations, so that the
parts of one operation must have different permissions. The dictionary meets this.
Further assumptions: the types of what is granted by configuration and may be granted.

`HumanRequests_proofs`. What it needs of members it takes from
`LocalSessions_proofs`. `RolesInvariant` is inductive on accounts in order: nobody
who holds a binding is forgotten, the ID of a binding is used once, and its
entries are exactly those of its row (`RolesInvariantHolds`,
`BindingsOnlyGrowHolds`). That guard and tables agree is no matter of reachable
states: `GuardAgrees` shows it of every state of the right types, in two
directions. `VerifiedIsRight` turns each verified grant into a right of the
tables, which needs nothing of the dictionary, and `AllowedIsJustified` whatever is
allowed on grants that a set of rights covers into something these rights justify;
`RightsResolve` and `ResolvedIsVerified` go back, and there a role must hold a permission in the scope of
each operation that needs it. The proof brought to light that agreement between
roles, assumed before, was not enough for that. For `AdmittedWasEntitledHolds` the invariant carries
along that a request in verification has `had` covering the grants verified so far
(`RequestsChecked`): each query adds the rights of its moment and no other step
takes any away. `GuardJustifies` then uses the first direction alone, so that it
holds whatever was resolved before and whatever changes meanwhile.
Assumptions: those of the dictionary, which the file
`permission-dictionary.v1.json` meets, and the types of what is asked for.

`BffRequests_proofs`. `IInv` relates requests, cache and history: an assertion in
hand was signed, and a nonce stands for one assertion; the cache holds what this
run accepted (`CacheWasAccepted`) and at least what has not expired of it
(`CacheRemembers`), which pruning and the refusal of a full cache keep up; a
request past its consumption is accounted for, and one past resolution acts as the
user its key is bound to (`Accountable`). `BffInvariantHolds` and
`RefusedForReasonHolds` follow; the latter counts: a full cache holds as many
unexpired nonces as its capacity. `IdentityIsStableHolds` is a case analysis over
the operations of `IdentityBinding`. Assumptions: the bounds are numbers, the two
organizations differ, and the default name is no name of a claim.

Only model-checked: `SearchEnds`, `EveryRequestEnds`, `EveryEventSettles`,
`LockEnds` and `DueItemsAreReminded`, because the prover does not reason about
fairness and ENABLED; and the run that shows a violation. Every other property of the
runs is stated by a theorem.

## 7. Not modelled

- *Transports, audit queries, generated contracts.* They decode, call an
  operation and encode the result; none has state or an order of its own. What
  they pass on (method, subject, expected revision) is the input of the models.
- *Saved views.* One insert per call, inside the unit of work that `UnitOfWork`
  models; no revision and no second actor.
- *Views and searches.* Pure queries over rows that the models have. The schedule
  and the similarity of titles are in `WorkItemGraph`; dashboard, member week,
  progress counts, ranking and dates are arithmetic on one snapshot that the unit
  tests cover.
- *Bootstrap and policy validation.* Wiring and checks of configuration that end
  the process before it serves anything. What the wiring decides (one
  connection, worker identifier, batch of one) is in the modules it matters to.
- *The web client and its BFF, the legacy backend.* Other programs; the BFF's
  assertions are the input of `BffRequests`. `src/backend` was replaced.
- *The framework.* Executor, dispatcher and outbox schema are external
  definitions, modelled from how the code configures and calls them.

Of components that are modelled in part: the canonical form of configuration
payloads, the search for secrets in them and the comparison of revisions; the
listing and wording of notifications; the classification and listing of
security entries; text fields, search ranking, layout and encoding.
Cryptography (password hashes, signatures, digests, random identifiers) is taken
to be ideal: what is not known cannot be produced, and identifiers are new.
