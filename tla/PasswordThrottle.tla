-------------------------- MODULE PasswordThrottle --------------------------
(***************************************************************************)
(* The budgets of password attempts in locallogin/throttle.go: before a    *)
(* login or a change of password looks at the password, it takes an        *)
(* attempt from the bucket of its source and from that of its account, in  *)
(* one short transaction of its own.  The login and its root transaction   *)
(* touch no bucket, whatever becomes of them, and are not part of the      *)
(* module: a granted call is done.                                         *)
(*                                                                         *)
(* The transaction takes the write lock with its first statement, so it is *)
(* one step; but the caller has read the clock before it waits for the     *)
(* connection and for the lock.  Time is relative: a bucket keeps what is   *)
(* left until expires_at, a waiting call the age of its reading.            *)
(***************************************************************************)
EXTENDS Integers, FiniteSets

CONSTANTS
    Sources, Accounts,           \* the keys of the buckets
    Callers,                     \* calls under way at a time
    SourceLimit, AccountLimit,   \* [attempts, window, cooldown], in ticks
    MaxBuckets,                  \* rows the table may have
    MaxWait                      \* ticks a call waits before it is given up

LimitType == [attempts : Nat \ {0}, window : Nat \ {0}, cooldown : Nat \ {0}]

ASSUME LimitsAssumption ==
    /\ SourceLimit \in LimitType /\ AccountLimit \in LimitType
    /\ MaxBuckets \in Nat /\ MaxWait \in Nat
    /\ Sources \cap Accounts = {}

VARIABLES
    buckets,    \* the rows of iotd_local_password_attempts
    calls,      \* the calls under way
    passes,     \* [Keys -> the attempts that passed of late], see Pass
    guarded,    \* ticks a lock has yet to hold, as its cooldown promises
    unreported  \* locks minus audit entries about locks

throttleVars == <<buckets, calls, passes, guarded, unreported>>

-----------------------------------------------------------------------------
(* Data.                                                                   *)

Keys == Sources \cup Accounts

limit(k) == IF k \in Sources THEN SourceLimit ELSE AccountLimit

(* A row lasts its window or, once locked, its cooldown; a reading of the   *)
(* clock that is MaxWait old shortens either.                              *)
Span(k) ==
    (IF limit(k).window < limit(k).cooldown
     THEN limit(k).window ELSE limit(k).cooldown) - MaxWait

NoRow == [attempts |-> 0, blocked |-> FALSE, left |-> 0]

present(table) == {k \in Keys : table[k] # NoRow}

Idle == [state |-> "idle", age |-> 0]

(* An attempt that passed: how long ago, in which row of its key (the one   *)
(* that is there or was last, or so many before it), its number there.      *)
Pass(k) == [age : 0..(Span(k) - 1), row : Nat, attempt : Nat]

ThrottleInit ==
    /\ buckets = [k \in Keys |-> NoRow]
    /\ calls = [c \in Callers |-> Idle]
    /\ passes = [k \in Keys |-> {}]
    /\ guarded = [k \in Keys |-> 0]
    /\ unreported = 0

-----------------------------------------------------------------------------
(* One bucket: takePasswordBudget.  result is "granted", "denied",          *)
(* "locked" (denied, and the lock begins) or "unavailable".                 *)

(* Faulty variant: the attempt after the last one still passes.             *)
exhausted_Late(row, k) == row.attempts > limit(k).attempts

exhausted(row, k) == row.attempts >= limit(k).attempts

hasRoom(table) == Cardinality(present(table)) < MaxBuckets

(* Faulty variant: the lock is set, the expiry of the row is left.          *)
locked_KeepsExpiry(row, k, age) == [row EXCEPT !.blocked = TRUE]

(* blocked_until and expires_at become the caller's now plus the cooldown.  *)
locked(row, k, age) ==
    [row EXCEPT !.blocked = TRUE, !.left = limit(k).cooldown - age]

(* Faulty variant: an attempt on a locked bucket renews its lock.           *)
probed_Renews(row, k, age) == [row EXCEPT !.left = limit(k).cooldown - age]

(* Rejected traffic does not lengthen the lock.                             *)
probed(row, k, age) == row

take(table, k, age) ==
    LET row == table[k]
        with(r) == [table EXCEPT ![k] = r]
    IN  IF row = NoRow
        THEN IF hasRoom(table)
             THEN [result |-> "granted",
                   table |-> with([attempts |-> 1, blocked |-> FALSE,
                                   left |-> limit(k).window - age])]
             ELSE [result |-> "unavailable", table |-> table]
        ELSE IF row.blocked
        THEN [result |-> "denied", table |-> with(probed(row, k, age))]
        ELSE IF exhausted(row, k)
        THEN [result |-> "locked", table |-> with(locked(row, k, age))]
        ELSE [result |-> "granted",
              table |-> with([row EXCEPT !.attempts = @ + 1])]

(* DELETE ... WHERE expires_at <= now, with the caller's now.               *)
unexpired(age) ==
    [k \in Keys |-> IF buckets[k].left + age > 0 THEN buckets[k] ELSE NoRow]

-----------------------------------------------------------------------------
(* The calls.                                                              *)

(* A call reads the clock and waits for the connection and the lock.        *)
Arrive(c) ==
    /\ calls[c].state = "idle"
    /\ calls' = [calls EXCEPT ![c] = [state |-> "waiting", age |-> 0]]
    /\ UNCHANGED <<buckets, passes, guarded, unreported>>

reported(result) == result = "locked"

recent(k, past) == {x \in past : x.age < Span(k)}

pass(row) == [age |-> 0, row |-> 0, attempt |-> row.attempts]

(* What passed, once the expired rows are gone.                             *)
passedBefore(k, age) ==
    IF buckets[k] # NoRow /\ unexpired(age)[k] = NoRow
    THEN {[x EXCEPT !.row = @ + 1] : x \in passes[k]} ELSE passes[k]

(* The transaction of reservePasswordAttempt: expired rows, then the source *)
(* and, unless that denies, the account.  An error rolls it back, a denial  *)
(* is committed.                                                           *)
Reserve(c, source, account) ==
    LET age == calls[c].age
        first == take(unexpired(age), source, age)
        second == IF first.result = "granted"
                  THEN take(first.table, account, age) ELSE first
        decider == IF first.result = "granted" THEN account ELSE source
    IN  /\ calls[c].state = "waiting"
        /\ buckets' = IF second.result = "unavailable" THEN buckets ELSE second.table
        /\ passes' =
              IF second.result = "unavailable" THEN passes
              ELSE [k \in Keys |->
                      IF second.result = "granted" /\ k \in {source, account}
                      THEN recent(k, passedBefore(k, age) \cup {pass(second.table[k])})
                      ELSE passedBefore(k, age)]
        /\ guarded' = IF second.result = "locked"
                      THEN [guarded EXCEPT
                               ![decider] = limit(decider).cooldown - MaxWait]
                      ELSE guarded
        /\ unreported' = IF second.result = "locked" THEN unreported + 1 ELSE unreported
        /\ calls' = [calls EXCEPT ![c] =
              IF reported(second.result)
              THEN [state |-> "reporting", age |-> 0] ELSE Idle]

(* The call is cancelled, the database is busy or cannot be read.           *)
GiveUp(c) ==
    /\ calls[c].state = "waiting"
    /\ calls' = [calls EXCEPT ![c] = Idle]
    /\ UNCHANGED <<buckets, passes, guarded, unreported>>

(* recordThrottle appends an entry after the commit; its error is ignored,  *)
(* so that an entry may be missing.                                        *)
Report(c) ==
    /\ calls[c].state = "reporting"
    /\ calls' = [calls EXCEPT ![c] = Idle]
    /\ unreported' = unreported - 1
    /\ UNCHANGED <<buckets, passes, guarded>>

Elapse ==
    /\ \A c \in Callers : calls[c].state = "waiting" => calls[c].age < MaxWait
    /\ buckets' = [k \in Keys |->
          IF buckets[k].left > -MaxWait /\ buckets[k] # NoRow
          THEN [buckets[k] EXCEPT !.left = @ - 1] ELSE buckets[k]]
    /\ calls' = [c \in Callers |->
          IF calls[c].state = "waiting" THEN [calls[c] EXCEPT !.age = @ + 1]
          ELSE calls[c]]
    /\ passes' = [k \in Keys |-> recent(k, {[x EXCEPT !.age = @ + 1] : x \in passes[k]})]
    /\ guarded' = [k \in Keys |-> IF guarded[k] > 0 THEN guarded[k] - 1 ELSE 0]
    /\ UNCHANGED unreported

Answer(c) ==
    \/ \E source \in Sources, account \in Accounts : Reserve(c, source, account)
    \/ GiveUp(c)
    \/ Report(c)

ThrottleNext ==
    \/ \E c \in Callers : Arrive(c) \/ Answer(c)
    \/ Elapse

(* Time passes, and a call that waits is answered or given up.              *)
ThrottleSpec ==
    ThrottleInit /\ [][ThrottleNext]_throttleVars /\ WF_throttleVars(Elapse)
      /\ \A c \in Callers : WF_throttleVars(Answer(c))

-----------------------------------------------------------------------------
(* Properties.                                                             *)

passed(k) == Cardinality(passes[k])

ThrottleTypeOK ==
    /\ \A k \in Keys :
          /\ buckets[k].attempts \in 0..limit(k).attempts
          /\ buckets[k].blocked \in BOOLEAN
          /\ buckets[k].left \in Int
          /\ guarded[k] \in Int
          /\ passes[k] \subseteq Pass(k)
    /\ calls \in [Callers -> [state : {"idle", "waiting", "reporting"},
                              age : 0..MaxWait]]
    /\ unreported \in Int

(* A window begins with an attempt, so whatever the callers and however     *)
(* late their readings of the clock, a span of a window holds less than two *)
(* budgets (takePasswordBudget; the window is fixed, it does not slide).    *)
BurstIsBounded == \A k \in Keys : passed(k) <= 2 * limit(k).attempts - 1

(* From the denial that locks an account or a source, nothing passes there  *)
(* for the whole cooldown: not from another source, not by way of a full    *)
(* table or an expired window, not with an old reading of the clock.        *)
LockHolds ==
    [][\A k \in Keys : guarded[k] > 0 =>
         \A x \in passes'[k] \ passes[k] : ~ (x.age = 0 /\ x.row = 0)]_throttleVars

(* A lock ends by itself, also under attempts that never stop.              *)
LockEnds ==
    \A k \in Keys :
        (buckets[k].blocked /\ buckets[k].left > 0)
            ~> ~ (buckets[k].blocked /\ buckets[k].left > 0)

(* The table stays within its limit when calls for new keys compete.        *)
TableIsBounded == Cardinality(present(buckets)) <= MaxBuckets

(* Probes of a locked bucket do not fill the audit: there are never more    *)
(* entries about locks than locks.                                         *)
NoEntryFlood == unreported >= 0

(* What holds of the table and its counters at any time.                    *)
ThrottleInvariant == ThrottleTypeOK /\ BurstIsBounded /\ TableIsBounded /\ NoEntryFlood
=============================================================================
