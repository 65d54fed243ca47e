------------------------------ MODULE BffRequests ------------------------------
(***************************************************************************)
(* Requests that the BFF passes on for its users (bffhttp): the assertion  *)
(* is verified (bffassertion), its subject is resolved (IdentityBinding),  *)
(* the acceptance is audited, and only then the application is called.     *)
(*                                                                         *)
(* An assertion is an element of a set that the BFF signed; the checks of  *)
(* its form, its signature and its request are in the choice of that set.  *)
(* A delivery is one HTTP request; the same assertion may be delivered any *)
(* number of times.  The cache of consumed nonces is in memory: a restart  *)
(* of the program loses it, and every request in hand.  Time is in ticks   *)
(* of the clock skew that is allowed.                                      *)
(***************************************************************************)
EXTENDS IdentityBinding

CONSTANTS
    Nonces, Deliveries,
    MaxAge, Skew,            \* longest lifetime of an assertion, allowed skew
    ReplayCapacity,
    MaxTime, MaxRestarts     \* bounds on the clock and on restarts

ASSUME BffAssumption ==
    /\ MaxAge \in Nat \ {0} /\ Skew \in Nat
    /\ ReplayCapacity \in Nat \ {0}
    /\ MaxTime \in Nat /\ MaxRestarts \in Nat

VARIABLES
    now,          \* the clock of the host
    signed,       \* the assertions the BFF has signed
    consumed,     \* nonces in the cache, each with its expiry
    requests,     \* [Deliveries -> the request in hand]
    audit,        \* deliveries whose acceptance was recorded
    accepted,     \* nonces consumed, when and by which run of the program (history)
    run           \* how often the program was restarted

cacheVars == <<now, signed, consumed, accepted, run>>
vars == <<bindingVars, cacheVars, requests, audit>>

-----------------------------------------------------------------------------
(* exp is when the assertion expires.                                       *)
Assertion ==
    [nonce : Nonces, key : Keys, name : Names \cup {NoName}, iat : 0..(MaxTime + Skew + 1),
     exp : 1..(MaxTime + Skew + MaxAge + 2)]

Idle == [stage |-> "idle"]

(* at is the clock that consume has read, user the principal.               *)
Request ==
    {Idle} \cup [stage : {"received", "valid"}, assertion : Assertion]
    \cup [stage : {"clocked", "consumed"}, assertion : Assertion, at : 0..MaxTime]
    \cup [stage : {"resolved", "handled"}, assertion : Assertion, user : UserIDs]
    \cup [stage : {"rejected"}, assertion : Assertion, at : 0..MaxTime]

TypeOK ==
    /\ BindingTypeOK
    /\ now \in 0..MaxTime /\ run \in 0..MaxRestarts
    /\ signed \subseteq Assertion
    /\ consumed \subseteq [nonce : Nonces, exp : 1..(MaxTime + Skew + MaxAge + 2)]
    /\ \A d \in Deliveries : requests[d] \in Request
    /\ audit \subseteq Deliveries
    /\ accepted \subseteq [nonce : Nonces, exp : 1..(MaxTime + Skew + MaxAge + 2),
                           at : 0..MaxTime, run : 0..MaxRestarts, by : Deliveries]

Init ==
    /\ BindingInit
    /\ now = 0 /\ run = 0
    /\ signed = {} /\ consumed = {} /\ accepted = {} /\ audit = {}
    /\ requests = [d \in Deliveries |-> Idle]

-----------------------------------------------------------------------------
(* The BFF signs an assertion with a random nonce.  Its clock may be off.   *)
Sign(a) ==
    /\ \A b \in signed : b.nonce # a.nonce
    /\ a.iat \in {now, now + Skew, now + Skew + 1}
    /\ a.exp \in {a.iat + 1, a.iat + MaxAge, a.iat + MaxAge + 1}
    /\ signed' = signed \cup {a}
    /\ UNCHANGED <<bindingVars, now, consumed, accepted, run, requests, audit>>

stage(d) == requests[d].stage

Receive(d, a) ==
    /\ stage(d) = "idle" /\ a \in signed
    /\ requests' = [requests EXCEPT ![d] = [stage |-> "received", assertion |-> a]]
    /\ UNCHANGED <<bindingVars, cacheVars, audit>>

answered(d) ==
    requests' = [requests EXCEPT ![d] =
        [stage |-> "rejected", assertion |-> requests[d].assertion, at |-> now]]

validClaims(a) ==
    /\ a.exp > now
    /\ a.iat <= now + Skew
    /\ a.exp - a.iat \in 1..MaxAge

Validate(d) ==
    /\ stage(d) = "received"
    /\ IF validClaims(requests[d].assertion)
       THEN requests' = [requests EXCEPT ![d].stage = "valid"]
       ELSE answered(d)
    /\ UNCHANGED <<bindingVars, cacheVars, audit>>

(* consume reads the clock anew, and before it takes the lock.              *)
ReadClock(d) ==
    /\ stage(d) = "valid"
    /\ requests' = [requests EXCEPT ![d] =
          [stage |-> "clocked", assertion |-> requests[d].assertion, at |-> now]]
    /\ UNCHANGED <<bindingVars, cacheVars, audit>>

(* Faulty variant: entries stay until the program ends.                     *)
pruned_Nothing(at) == consumed

(* Faulty variant: an entry goes while its assertion may still be valid.    *)
pruned_Early(at) == {e \in consumed : e.exp > at + 1}

pruned(at) == {e \in consumed : e.exp > at}

refuses(cache, nonce) ==
    (\E e \in cache : e.nonce = nonce) \/ Cardinality(cache) >= ReplayCapacity

Consume(d) ==
    LET a == requests[d].assertion
        cache == pruned(requests[d].at)
        entry == [nonce |-> a.nonce, exp |-> a.exp] IN
    /\ stage(d) = "clocked"
    /\ IF refuses(cache, a.nonce)
       THEN consumed' = cache /\ UNCHANGED accepted
            /\ requests' = [requests EXCEPT ![d].stage = "rejected"]
       ELSE consumed' = cache \cup {entry}
            /\ accepted' = accepted \cup
                  {[nonce |-> a.nonce, exp |-> a.exp, at |-> now, run |-> run, by |-> d]}
            /\ requests' = [requests EXCEPT ![d].stage = "consumed"]
    /\ UNCHANGED <<bindingVars, now, signed, run, audit>>

(* The nonce stays consumed when the subject is not let in.                 *)
Resolve(d) ==
    LET a == requests[d].assertion IN
    /\ stage(d) = "consumed"
    /\ \/ \E u \in UserIDs :
             /\ Resolved(a.key, a.name, u)
             /\ requests' = [requests EXCEPT ![d] =
                   [stage |-> "resolved", assertion |-> a, user |-> u]]
       \/ NotResolved /\ answered(d)
    /\ UNCHANGED <<cacheVars, audit>>

recorded(d) == audit' = audit \cup {d}

(* RecordAuthenticationAccepted, then the application; or neither.          *)
Handle(d) ==
    /\ stage(d) = "resolved"
    /\ \/ recorded(d) /\ requests' = [requests EXCEPT ![d].stage = "handled"]
       \/ UNCHANGED audit /\ answered(d)
    /\ UNCHANGED <<bindingVars, cacheVars>>

(* A crash or a stop of the program.                                        *)
Restart ==
    /\ run < MaxRestarts
    /\ run' = run + 1
    /\ consumed' = {}
    /\ requests' = [d \in Deliveries |->
          IF stage(d) \in {"idle", "handled", "rejected"} THEN requests[d]
          ELSE [stage |-> "rejected", assertion |-> requests[d].assertion, at |-> now]]
    /\ UNCHANGED <<bindingVars, now, signed, accepted, audit>>

Tick ==
    /\ now < MaxTime
    /\ now' = now + 1
    /\ UNCHANGED <<bindingVars, signed, consumed, accepted, run, requests, audit>>

Next ==
    \/ \E a \in Assertion : Sign(a)
    \/ \E d \in Deliveries, a \in signed : Receive(d, a)
    \/ \E d \in Deliveries :
          Validate(d) \/ ReadClock(d) \/ Consume(d) \/ Resolve(d) \/ Handle(d)
    \/ Disabling /\ UNCHANGED <<cacheVars, requests, audit>>
    \/ Restart
    \/ Tick

Spec == Init /\ [][Next]_vars

-----------------------------------------------------------------------------
(* Properties.                                                              *)

(* An assertion lets one request in: while it has not expired, no run of    *)
(* the program accepts its nonce twice, whatever requests race with it and  *)
(* whatever entries were pruned.                                            *)
AcceptedOnce ==
    \A x, y \in accepted :
        /\ x.nonce = y.nonce /\ x.run = y.run
        /\ x.at < x.exp /\ y.at < y.exp
        => x = y

(* Nothing is accepted that was signed to live longer than an assertion     *)
(* may, so a copy is of no use once that time is over.                      *)
AcceptedIsShortLived ==
    \A d \in Deliveries : stage(d) \in {"consumed", "resolved", "handled"} =>
        requests[d].assertion.exp <= requests[d].assertion.iat + MaxAge

(* The application is called only for a request whose nonce was consumed by *)
(* that request, whose acceptance is in the audit, and as the user its key  *)
(* is bound to.                                                             *)
HandledIsAccountable ==
    \A d \in Deliveries : stage(d) = "handled" =>
        /\ d \in audit
        /\ \E x \in accepted : x.by = d /\ x.nonce = requests[d].assertion.nonce
        /\ identities[requests[d].assertion.key].user = requests[d].user

(* What holds at any time.                                                  *)
BffInvariant ==
    TypeOK /\ OneToOne /\ AcceptedOnce /\ AcceptedIsShortLived /\ HandledIsAccountable

(* Nobody is turned away without reason: a valid assertion is refused by    *)
(* the cache only when this run accepted it before, or when as many others  *)
(* as the cache holds had not expired at the time consume read.             *)
RefusedForReason ==
    [][\A d \in Deliveries :
          stage(d) = "clocked" /\ requests'[d].stage = "rejected" /\ run' = run =>
             LET mine == {x \in accepted : x.run = run} IN
             \/ \E x \in mine : x.nonce = requests[d].assertion.nonce
             \/ Cardinality({x.nonce : x \in {y \in mine : y.exp > requests[d].at}})
                   >= ReplayCapacity]_vars
=============================================================================
