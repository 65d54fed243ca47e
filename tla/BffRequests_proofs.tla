------------------------- MODULE BffRequests_proofs -------------------------
(***************************************************************************)
(* Proofs about BffRequests and IdentityBinding: the invariant, the        *)
(* stability of a binding, and why a valid assertion is refused.           *)
(***************************************************************************)
EXTENDS BffRequests, FiniteSetTheorems, TLAPS

-----------------------------------------------------------------------------
(* The inductive invariant.                                                *)

SignedOnce == \A a, b \in signed : a.nonce = b.nonce => a = b

(* What is known of a request from one stage to the next.                  *)
InHand ==
    \A d \in Deliveries :
        /\ stage(d) # "idle" => requests[d].assertion \in signed
        /\ stage(d) \in {"valid", "clocked", "consumed", "resolved", "handled"} =>
             requests[d].assertion.exp <= requests[d].assertion.iat + MaxAge
        /\ stage(d) = "clocked" => requests[d].at <= now

AcceptedWasSigned ==
    \A x \in accepted :
        /\ x.run <= run
        /\ \E a \in signed : a.nonce = x.nonce /\ a.exp = x.exp

(* The cache holds what this run accepted, and at least what has not       *)
(* expired of it.                                                          *)
CacheWasAccepted ==
    \A e \in consumed :
        \E x \in accepted : x.run = run /\ x.nonce = e.nonce /\ x.exp = e.exp

CacheRemembers ==
    \A x \in accepted :
        x.run = run /\ x.exp > now => [nonce |-> x.nonce, exp |-> x.exp] \in consumed

Accountable ==
    \A d \in Deliveries :
        /\ stage(d) \in {"consumed", "resolved", "handled"} =>
             \E x \in accepted : x.by = d /\ x.nonce = requests[d].assertion.nonce
        /\ stage(d) \in {"resolved", "handled"} =>
             /\ identities[requests[d].assertion.key] # Absent
             /\ identities[requests[d].assertion.key].user = requests[d].user
        /\ stage(d) = "handled" => d \in audit

Types ==
    /\ TypeOK
    /\ requests \in [Deliveries -> Request]
    /\ IsFiniteSet(accepted)

IInv ==
    /\ Types
    /\ OneToOne
    /\ SignedOnce
    /\ InHand
    /\ AcceptedWasSigned
    /\ CacheWasAccepted
    /\ CacheRemembers
    /\ Accountable
    /\ AcceptedOnce

-----------------------------------------------------------------------------
(* Keys and users.                                                         *)

BindingStep ==
    \/ \E k \in Keys, name \in Names \cup {NoName}, u \in UserIDs :
          Resolved(k, name, u)
    \/ Disabling
    \/ UNCHANGED bindingVars

KeysStay ==
    \A k \in Keys : identities[k] # Absent =>
        /\ identities'[k] # Absent
        /\ identities'[k].user = identities[k].user
        /\ identities'[k].organization = identities[k].organization
        /\ identities[k].status = "disabled" => identities'[k].status = "disabled"

DisabledUsersStay ==
    \A u \in UserIDs : users[u].status = "disabled" => users'[u].status = "disabled"

LEMMA BindingStarts == BindingInit => BindingTypeOK /\ OneToOne
<1>1. ASSUME BindingInit,
             users = [u \in UserIDs |-> Absent],
             identities = [k \in Keys |-> Absent]
      PROVE  BindingTypeOK /\ OneToOne
  BY <1>1 DEF BindingInit, BindingTypeOK, OneToOne
<1>2. ASSUME BindingInit, NEW u \in UserIDs, NEW k \in Keys,
             users = [v \in UserIDs |-> IF v # u THEN Absent
                ELSE [status |-> "active", organization |-> Other, name |-> DefaultName]],
             identities = [l \in Keys |-> IF l # k THEN Absent
                ELSE [status |-> "active", organization |-> Other, user |-> u]]
      PROVE  BindingTypeOK /\ OneToOne
  <2>. DEFINE row == [status |-> "active", organization |-> Other, name |-> DefaultName]
              bond == [status |-> "active", organization |-> Other, user |-> u]
  <2>1. row \in User /\ bond \in Identity
    BY DEF User, Identity
  <2>2. /\ row # Absent /\ bond # Absent
        /\ row.organization = Other /\ bond.organization = Other /\ bond.user = u
    <3>1. row.status # Absent.status /\ bond.status # Absent.status
      BY DEF Absent
    <3>. QED
      BY <3>1
  <2>3. /\ \A v \in UserIDs : users[v] = IF v # u THEN Absent ELSE row
        /\ \A l \in Keys : identities[l] = IF l # k THEN Absent ELSE bond
    BY <1>2
  <2>4. BindingTypeOK
    BY <1>2, <2>1 DEF BindingInit, BindingTypeOK
  <2>. HIDE DEF row, bond
  <2>5. OneToOne
    BY <2>2, <2>3 DEF OneToOne
  <2>. QED
    BY <2>4, <2>5
<1>. QED
  BY <1>1, <1>2 DEF BindingInit

(* What a row that is there looks like.                                    *)
LEMMA BindingRows ==
  ASSUME BindingTypeOK
  PROVE  /\ \A u \in UserIDs : users[u] # Absent => users[u] \in User
         /\ \A k \in Keys : identities[k] # Absent =>
               identities[k] \in Identity /\ identities[k].user \in UserIDs
         /\ \A u \in UserIDs : users[u] # Absent <=> users[u].status # "absent"
         /\ \A k \in Keys : identities[k] # Absent <=> identities[k].status # "absent"
  BY DEF BindingTypeOK, User, Identity, Absent

LEMMA RefreshKeeps ==
  ASSUME BindingTypeOK, OneToOne, NEW k \in Keys, NEW name \in Names \cup {NoName},
         identities[k] # Absent, refreshed(k, name)
  PROVE  BindingTypeOK' /\ OneToOne' /\ KeysStay /\ DisabledUsersStay
<1>. DEFINE v == identities[k].user
            shown == profile(name, users[v].name)
<1>1. v \in UserIDs /\ users[v] # Absent
  BY BindingRows DEF OneToOne
<1>2. users[v] \in User
  BY <1>1, BindingRows
<1>3. shown \in Names \cup {DefaultName}
  BY <1>2 DEF profile, User
<1>4. users' = [users EXCEPT ![v] = [users[v] EXCEPT !.name = shown]]
  BY DEF refreshed
<1>5. UNCHANGED <<organization, identities>>
  BY DEF refreshed
<1>. HIDE DEF v, shown
<1>6. /\ [users[v] EXCEPT !.name = shown] \in User
      /\ [users[v] EXCEPT !.name = shown].status = users[v].status
      /\ [users[v] EXCEPT !.name = shown].organization = users[v].organization
  BY <1>2, <1>3 DEF User
<1>7. users' \in [UserIDs -> User \cup {Absent}]
  BY <1>1, <1>4, <1>6 DEF BindingTypeOK
<1>8. BindingTypeOK'
  BY <1>5, <1>7 DEF BindingTypeOK
<1>9. \A u \in UserIDs : /\ users'[u].status = users[u].status
                         /\ users'[u].organization = users[u].organization
  BY <1>1, <1>4, <1>6 DEF BindingTypeOK
<1>10. \A u \in UserIDs : users'[u] = Absent <=> users[u] = Absent
  <2>1. [users[v] EXCEPT !.name = shown].status # "absent"
    BY <1>2, <1>6 DEF User
  <2>2. [users[v] EXCEPT !.name = shown] # Absent
    BY <2>1 DEF Absent
  <2>. QED
    BY <1>1, <1>4, <2>2 DEF BindingTypeOK
<1>11. OneToOne'
  BY <1>5, <1>9, <1>10, BindingRows DEF OneToOne
<1>. QED
  BY <1>5, <1>8, <1>9, <1>11 DEF KeysStay, DisabledUsersStay

LEMMA ProvisionKeeps ==
  ASSUME BindingTypeOK, OneToOne, NEW k \in Keys, NEW name \in Names \cup {NoName},
         NEW u \in UserIDs, identities[k] = Absent, provisioned(k, name, u)
  PROVE  /\ BindingTypeOK' /\ OneToOne' /\ KeysStay /\ DisabledUsersStay
         /\ identities'[k] # Absent /\ identities'[k].user = u
<1>. DEFINE row == [status |-> "active", organization |-> Own,
                    name |-> profile(name, DefaultName)]
            bond == [status |-> "active", organization |-> Own, user |-> u]
<1>1. row \in User /\ bond \in Identity
  BY DEF User, Identity, profile
<1>2. /\ row # Absent /\ bond # Absent
      /\ row.organization = Own /\ bond.organization = Own /\ bond.user = u
  <2>1. row.status # Absent.status /\ bond.status # Absent.status
    BY DEF Absent
  <2>. QED
    BY <2>1
<1>3. /\ users' = [users EXCEPT ![u] = row]
      /\ identities' = [identities EXCEPT ![k] = bond]
      /\ organization' = organization /\ users[u] = Absent
  BY DEF provisioned
<1>. HIDE DEF row, bond
<1>4. /\ users'[u] = row /\ \A v \in UserIDs \ {u} : users'[v] = users[v]
      /\ identities'[k] = bond
      /\ \A l \in Keys \ {k} : identities'[l] = identities[l]
  BY <1>3 DEF BindingTypeOK
<1>5. BindingTypeOK'
  BY <1>1, <1>3 DEF BindingTypeOK
<1>6. \A l \in Keys : identities[l] # Absent => identities[l].user # u
  BY <1>3 DEF OneToOne
<1>7. OneToOne'
  <2>1. ASSUME NEW l \in Keys, identities'[l] # Absent
        PROVE  /\ users'[identities'[l].user] # Absent
               /\ users'[identities'[l].user].organization =
                    identities'[l].organization
               /\ \A m \in Keys \ {l} :
                     identities'[m] = Absent \/ identities'[m].user # identities'[l].user
    <3>1. CASE l = k
      BY <1>2, <1>4, <1>6, <3>1
    <3>2. CASE l # k
      <4>1. identities'[l] = identities[l] /\ identities[l].user \in UserIDs \ {u}
        BY <1>4, <1>6, <2>1, <3>2, BindingRows
      <4>. QED
        BY <1>2, <1>4, <2>1, <4>1 DEF OneToOne
    <3>. QED
      BY <3>1, <3>2
  <2>2. ASSUME NEW v \in UserIDs, users'[v] # Absent
        PROVE  \E l \in Keys : identities'[l] # Absent /\ identities'[l].user = v
    <3>1. CASE v = u
      BY <1>2, <1>4, <3>1
    <3>2. CASE v # u
      <4>1. PICK l \in Keys : identities[l] # Absent /\ identities[l].user = v
        BY <1>4, <2>2, <3>2 DEF OneToOne
      <4>2. l # k
        BY <4>1
      <4>. QED
        BY <1>4, <4>1, <4>2
    <3>. QED
      BY <3>1, <3>2
  <2>. QED
    BY <2>1, <2>2 DEF OneToOne
<1>8. KeysStay
  BY <1>4 DEF KeysStay
<1>9. DisabledUsersStay
  <2>1. users[u].status = "absent"
    BY <1>3 DEF Absent
  <2>. QED
    BY <1>4, <2>1 DEF DisabledUsersStay
<1>. QED
  BY <1>2, <1>4, <1>5, <1>7, <1>8, <1>9

LEMMA DisablingKeeps ==
  ASSUME BindingTypeOK, OneToOne, Disabling
  PROVE  BindingTypeOK' /\ OneToOne' /\ KeysStay /\ DisabledUsersStay
<1>1. CASE DisableOrganization
  BY <1>1 DEF DisableOrganization, BindingTypeOK, OneToOne, KeysStay,
              DisabledUsersStay
<1>2. ASSUME NEW k \in Keys, DisableExternalIdentity(k)
      PROVE  BindingTypeOK' /\ OneToOne' /\ KeysStay /\ DisabledUsersStay
  <2>. DEFINE bond == [identities[k] EXCEPT !.status = "disabled"]
  <2>1. identities[k] # Absent
    BY <1>2, BindingRows DEF DisableExternalIdentity
  <2>2. identities[k] \in Identity
    BY <2>1, BindingRows
  <2>3. /\ bond \in Identity /\ bond.status = "disabled"
        /\ bond.organization = identities[k].organization
        /\ bond.user = identities[k].user
    BY <2>2 DEF Identity
  <2>4. bond # Absent
    BY <2>3 DEF Absent
  <2>5. identities' = [identities EXCEPT ![k] = bond]
        /\ UNCHANGED <<organization, users>>
    BY <1>2 DEF DisableExternalIdentity
  <2>. HIDE DEF bond
  <2>6. /\ identities'[k] = bond
        /\ \A l \in Keys \ {k} : identities'[l] = identities[l]
    BY <2>5 DEF BindingTypeOK
  <2>7. BindingTypeOK'
    BY <2>3, <2>5 DEF BindingTypeOK
  <2>8. \A l \in Keys : /\ identities'[l] = Absent <=> identities[l] = Absent
                        /\ identities[l] # Absent =>
                             /\ identities'[l].user = identities[l].user
                             /\ identities'[l].organization = identities[l].organization
    BY <2>1, <2>3, <2>4, <2>6
  <2>9. OneToOne'
    BY <2>5, <2>8 DEF OneToOne
  <2>10. KeysStay
    BY <2>3, <2>6, <2>8 DEF KeysStay
  <2>. QED
    BY <2>5, <2>7, <2>9, <2>10 DEF DisabledUsersStay
<1>3. ASSUME NEW u \in UserIDs, DisableMember(u)
      PROVE  BindingTypeOK' /\ OneToOne' /\ KeysStay /\ DisabledUsersStay
  <2>. DEFINE row == [users[u] EXCEPT !.status = "disabled"]
  <2>1. users[u] # Absent
    BY <1>3, BindingRows DEF DisableMember
  <2>2. users[u] \in User
    BY <2>1, BindingRows
  <2>3. /\ row \in User /\ row.status = "disabled"
        /\ row.organization = users[u].organization
    BY <2>2 DEF User
  <2>4. row # Absent
    BY <2>3 DEF Absent
  <2>5. users' = [users EXCEPT ![u] = row] /\ UNCHANGED <<organization, identities>>
    BY <1>3 DEF DisableMember
  <2>. HIDE DEF row
  <2>6. /\ users'[u] = row /\ \A v \in UserIDs \ {u} : users'[v] = users[v]
    BY <2>5 DEF BindingTypeOK
  <2>7. BindingTypeOK'
    BY <2>3, <2>5 DEF BindingTypeOK
  <2>8. \A v \in UserIDs : /\ users'[v] = Absent <=> users[v] = Absent
                           /\ users'[v].organization = users[v].organization
    BY <2>1, <2>3, <2>4, <2>6
  <2>9. OneToOne'
    BY <2>5, <2>8, BindingRows DEF OneToOne
  <2>10. DisabledUsersStay
    BY <2>3, <2>6 DEF DisabledUsersStay
  <2>. QED
    BY <2>5, <2>7, <2>9, <2>10 DEF KeysStay
<1>. QED
  BY <1>1, <1>2, <1>3 DEF Disabling

LEMMA BindingKeeps ==
  ASSUME BindingTypeOK, OneToOne, BindingStep
  PROVE  BindingTypeOK' /\ OneToOne' /\ KeysStay /\ DisabledUsersStay
<1>1. ASSUME NEW k \in Keys, NEW name \in Names \cup {NoName}, NEW u \in UserIDs,
             Resolved(k, name, u)
      PROVE  BindingTypeOK' /\ OneToOne' /\ KeysStay /\ DisabledUsersStay
  <2>1. CASE identities[k] # Absent
    BY <1>1, <2>1, RefreshKeeps DEF Resolved, known
  <2>2. CASE identities[k] = Absent
    BY <1>1, <2>2, ProvisionKeeps DEF Resolved, known
  <2>. QED
    BY <2>1, <2>2
<1>2. CASE UNCHANGED bindingVars
  BY <1>2 DEF bindingVars, BindingTypeOK, OneToOne, KeysStay, DisabledUsersStay
<1>. QED
  BY <1>1, <1>2, DisablingKeeps DEF BindingStep

(* Who was let in is who the key is bound to.                              *)
LEMMA ResolvedIsBound ==
  ASSUME BindingTypeOK, OneToOne, NEW k \in Keys,
         NEW name \in Names \cup {NoName}, NEW u \in UserIDs, Resolved(k, name, u)
  PROVE  identities'[k] # Absent /\ identities'[k].user = u
<1>1. CASE identities[k] # Absent
  BY <1>1 DEF Resolved, known, refreshed
<1>2. CASE identities[k] = Absent
  BY <1>2, ProvisionKeeps DEF Resolved, known
<1>. QED
  BY <1>1, <1>2

-----------------------------------------------------------------------------
(* Requests in hand.                                                       *)

LEMMA RequestFields ==
  ASSUME NEW r \in Request
  PROVE  /\ r.stage \in {"idle", "received", "valid", "clocked", "consumed",
                         "resolved", "handled", "rejected"}
         /\ r.stage # "idle" => r.assertion \in Assertion
         /\ r.stage \in {"clocked", "consumed", "rejected"} => r.at \in 0..MaxTime
         /\ r.stage \in {"resolved", "handled"} => r.user \in UserIDs
         /\ r.stage = "idle" => r = Idle
         /\ r.stage \in {"received", "valid"} =>
              r = [stage |-> r.stage, assertion |-> r.assertion]
         /\ r.stage \in {"clocked", "consumed"} =>
              r = [stage |-> r.stage, assertion |-> r.assertion, at |-> r.at]
         /\ r.stage \in {"resolved", "handled"} =>
              r = [stage |-> r.stage, assertion |-> r.assertion, user |-> r.user]
  BY DEF Request, Idle

(* What one step makes of a request.                                       *)
Rejects(old, new) ==
    /\ old.stage # "idle"
    /\ \E at \in 0..MaxTime :
          new = [stage |-> "rejected", assertion |-> old.assertion, at |-> at]

Moves(d, old, new) ==
    \/ new = old
    \/ Rejects(old, new)
    \/ /\ old.stage = "idle"
       /\ \E a \in signed : new = [stage |-> "received", assertion |-> a]
    \/ /\ old.stage = "received"
       /\ new = [stage |-> "valid", assertion |-> old.assertion]
       /\ old.assertion.exp <= old.assertion.iat + MaxAge
    \/ /\ old.stage = "valid"
       /\ new = [stage |-> "clocked", assertion |-> old.assertion, at |-> now]
    \/ /\ old.stage = "clocked"
       /\ new = [stage |-> "consumed", assertion |-> old.assertion, at |-> old.at]
       /\ \E x \in accepted' : x.by = d /\ x.nonce = old.assertion.nonce
    \/ /\ old.stage = "consumed"
       /\ \E u \in UserIDs :
             /\ new = [stage |-> "resolved", assertion |-> old.assertion, user |-> u]
             /\ Resolved(old.assertion.key, old.assertion.name, u)
    \/ /\ old.stage = "resolved"
       /\ new = [stage |-> "handled", assertion |-> old.assertion, user |-> old.user]
       /\ d \in audit'

(* The same, field by field.                                               *)
LEMMA MovedFields ==
  ASSUME NEW d, NEW old, NEW new, Moves(d, old, new), new # old
  PROVE  \/ new.stage = "rejected" /\ old.stage # "idle"
            /\ new.assertion = old.assertion
         \/ new.stage = "received" /\ new.assertion \in signed
         \/ /\ new.assertion = old.assertion
            /\ \/ /\ new.stage = "valid" /\ old.stage = "received"
                  /\ old.assertion.exp <= old.assertion.iat + MaxAge
               \/ new.stage = "clocked" /\ old.stage = "valid" /\ new.at = now
               \/ /\ new.stage = "consumed" /\ old.stage = "clocked"
                  /\ \E x \in accepted' : x.by = d /\ x.nonce = old.assertion.nonce
               \/ /\ new.stage = "resolved" /\ old.stage = "consumed"
                  /\ new.user \in UserIDs
                  /\ Resolved(old.assertion.key, old.assertion.name, new.user)
               \/ /\ new.stage = "handled" /\ old.stage = "resolved"
                  /\ new.user = old.user /\ d \in audit'
<1>1. CASE Rejects(old, new)
  BY <1>1 DEF Rejects
<1>2. CASE old.stage = "idle" /\ \E a \in signed : new = [stage |-> "received", assertion |-> a]
  BY <1>2
<1>3. CASE /\ old.stage = "received"
           /\ new = [stage |-> "valid", assertion |-> old.assertion]
           /\ old.assertion.exp <= old.assertion.iat + MaxAge
  BY <1>3
<1>4. CASE /\ old.stage = "valid"
           /\ new = [stage |-> "clocked", assertion |-> old.assertion, at |-> now]
  BY <1>4
<1>5. CASE /\ old.stage = "clocked"
           /\ new = [stage |-> "consumed", assertion |-> old.assertion, at |-> old.at]
           /\ \E x \in accepted' : x.by = d /\ x.nonce = old.assertion.nonce
  BY <1>5
<1>6. ASSUME old.stage = "consumed", NEW u \in UserIDs,
             new = [stage |-> "resolved", assertion |-> old.assertion, user |-> u],
             Resolved(old.assertion.key, old.assertion.name, u)
      PROVE  /\ new.stage = "resolved" /\ new.user \in UserIDs
             /\ new.assertion = old.assertion
             /\ Resolved(old.assertion.key, old.assertion.name, new.user)
  <2>1. new.user = u /\ new.stage = "resolved" /\ new.assertion = old.assertion
    BY <1>6
  <2>. QED
    BY <1>6, <2>1
<1>7. CASE /\ old.stage = "resolved"
           /\ new = [stage |-> "handled", assertion |-> old.assertion, user |-> old.user]
           /\ d \in audit'
  BY <1>7
<1>. QED
  BY <1>1, <1>2, <1>3, <1>4, <1>5, <1>6, <1>7 DEF Moves

LEMMA MoveOne ==
  ASSUME Types, NEW d \in Deliveries, NEW new \in Request,
         requests' = [requests EXCEPT ![d] = new],
         Moves(d, requests[d], new)
  PROVE  /\ \A c \in Deliveries : Moves(c, requests[c], requests'[c])
         /\ requests' \in [Deliveries -> Request]
  BY DEF Types, Moves

LEMMA AnsweredMoves ==
  ASSUME Types, NEW d \in Deliveries, stage(d) # "idle", answered(d)
  PROVE  /\ \A c \in Deliveries : Moves(c, requests[c], requests'[c])
         /\ requests' \in [Deliveries -> Request]
<1>. DEFINE r == requests[d]
            new == [stage |-> "rejected", assertion |-> r.assertion, at |-> now]
<1>1. now \in 0..MaxTime /\ r \in Request /\ r.assertion \in Assertion
  BY RequestFields DEF Types, TypeOK, stage
<1>2. new \in Request
  BY <1>1 DEF Request
<1>3. Moves(d, r, new)
  BY <1>1 DEF Moves, Rejects, stage
<1>4. requests' = [requests EXCEPT ![d] = new]
  BY DEF answered
<1>. HIDE DEF r, new
<1>. QED
  BY <1>2, <1>3, <1>4, MoveOne DEF r

LEMMA ReceiveMoves ==
  ASSUME Types, NEW d \in Deliveries, NEW a \in signed, Receive(d, a)
  PROVE  /\ \A c \in Deliveries : Moves(c, requests[c], requests'[c])
         /\ requests' \in [Deliveries -> Request]
<1>. DEFINE new == [stage |-> "received", assertion |-> a]
<1>1. new \in Request
  BY DEF Types, TypeOK, Request
<1>2. Moves(d, requests[d], new) /\ requests' = [requests EXCEPT ![d] = new]
  BY DEF Receive, stage, Moves
<1>. HIDE DEF new
<1>. QED
  BY <1>1, <1>2, MoveOne

LEMMA ValidateMoves ==
  ASSUME Types, NEW d \in Deliveries, Validate(d)
  PROVE  /\ \A c \in Deliveries : Moves(c, requests[c], requests'[c])
         /\ requests' \in [Deliveries -> Request]
<1>. DEFINE r == requests[d]
            new == [stage |-> "valid", assertion |-> r.assertion]
<1>1. r \in Request /\ r.stage = "received"
  BY DEF Types, TypeOK, Validate, stage
<1>2. /\ r.assertion \in Assertion
      /\ r = [stage |-> "received", assertion |-> r.assertion]
  BY <1>1, RequestFields
<1>3. CASE validClaims(r.assertion)
  <2>1. requests' = [requests EXCEPT ![d] = [r EXCEPT !.stage = "valid"]]
    BY <1>3 DEF Validate
  <2>2. [r EXCEPT !.stage = "valid"] = new
    BY <1>2
  <2>3. new \in Request
    BY <1>2 DEF Request
  <2>4. r.assertion.exp <= r.assertion.iat + MaxAge
    BY <1>2, <1>3, BffAssumption DEF validClaims, Assertion
  <2>5. Moves(d, r, new)
    BY <1>1, <2>4 DEF Moves
  <2>6. requests' = [requests EXCEPT ![d] = new]
    BY <2>1, <2>2
  <2>. HIDE DEF r, new
  <2>. QED
    BY <2>3, <2>5, <2>6, MoveOne DEF r
<1>4. CASE ~validClaims(r.assertion)
  BY <1>1, <1>4, AnsweredMoves DEF Validate, stage
<1>. QED
  BY <1>3, <1>4

LEMMA ReadClockMoves ==
  ASSUME Types, NEW d \in Deliveries, ReadClock(d)
  PROVE  /\ \A c \in Deliveries : Moves(c, requests[c], requests'[c])
         /\ requests' \in [Deliveries -> Request]
<1>. DEFINE r == requests[d]
            new == [stage |-> "clocked", assertion |-> r.assertion, at |-> now]
<1>1. r \in Request /\ r.stage = "valid" /\ now \in 0..MaxTime
  BY DEF Types, TypeOK, ReadClock, stage
<1>2. new \in Request
  BY <1>1, RequestFields DEF Request
<1>3. Moves(d, r, new) /\ requests' = [requests EXCEPT ![d] = new]
  BY <1>1 DEF Moves, ReadClock
<1>. HIDE DEF r, new
<1>. QED
  BY <1>2, <1>3, MoveOne DEF r

LEMMA ConsumeMoves ==
  ASSUME Types, NEW d \in Deliveries, Consume(d)
  PROVE  /\ \A c \in Deliveries : Moves(c, requests[c], requests'[c])
         /\ requests' \in [Deliveries -> Request]
<1>. DEFINE r == requests[d]
            a == r.assertion
            refused == [stage |-> "rejected", assertion |-> a, at |-> r.at]
            taken == [stage |-> "consumed", assertion |-> a, at |-> r.at]
<1>1. r \in Request /\ r.stage = "clocked"
  BY DEF Types, TypeOK, Consume, stage
<1>2. /\ a \in Assertion /\ r.at \in 0..MaxTime
      /\ r = [stage |-> "clocked", assertion |-> a, at |-> r.at]
  BY <1>1, RequestFields
<1>3. refused \in Request /\ taken \in Request
  BY <1>2 DEF Request
<1>4. CASE refuses(pruned(r.at), a.nonce)
  <2>1. requests' = [requests EXCEPT ![d] = [r EXCEPT !.stage = "rejected"]]
    BY <1>4 DEF Consume
  <2>2. [r EXCEPT !.stage = "rejected"] = refused
    BY <1>2
  <2>3. Moves(d, r, refused)
    BY <1>1, <1>2 DEF Moves, Rejects
  <2>4. requests' = [requests EXCEPT ![d] = refused]
    BY <2>1, <2>2
  <2>. HIDE DEF r, refused
  <2>. QED
    BY <1>3, <2>3, <2>4, MoveOne DEF r
<1>5. CASE ~refuses(pruned(r.at), a.nonce)
  <2>. DEFINE x == [nonce |-> a.nonce, exp |-> a.exp, at |-> now, run |-> run, by |-> d]
  <2>1. /\ requests' = [requests EXCEPT ![d] = [r EXCEPT !.stage = "consumed"]]
        /\ accepted' = accepted \cup {x}
    BY <1>5 DEF Consume
  <2>2. [r EXCEPT !.stage = "consumed"] = taken
    BY <1>2
  <2>3. x.by = d /\ x.nonce = a.nonce
    OBVIOUS
  <2>4. \E y \in accepted' : y.by = d /\ y.nonce = a.nonce
    BY <2>1, <2>3
  <2>5. Moves(d, r, taken)
    BY <1>1, <2>4 DEF Moves
  <2>6. requests' = [requests EXCEPT ![d] = taken]
    BY <2>1, <2>2
  <2>. HIDE DEF r, taken
  <2>. QED
    BY <1>3, <2>5, <2>6, MoveOne DEF r
<1>. QED
  BY <1>4, <1>5

LEMMA ResolveMoves ==
  ASSUME Types, NEW d \in Deliveries, Resolve(d)
  PROVE  /\ \A c \in Deliveries : Moves(c, requests[c], requests'[c])
         /\ requests' \in [Deliveries -> Request]
<1>. DEFINE r == requests[d]
<1>1. r \in Request /\ r.stage = "consumed"
  BY DEF Types, TypeOK, Resolve, stage
<1>2. ASSUME NEW u \in UserIDs, Resolved(r.assertion.key, r.assertion.name, u),
             requests' = [requests EXCEPT ![d] =
                [stage |-> "resolved", assertion |-> r.assertion, user |-> u]]
      PROVE  /\ \A c \in Deliveries : Moves(c, requests[c], requests'[c])
             /\ requests' \in [Deliveries -> Request]
  <2>. DEFINE new == [stage |-> "resolved", assertion |-> r.assertion, user |-> u]
  <2>1. new \in Request
    BY <1>1, RequestFields DEF Request
  <2>2. Moves(d, r, new) /\ requests' = [requests EXCEPT ![d] = new]
    BY <1>1, <1>2 DEF Moves
  <2>. HIDE DEF r, new
  <2>. QED
    BY <2>1, <2>2, MoveOne DEF r
<1>. QED
  BY <1>1, <1>2, AnsweredMoves DEF Resolve, stage

LEMMA HandleMoves ==
  ASSUME Types, NEW d \in Deliveries, Handle(d)
  PROVE  /\ \A c \in Deliveries : Moves(c, requests[c], requests'[c])
         /\ requests' \in [Deliveries -> Request]
<1>. DEFINE r == requests[d]
            new == [stage |-> "handled", assertion |-> r.assertion, user |-> r.user]
<1>1. r \in Request /\ r.stage = "resolved"
  BY DEF Types, TypeOK, Handle, stage
<1>2. /\ r.assertion \in Assertion /\ r.user \in UserIDs
      /\ r = [stage |-> "resolved", assertion |-> r.assertion, user |-> r.user]
  BY <1>1, RequestFields
<1>3. CASE recorded(d) /\ requests' = [requests EXCEPT ![d] = [r EXCEPT !.stage = "handled"]]
  <2>1. new \in Request
    BY <1>2 DEF Request
  <2>2. [r EXCEPT !.stage = "handled"] = new
    BY <1>2
  <2>3. Moves(d, r, new) /\ requests' = [requests EXCEPT ![d] = new]
    BY <1>1, <1>3, <2>2 DEF Moves, recorded
  <2>. HIDE DEF r, new
  <2>. QED
    BY <2>1, <2>3, MoveOne DEF r
<1>. QED
  BY <1>1, <1>3, AnsweredMoves DEF Handle, stage

LEMMA RestartMoves ==
  ASSUME Types, Restart
  PROVE  /\ \A c \in Deliveries : Moves(c, requests[c], requests'[c])
         /\ requests' \in [Deliveries -> Request]
<1>1. now \in 0..MaxTime
  BY DEF Types, TypeOK
<1>2. ASSUME NEW c \in Deliveries
      PROVE  Moves(c, requests[c], requests'[c]) /\ requests'[c] \in Request
  <2>1. requests[c] \in Request
    BY DEF Types
  <2>2. CASE stage(c) \in {"idle", "handled", "rejected"}
    <3>1. requests'[c] = requests[c]
      BY <2>2 DEF Restart
    <3>. QED
      BY <2>1, <3>1 DEF Moves
  <2>3. CASE stage(c) \notin {"idle", "handled", "rejected"}
    <3>1. requests'[c] =
            [stage |-> "rejected", assertion |-> requests[c].assertion, at |-> now]
      BY <2>3 DEF Restart
    <3>2. requests[c].assertion \in Assertion
      BY <2>1, <2>3, RequestFields DEF stage
    <3>. QED
      BY <1>1, <2>3, <3>1, <3>2 DEF Moves, Rejects, Request, stage
  <2>. QED
    BY <2>2, <2>3
<1>3. requests' = [c \in Deliveries |-> requests'[c]]
  BY DEF Restart
<1>. QED
  BY <1>2, <1>3

LEMMA StepMoves ==
  ASSUME Types, [Next]_vars
  PROVE  /\ \A c \in Deliveries : Moves(c, requests[c], requests'[c])
         /\ requests' \in [Deliveries -> Request]
<1>1. ASSUME UNCHANGED requests
      PROVE  /\ \A c \in Deliveries : Moves(c, requests[c], requests'[c])
             /\ requests' \in [Deliveries -> Request]
  BY <1>1 DEF Types, Moves
<1>2. ASSUME NEW a \in Assertion, Sign(a)
      PROVE  UNCHANGED requests
  BY <1>2 DEF Sign
<1>3. CASE Disabling /\ UNCHANGED <<cacheVars, requests, audit>>
  BY <1>1, <1>3
<1>4. CASE Tick
  BY <1>1, <1>4 DEF Tick
<1>5. CASE UNCHANGED vars
  BY <1>1, <1>5 DEF vars
<1>. QED
  BY <1>1, <1>2, <1>3, <1>4, <1>5, ReceiveMoves, ValidateMoves, ReadClockMoves,
     ConsumeMoves, ResolveMoves, HandleMoves, RestartMoves DEF Next

-----------------------------------------------------------------------------
(* What a step can do to everything else.                                  *)

LEMMA StepBinds ==
  ASSUME Types, [Next]_vars
  PROVE  BindingStep
<1>1. ASSUME NEW d \in Deliveries, Resolve(d)
      PROVE  BindingStep
  <2>. DEFINE a == requests[d].assertion
  <2>1. requests[d] \in Request /\ requests[d].stage = "consumed"
    BY <1>1 DEF Types, Resolve, stage
  <2>2. a.key \in Keys /\ a.name \in Names \cup {NoName}
    BY <2>1, RequestFields DEF Assertion
  <2>. QED
    BY <1>1, <2>2 DEF Resolve, NotResolved, BindingStep
<1>2. (\A d \in Deliveries : ~Resolve(d)) => Disabling \/ UNCHANGED bindingVars
  BY DEF Next, Sign, Receive, Validate, ReadClock, Consume, Handle, Restart, Tick,
         vars
<1>. QED
  BY <1>1, <1>2 DEF BindingStep

LEMMA StepGrows ==
  ASSUME Types, [Next]_vars
  PROVE  /\ signed \subseteq signed' /\ accepted \subseteq accepted'
         /\ audit \subseteq audit' /\ now <= now'
         /\ now' \in 0..MaxTime /\ run' \in 0..MaxRestarts
         /\ audit' \subseteq Deliveries /\ signed' \subseteq Assertion
<1>1. now \in 0..MaxTime /\ run \in 0..MaxRestarts /\ MaxTime \in Nat /\ MaxRestarts \in Nat
      /\ audit \subseteq Deliveries /\ signed \subseteq Assertion
  BY BffAssumption DEF Types, TypeOK
<1>2. ASSUME NEW a \in Assertion, Sign(a)
      PROVE  signed \subseteq signed' /\ signed' \subseteq Assertion
             /\ UNCHANGED <<now, accepted, run, audit>>
  BY <1>1, <1>2 DEF Sign
<1>3. ASSUME NEW d \in Deliveries, Consume(d)
      PROVE  accepted \subseteq accepted' /\ UNCHANGED <<now, signed, run, audit>>
  BY <1>3 DEF Consume
<1>4. ASSUME NEW d \in Deliveries, Handle(d)
      PROVE  audit \subseteq audit' /\ audit' \subseteq Deliveries
             /\ UNCHANGED <<now, signed, run, accepted>>
  BY <1>1, <1>4 DEF Handle, recorded, cacheVars
<1>5. CASE Restart
  BY <1>1, <1>5 DEF Restart
<1>6. CASE Tick
  BY <1>1, <1>6 DEF Tick
<1>7. CASE UNCHANGED <<now, signed, accepted, run, audit>>
  BY <1>1, <1>7
<1>8. ASSUME NEW d \in Deliveries, Validate(d) \/ ReadClock(d) \/ Resolve(d)
      PROVE  UNCHANGED <<now, signed, accepted, run, audit>>
  BY <1>8 DEF Validate, ReadClock, Resolve, cacheVars
<1>9. ASSUME NEW d \in Deliveries, NEW a \in signed, Receive(d, a)
      PROVE  UNCHANGED <<now, signed, accepted, run, audit>>
  BY <1>9 DEF Receive, cacheVars
<1>10. CASE Disabling /\ UNCHANGED <<cacheVars, requests, audit>>
  BY <1>7, <1>10 DEF cacheVars
<1>11. CASE UNCHANGED vars
  BY <1>7, <1>11 DEF vars, cacheVars
<1>. QED
  BY <1>1, <1>2, <1>3, <1>4, <1>5, <1>6, <1>7, <1>8, <1>9, <1>10, <1>11 DEF Next

LEMMA SignedStep ==
  ASSUME Types, SignedOnce, [Next]_vars
  PROVE  SignedOnce'
<1>1. ASSUME NEW a \in Assertion, Sign(a)
      PROVE  SignedOnce'
  BY <1>1 DEF Sign, SignedOnce
<1>2. (\A a \in Assertion : ~Sign(a)) => UNCHANGED signed
  BY DEF Next, Receive, Validate, ReadClock, Consume, Resolve, Handle, Restart,
         Tick, vars, cacheVars
<1>. QED
  BY <1>1, <1>2 DEF SignedOnce

LEMMA InHandStep ==
  ASSUME Types, InHand, [Next]_vars
  PROVE  InHand'
<1>. SUFFICES ASSUME NEW d \in Deliveries
              PROVE  LET r == requests'[d]
                     IN  /\ r.stage # "idle" => r.assertion \in signed'
                         /\ r.stage \in {"valid", "clocked", "consumed", "resolved",
                                         "handled"} =>
                              r.assertion.exp <= r.assertion.iat + MaxAge
                         /\ r.stage = "clocked" => r.at <= now'
  BY DEF InHand, stage
<1>. DEFINE old == requests[d]
            new == requests'[d]
<1>1. /\ old.stage # "idle" => old.assertion \in signed
      /\ old.stage \in {"valid", "clocked", "consumed", "resolved", "handled"} =>
           old.assertion.exp <= old.assertion.iat + MaxAge
      /\ old.stage = "clocked" => old.at <= now
  BY DEF InHand, stage
<1>2. signed \subseteq signed' /\ now <= now' /\ now \in Nat /\ now' \in Nat
  BY StepGrows DEF Types, TypeOK
<1>3. Moves(d, old, new)
  BY StepMoves
<1>4. old.stage = "clocked" => old.at \in Nat
  BY RequestFields DEF Types
<1>. HIDE DEF old, new
<1>5. CASE new = old
  BY <1>1, <1>2, <1>4, <1>5 DEF new
<1>6. CASE new # old
  BY <1>1, <1>2, <1>3, <1>6, MovedFields DEF new
<1>. QED
  BY <1>5, <1>6

LEMMA AccountableStep ==
  ASSUME Types, OneToOne, Accountable, [Next]_vars
  PROVE  Accountable'
<1>. SUFFICES ASSUME NEW d \in Deliveries
              PROVE  LET r == requests'[d]
                     IN  /\ r.stage \in {"consumed", "resolved", "handled"} =>
                              \E x \in accepted' :
                                 x.by = d /\ x.nonce = r.assertion.nonce
                         /\ r.stage \in {"resolved", "handled"} =>
                              /\ identities'[r.assertion.key] # Absent
                              /\ identities'[r.assertion.key].user = r.user
                         /\ r.stage = "handled" => d \in audit'
  BY DEF Accountable, stage
<1>. DEFINE old == requests[d]
            new == requests'[d]
<1>1. /\ old.stage \in {"consumed", "resolved", "handled"} =>
           \E x \in accepted : x.by = d /\ x.nonce = old.assertion.nonce
      /\ old.stage \in {"resolved", "handled"} =>
           /\ identities[old.assertion.key] # Absent
           /\ identities[old.assertion.key].user = old.user
      /\ old.stage = "handled" => d \in audit
  BY DEF Accountable, stage
<1>2. accepted \subseteq accepted' /\ audit \subseteq audit'
  BY StepGrows
<1>3. BindingTypeOK
  BY DEF Types, TypeOK
<1>4. KeysStay
  BY <1>3, StepBinds, BindingKeeps
<1>5. old \in Request /\ (old.stage # "idle" => /\ old.assertion.key \in Keys
                                               /\ old.assertion.name \in Names \cup {NoName})
  BY RequestFields DEF Types, Assertion
<1>6. old.stage \in {"resolved", "handled"} =>
        /\ identities'[old.assertion.key] # Absent
        /\ identities'[old.assertion.key].user = old.user
  BY <1>1, <1>4, <1>5 DEF KeysStay
<1>7. ASSUME NEW u \in UserIDs, old.stage = "consumed",
             Resolved(old.assertion.key, old.assertion.name, u)
      PROVE  /\ identities'[old.assertion.key] # Absent
             /\ identities'[old.assertion.key].user = u
  BY <1>3, <1>5, <1>7, ResolvedIsBound
<1>8. Moves(d, old, new)
  BY StepMoves
<1>. HIDE DEF old, new
<1>9. CASE new = old
  BY <1>1, <1>2, <1>6, <1>9 DEF new
<1>10. CASE new # old
  BY <1>1, <1>2, <1>6, <1>7, <1>8, <1>10, MovedFields DEF new
<1>. QED
  BY <1>9, <1>10

-----------------------------------------------------------------------------
(* The cache.                                                              *)

CacheEntry == [nonce : Nonces, exp : 1..(MaxTime + Skew + MaxAge + 2)]

Acceptance ==
    [nonce : Nonces, exp : 1..(MaxTime + Skew + MaxAge + 2),
     at : 0..MaxTime, run : 0..MaxRestarts, by : Deliveries]

CacheTypes ==
    consumed \subseteq CacheEntry /\ accepted \subseteq Acceptance
    /\ IsFiniteSet(accepted)

CacheInvariant ==
    CacheTypes /\ AcceptedWasSigned /\ CacheWasAccepted /\ CacheRemembers
    /\ AcceptedOnce

LEMMA ConsumeStep ==
  ASSUME Types, SignedOnce, InHand, CacheInvariant,
         NEW d \in Deliveries, Consume(d)
  PROVE  CacheInvariant'
<1>. DEFINE r == requests[d]
            a == r.assertion
            cache == pruned(r.at)
            entry == [nonce |-> a.nonce, exp |-> a.exp]
            x == [nonce |-> a.nonce, exp |-> a.exp, at |-> now, run |-> run, by |-> d]
<1>1. /\ r \in Request /\ r.stage = "clocked"
      /\ a \in signed /\ r.at <= now
      /\ UNCHANGED <<now, signed, run>>
  BY DEF Types, Consume, InHand, stage
<1>2. /\ a \in Assertion /\ r.at \in Nat /\ now \in 0..MaxTime /\ now \in Nat
      /\ run \in 0..MaxRestarts
  BY <1>1, RequestFields, BffAssumption DEF Types, TypeOK
<1>3. entry \in CacheEntry /\ x \in Acceptance
  BY <1>2 DEF CacheEntry, Acceptance, Assertion
<1>4. /\ cache = {e \in consumed : e.exp > r.at}
      /\ consumed \subseteq CacheEntry /\ accepted \subseteq Acceptance
  BY DEF pruned, CacheInvariant, CacheTypes
<1>5. /\ entry.nonce = a.nonce /\ entry.exp = a.exp
      /\ x.nonce = a.nonce /\ x.exp = a.exp /\ x.at = now /\ x.run = run
  OBVIOUS
<1>6. ASSUME NEW y \in accepted, y.run = run, y.exp > now
      PROVE  [nonce |-> y.nonce, exp |-> y.exp] \in cache
  <2>1. [nonce |-> y.nonce, exp |-> y.exp] \in consumed
    BY <1>6 DEF CacheInvariant, CacheRemembers
  <2>2. y.exp \in Nat
    BY <1>4 DEF Acceptance
  <2>. QED
    BY <1>1, <1>2, <1>4, <1>6, <2>1, <2>2
<1>7. CASE refuses(cache, a.nonce)
  <2>1. consumed' = cache /\ accepted' = accepted
    BY <1>7 DEF Consume
  <2>. HIDE DEF r, a, cache, entry, x
  <2>2. CacheTypes'
    BY <1>4, <2>1 DEF CacheInvariant, CacheTypes
  <2>3. AcceptedWasSigned' /\ AcceptedOnce'
    BY <1>1, <2>1 DEF CacheInvariant, AcceptedWasSigned, AcceptedOnce
  <2>4. CacheWasAccepted'
    BY <1>1, <1>4, <2>1 DEF CacheInvariant, CacheWasAccepted
  <2>5. CacheRemembers'
    BY <1>1, <1>6, <2>1 DEF CacheRemembers
  <2>. QED
    BY <2>2, <2>3, <2>4, <2>5 DEF CacheInvariant
<1>8. CASE ~refuses(cache, a.nonce)
  <2>1. consumed' = cache \cup {entry} /\ accepted' = accepted \cup {x}
    BY <1>8 DEF Consume
  <2>2. \A e \in cache : e.nonce # a.nonce
    BY <1>8 DEF refuses
  <2>3. entry = [nonce |-> x.nonce, exp |-> x.exp]
    OBVIOUS
  <2>. HIDE DEF r, a, cache, entry, x
  <2>4. IsFiniteSet(accepted')
    BY <2>1, FS_AddElement DEF CacheInvariant, CacheTypes
  <2>5. CacheTypes'
    BY <1>3, <1>4, <2>1, <2>4 DEF CacheTypes
  <2>6. AcceptedWasSigned'
    BY <1>1, <1>2, <1>5, <2>1 DEF CacheInvariant, AcceptedWasSigned
  <2>7. CacheWasAccepted'
    BY <1>1, <1>4, <1>5, <2>1 DEF CacheInvariant, CacheWasAccepted
  <2>8. CacheRemembers'
    BY <1>1, <1>6, <2>1, <2>3 DEF CacheRemembers
  <2>9. ASSUME NEW y \in accepted, y.nonce = a.nonce, y.run = run
        PROVE  ~(now < a.exp)
    <3>1. PICK b \in signed : b.nonce = y.nonce /\ b.exp = y.exp
      BY DEF CacheInvariant, AcceptedWasSigned
    <3>2. b = a
      BY <1>1, <2>9, <3>1 DEF SignedOnce
    <3>3. y.exp > now => [nonce |-> y.nonce, exp |-> y.exp] \in cache
      BY <1>6, <2>9
    <3>4. [nonce |-> y.nonce, exp |-> y.exp] \notin cache
      <4>1. [nonce |-> y.nonce, exp |-> y.exp].nonce = a.nonce
        BY <2>9
      <4>. QED
        BY <2>2, <4>1
    <3>5. a.exp \in Nat
      BY <1>2, BffAssumption DEF Assertion
    <3>. QED
      BY <1>2, <3>1, <3>2, <3>3, <3>4, <3>5
  <2>10. AcceptedOnce'
    <3>1. ASSUME NEW y \in accepted', NEW z \in accepted',
                 y.nonce = z.nonce, y.run = z.run, y.at < y.exp, z.at < z.exp
          PROVE  y = z
      <4>1. CASE y \in accepted /\ z \in accepted
        BY <3>1, <4>1 DEF CacheInvariant, AcceptedOnce
      <4>2. CASE y = x /\ z \in accepted
        BY <1>5, <2>9, <3>1, <4>2
      <4>3. CASE z = x /\ y \in accepted
        BY <1>5, <2>9, <3>1, <4>3
      <4>. QED
        BY <2>1, <4>1, <4>2, <4>3
    <3>. QED
      BY <3>1 DEF AcceptedOnce
  <2>. QED
    BY <2>5, <2>6, <2>7, <2>8, <2>10 DEF CacheInvariant
<1>. QED
  BY <1>7, <1>8

LEMMA CacheStep ==
  ASSUME Types, SignedOnce, InHand, CacheInvariant, [Next]_vars
  PROVE  CacheInvariant'
<1>1. CASE Restart
  <2>1. /\ run' = run + 1 /\ consumed' = {}
        /\ UNCHANGED <<now, signed, accepted>>
    BY <1>1 DEF Restart
  <2>2. run \in Nat /\ \A x \in accepted : x.run \in Nat /\ x.run <= run
    BY BffAssumption
    DEF Types, TypeOK, CacheInvariant, AcceptedWasSigned, CacheTypes, Acceptance
  <2>3. CacheTypes'
    BY <2>1 DEF CacheInvariant, CacheTypes
  <2>4. AcceptedWasSigned' /\ AcceptedOnce'
    BY <2>1, <2>2 DEF CacheInvariant, AcceptedWasSigned, AcceptedOnce
  <2>5. CacheWasAccepted' /\ CacheRemembers'
    BY <2>1, <2>2 DEF CacheWasAccepted, CacheRemembers
  <2>. QED
    BY <2>3, <2>4, <2>5 DEF CacheInvariant
<1>2. ASSUME UNCHANGED <<consumed, accepted, run>>
      PROVE  CacheInvariant'
  <2>1. signed \subseteq signed' /\ now <= now' /\ now \in Nat /\ now' \in Nat
    BY StepGrows DEF Types, TypeOK
  <2>2. \A x \in accepted : x.exp \in Nat
    BY DEF CacheInvariant, CacheTypes, Acceptance
  <2>3. CacheTypes' /\ AcceptedOnce' /\ CacheWasAccepted'
    BY <1>2 DEF CacheInvariant, CacheTypes, AcceptedOnce, CacheWasAccepted
  <2>4. AcceptedWasSigned'
    BY <1>2, <2>1 DEF CacheInvariant, AcceptedWasSigned
  <2>5. CacheRemembers'
    BY <1>2, <2>1, <2>2 DEF CacheInvariant, CacheRemembers
  <2>. QED
    BY <2>3, <2>4, <2>5 DEF CacheInvariant
<1>3. (\A d \in Deliveries : ~Consume(d)) /\ ~Restart =>
         UNCHANGED <<consumed, accepted, run>>
  BY DEF Next, Sign, Receive, Validate, ReadClock, Resolve, Handle, Tick, vars,
         cacheVars
<1>. QED
  BY <1>1, <1>2, <1>3, ConsumeStep

-----------------------------------------------------------------------------
(* The theorems.                                                           *)

LEMMA TypesParts ==
  Types <=> /\ BindingTypeOK
            /\ now \in 0..MaxTime /\ run \in 0..MaxRestarts
            /\ signed \subseteq Assertion
            /\ CacheTypes
            /\ requests \in [Deliveries -> Request]
            /\ audit \subseteq Deliveries
  BY DEF Types, TypeOK, CacheTypes, CacheEntry, Acceptance

LEMMA InitIInv == Init => IInv
<1>. SUFFICES ASSUME Init PROVE IInv
  OBVIOUS
<1>1. BindingTypeOK /\ OneToOne
  BY BindingStarts DEF Init
<1>2. /\ now = 0 /\ run = 0
      /\ signed = {} /\ consumed = {} /\ accepted = {} /\ audit = {}
      /\ requests = [d \in Deliveries |-> Idle]
  BY DEF Init
<1>3. Idle \in Request /\ \A d \in Deliveries : stage(d) = "idle"
  BY <1>2 DEF Request, Idle, stage
<1>4. CacheTypes
  BY <1>2, FS_EmptySet DEF CacheTypes
<1>5. Types
  BY <1>1, <1>2, <1>3, <1>4, BffAssumption, TypesParts
<1>6. InHand /\ Accountable
  BY <1>3 DEF InHand, Accountable
<1>7. SignedOnce /\ AcceptedWasSigned /\ CacheWasAccepted /\ CacheRemembers
      /\ AcceptedOnce
  BY <1>2 DEF SignedOnce, AcceptedWasSigned, CacheWasAccepted, CacheRemembers,
              AcceptedOnce
<1>. QED
  BY <1>1, <1>5, <1>6, <1>7 DEF IInv

LEMMA IInvStep == IInv /\ [Next]_vars => IInv'
<1>. SUFFICES ASSUME IInv, [Next]_vars PROVE IInv'
  OBVIOUS
<1>1. BindingTypeOK' /\ OneToOne'
  BY TypesParts, StepBinds, BindingKeeps DEF IInv
<1>2. CacheInvariant
  BY TypesParts DEF IInv, CacheInvariant
<1>3. CacheInvariant'
  BY <1>2, CacheStep DEF IInv
<1>4. requests' \in [Deliveries -> Request]
  BY StepMoves DEF IInv
<1>5. Types'
  <2>1. /\ now' \in 0..MaxTime /\ run' \in 0..MaxRestarts
        /\ audit' \subseteq Deliveries /\ signed' \subseteq Assertion
    BY StepGrows DEF IInv
  <2>2. TypeOK'
    BY <1>1, <1>3, <1>4, <2>1
    DEF TypeOK, CacheInvariant, CacheTypes, CacheEntry, Acceptance
  <2>. QED
    BY <1>3, <1>4, <2>2 DEF Types, CacheInvariant, CacheTypes
<1>6. SignedOnce' /\ InHand' /\ Accountable'
  BY SignedStep, InHandStep, AccountableStep DEF IInv
<1>. QED
  BY <1>1, <1>3, <1>5, <1>6 DEF IInv, CacheInvariant

LEMMA IInvAlways == Spec => []IInv
  BY InitIInv, IInvStep, PTL DEF Spec

(* No run of the program accepts an assertion twice while it is valid, and *)
(* what reaches the application is audited and acts as the user its key is *)
(* bound to, for any number of requests and any size of the cache          *)
(* (bffassertion, identitybinding, bffhttp).                               *)
THEOREM BffInvariantHolds == Spec => []BffInvariant
<1>1. IInv => BffInvariant
  <2>. SUFFICES ASSUME IInv PROVE BffInvariant
    OBVIOUS
  <2>1. AcceptedIsShortLived
    BY DEF IInv, InHand, AcceptedIsShortLived
  <2>2. HandledIsAccountable
    BY DEF IInv, Accountable, HandledIsAccountable
  <2>. QED
    BY <2>1, <2>2 DEF IInv, Types, BffInvariant
<1>. QED
  BY <1>1, IInvAlways, PTL

(* A key is never bound anew, and neither it nor its user comes back after *)
(* being disabled (identitybinding).                                       *)
THEOREM IdentityIsStableHolds == Spec => IdentityIsStable
<1>1. IInv /\ [Next]_vars =>
        [/\ \A k \in Keys : identities[k] # Absent =>
              /\ identities'[k] # Absent
              /\ identities'[k].user = identities[k].user
              /\ identities'[k].organization = identities[k].organization
              /\ identities[k].status = "disabled" => identities'[k].status = "disabled"
         /\ \A u \in UserIDs : users[u].status = "disabled" => users'[u].status = "disabled"
        ]_bindingVars
  <2>. SUFFICES ASSUME IInv, [Next]_vars PROVE KeysStay /\ DisabledUsersStay
    BY DEF KeysStay, DisabledUsersStay
  <2>. QED
    BY TypesParts, StepBinds, BindingKeeps DEF IInv
<1>. QED
  BY <1>1, IInvAlways, PTL DEF IdentityIsStable, Spec

(* As many nonces are unexpired in this run's history as the cache holds.  *)
LEMMA CacheIsExplained ==
  ASSUME IInv, NEW at \in Nat
  PROVE  LET mine == {x \in accepted : x.run = run}
             S == {x.nonce : x \in {y \in mine : y.exp > at}}
         IN  Cardinality(pruned(at)) <= Cardinality(S) /\ Cardinality(S) \in Nat
             /\ Cardinality(pruned(at)) \in Nat
<1>. DEFINE mine == {x \in accepted : x.run = run}
            fresh == {y \in mine : y.exp > at}
            S == {x.nonce : x \in fresh}
            f == [x \in fresh |-> x.nonce]
            g == [e \in pruned(at) |-> e.nonce]
<1>1. IsFiniteSet(fresh)
  <2>1. fresh \in SUBSET accepted /\ IsFiniteSet(accepted)
    BY DEF IInv, Types
  <2>. QED
    BY <2>1, FS_Subset
<1>2. f \in Surjection(fresh, S)
  BY DEF Surjection
<1>3. IsFiniteSet(S)
  BY <1>1, <1>2, FS_Surjection
<1>4. \A e \in pruned(at) : \E x \in fresh : x.nonce = e.nonce /\ x.exp = e.exp
  BY DEF IInv, CacheWasAccepted, pruned
<1>5. g \in Injection(pruned(at), S)
  <2>1. g \in [pruned(at) -> S]
    BY <1>4
  <2>2. ASSUME NEW e1 \in pruned(at), NEW e2 \in pruned(at), e1.nonce = e2.nonce
        PROVE  e1 = e2
    <3>1. PICK x1 \in accepted : x1.nonce = e1.nonce /\ x1.exp = e1.exp
      BY <1>4
    <3>2. PICK x2 \in accepted : x2.nonce = e2.nonce /\ x2.exp = e2.exp
      BY <1>4
    <3>3. PICK a1 \in signed : a1.nonce = x1.nonce /\ a1.exp = x1.exp
      BY DEF IInv, AcceptedWasSigned
    <3>4. PICK a2 \in signed : a2.nonce = x2.nonce /\ a2.exp = x2.exp
      BY DEF IInv, AcceptedWasSigned
    <3>5. e1.exp = e2.exp
      BY <2>2, <3>1, <3>2, <3>3, <3>4 DEF IInv, SignedOnce
    <3>6. e1 \in CacheEntry /\ e2 \in CacheEntry
      BY TypesParts DEF IInv, CacheTypes, pruned
    <3>. QED
      BY <2>2, <3>5, <3>6 DEF CacheEntry
  <2>. QED
    BY <2>1, <2>2 DEF Injection, IsInjective
<1>6. IsFiniteSet(pruned(at)) /\ Cardinality(pruned(at)) <= Cardinality(S)
  BY <1>3, <1>5, FS_Injection
<1>7. Cardinality(S) \in Nat /\ Cardinality(pruned(at)) \in Nat
  BY <1>3, <1>6, FS_CardinalityType
<1>. QED
  BY <1>6, <1>7

(* The cache refuses a valid assertion only for a nonce this run accepted  *)
(* or for want of room among unexpired ones (nonce cache of bffassertion). *)
THEOREM RefusedForReasonHolds == Spec => RefusedForReason
<1>1. ASSUME IInv, [Next]_vars, NEW d \in Deliveries,
             stage(d) = "clocked", requests'[d].stage = "rejected", run' = run
      PROVE  LET mine == {x \in accepted : x.run = run} IN
             \/ \E x \in mine : x.nonce = requests[d].assertion.nonce
             \/ Cardinality({x.nonce : x \in {y \in mine : y.exp > requests[d].at}})
                   >= ReplayCapacity
  <2>1. /\ requests \in [Deliveries -> Request]
        /\ requests'[d] # requests[d]
        /\ run \in Nat /\ requests[d] \in Request
    BY <1>1, BffAssumption DEF IInv, Types, TypeOK, stage
  <2>2. \A c \in Deliveries \ {d} :
           /\ ~Validate(c) /\ ~ReadClock(c) /\ ~Consume(c) /\ ~Resolve(c) /\ ~Handle(c)
           /\ \A a \in signed : ~Receive(c, a)
    BY <2>1 DEF Validate, answered, ReadClock, Consume, Resolve, Handle, Receive
  <2>3. /\ ~Validate(d) /\ ~ReadClock(d) /\ ~Resolve(d) /\ ~Handle(d)
        /\ \A a \in signed : ~Receive(d, a)
    BY <1>1 DEF Validate, ReadClock, Resolve, Handle, Receive
  <2>4. ~Restart
    BY <1>1, <2>1 DEF Restart
  <2>5. Consume(d)
    BY <1>1, <2>1, <2>2, <2>3, <2>4 DEF Next, Sign, Tick, vars
  <2>6. refuses(pruned(requests[d].at), requests[d].assertion.nonce)
    <3>. SUFFICES ASSUME ~refuses(pruned(requests[d].at), requests[d].assertion.nonce)
                  PROVE  FALSE
      OBVIOUS
    <3>1. requests' = [requests EXCEPT ![d] = [requests[d] EXCEPT !.stage = "consumed"]]
      BY <2>5 DEF Consume
    <3>2. requests[d].stage = "clocked"
      BY <1>1 DEF stage
    <3>3. [requests[d] EXCEPT !.stage = "consumed"].stage = "consumed"
      BY <2>1, <3>2, RequestFields
    <3>. QED
      BY <1>1, <2>1, <3>1, <3>3
  <2>7. requests[d].at \in Nat
    BY <1>1, <2>1, RequestFields, BffAssumption DEF stage
  <2>8. CASE \E e \in pruned(requests[d].at) : e.nonce = requests[d].assertion.nonce
    BY <1>1, <2>8 DEF IInv, CacheWasAccepted, pruned
  <2>9. CASE Cardinality(pruned(requests[d].at)) >= ReplayCapacity
    BY <1>1, <2>7, <2>9, CacheIsExplained, BffAssumption
  <2>. QED
    BY <2>6, <2>8, <2>9 DEF refuses
<1>2. IInv /\ [Next]_vars =>
        [\A d \in Deliveries :
          stage(d) = "clocked" /\ requests'[d].stage = "rejected" /\ run' = run =>
             LET mine == {x \in accepted : x.run = run} IN
             \/ \E x \in mine : x.nonce = requests[d].assertion.nonce
             \/ Cardinality({x.nonce : x \in {y \in mine : y.exp > requests[d].at}})
                   >= ReplayCapacity]_vars
  BY <1>1
<1>. QED
  BY <1>2, IInvAlways, PTL DEF RefusedForReason, Spec
=============================================================================
