---------------------------- MODULE MCBffRequests ----------------------------
(***************************************************************************)
(* A small instance of BffRequests: two assertions, a cache for one nonce, *)
(* three requests, two external identities and two users.  A behaviour is  *)
(* one of two kinds: the cache at work up to the resolution of a request,  *)
(* or the identities at work while time stands still.                      *)
(***************************************************************************)
EXTENDS BffRequests, TLC

CONSTANTS n1, n2, d1, d2, d3, k1, k2, u1, u2, name

VARIABLE kind   \* of the behaviour

MCNonces == {n1, n2}
MCDeliveries == {d1, d2, d3}
MCKeys == {k1, k2}
MCUserIDs == {u1, u2}
MCNames == {name}

MCInit ==
    /\ Init
    /\ kind \in {"cache", "identities"}

MCNext ==
    /\ kind' = kind
    /\ \/ /\ kind = "cache"
          /\ Next
          /\ UNCHANGED organization
       \/ kind = "identities" /\ Next /\ UNCHANGED now

MCSpec == MCInit /\ [][MCNext]_<<vars, kind>>

(* Bounds: in a behaviour of the cache, assertions are about one key, and    *)
(* requests are of no interest once they are resolved; in one of identities, *)
(* assertions are made to last and third requests do not come.               *)
Small ==
    \/ /\ kind = "cache"
       /\ \A a, b \in signed : a.key = b.key /\ a.name = NoName
       /\ \A d \in Deliveries : stage(d) \notin {"resolved", "handled"}
       /\ \A u \in UserIDs : users[u] = Absent
    \/ /\ kind = "identities"
       /\ \A a \in signed : a.iat = 0 /\ a.exp = MaxAge
       /\ \E d \in Deliveries : requests[d] = Idle

symmetry == Permutations(MCDeliveries) \cup Permutations(MCNonces)
               \cup Permutations(MCUserIDs) \cup Permutations(MCKeys)
=============================================================================
