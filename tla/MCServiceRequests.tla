-------------------------- MODULE MCServiceRequests --------------------------
(***************************************************************************)
(* A small instance of ServiceAccounts and ServiceRequests with rows of    *)
(* the real dictionary: a listing, an operation with a part, and one on    *)
(* the configuration.  A behaviour is one of three kinds: credentials are  *)
(* issued, rotated and revoked; the same operation is granted and revoked; *)
(* or requests are made with one credential while grants change.           *)
(***************************************************************************)
EXTENDS ServiceRequests, TLC

CONSTANTS s1, s2, c1, c2, c3, g1, g2, org, own1, own2, w1

VARIABLE kind   \* of the behaviour

MCAccounts == {s1, s2}
MCCredentials == {c1, c2, c3}
MCGrants == {g1, g2}
MCOwned == {own1, own2}

MCOperations == {"items.list", "items.update", "items.update-context", "config.change"}
MCPermissionOf ==
    [op \in MCOperations |->
       CASE op = "items.list" -> "read" [] op = "items.update" -> "update"
         [] op = "items.update-context" -> "context.update" [] op = "config.change" -> "config.write"]
MCRequires == [op \in MCOperations |-> IF op = "items.update" THEN {"items.update-context"} ELSE {}]
MCRequiredScope ==
    [op \in MCOperations |->
       CASE op = "items.list" -> "project" [] op = "config.change" -> "organization"
         [] OTHER -> "object"]
MCProjectOf == w1 :> own1
MCGrantable ==
    {[operation |-> "items.list", project |-> own1], [operation |-> "items.list", project |-> own2],
     [operation |-> "items.update", project |-> own1],
     [operation |-> "items.update-context", project |-> own1],
     [operation |-> "items.update-context", project |-> own2]}
MCConfigured == {[account |-> s1, operation |-> "config.change"]}
MCListing == {"items.list"}

MCInit ==
    /\ RequestsInit
    /\ kind \in {"credentials", "grants", "requests"}

MCNext ==
    /\ kind' = kind
    /\ \/ kind # "requests" /\ ServiceStep /\ UNCHANGED requests
       \/ kind = "requests" /\ RequestsNext

MCSpec == MCInit /\ [][MCNext]_<<requestVars, kind>>

stored == {c \in Credentials : credentials[c] # Absent}
granted == {call \in pending : call.op = "grant"}

updateOwn1 == [operation |-> "items.update", project |-> own1]

(* Bounds of each kind, on the rows, the calls under way and the clock.  The *)
(* requests are those of one account, and another has a grant at most.       *)
Small ==
    CASE kind = "credentials" ->
            granted = {} /\ Cardinality(pending) <= 2
      [] kind = "grants" ->
            /\ pending = granted /\ now = 0
            /\ \A call \in pending : call.of = [operation |-> "items.list", project |-> own1]
      [] kind = "requests" ->
            /\ Cardinality(pending) <= 1 /\ Cardinality(stored) <= 1
            /\ \A call \in pending :
                  /\ call.op # "rotate"
                  /\ call.account = s2 => call.op = "grant" /\ call.of = updateOwn1

symmetry == Permutations(MCGrants) \cup Permutations(MCCredentials)
=============================================================================
