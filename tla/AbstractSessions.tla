--------------------------- MODULE AbstractSessions ---------------------------
(***************************************************************************)
(* What a session promises: it is opened once, for one user, gives access  *)
(* while it is live, and ends once and for all.  A session ends alone (its *)
(* user logs out), with every other live session of its user (the password *)
(* or the account changed), when its time is over, or with all others when *)
(* the organization is closed; nothing that happens to one account ends a  *)
(* session of another.                                                     *)
(***************************************************************************)
EXTENDS Naturals

CONSTANTS Sessions, Users, NoUser, Lifetime

VARIABLES
    stage,   \* "fresh", "live" or "ended"
    owner,   \* whose session it is
    left,    \* ticks until its time is over
    open     \* is the organization open

vars == <<stage, owner, left, open>>

Init ==
    /\ stage = [s \in Sessions |-> "fresh"]
    /\ owner = [s \in Sessions |-> NoUser]
    /\ left = [s \in Sessions |-> 0]
    /\ open = TRUE

live(u) == {s \in Sessions : stage[s] = "live" /\ owner[s] = u}

(* A login may end the other sessions of its user: it does when it rehashes *)
(* the password, because that is a new revision of the credential.          *)
Open(s, u) ==
    /\ open /\ stage[s] = "fresh"
    /\ \E gone \in {{}, live(u)} :
          stage' = [t \in Sessions |-> IF t = s THEN "live"
                                       ELSE IF t \in gone THEN "ended" ELSE stage[t]]
    /\ owner' = [owner EXCEPT ![s] = u]
    /\ left' = [left EXCEPT ![s] = Lifetime]
    /\ UNCHANGED open

EndOne(s) ==
    /\ stage[s] = "live"
    /\ stage' = [stage EXCEPT ![s] = "ended"]
    /\ UNCHANGED <<owner, left, open>>

EndAllOf(u) ==
    /\ live(u) # {}
    /\ stage' = [s \in Sessions |-> IF s \in live(u) THEN "ended" ELSE stage[s]]
    /\ UNCHANGED <<owner, left, open>>

Close ==
    /\ open /\ open' = FALSE
    /\ stage' = [s \in Sessions |-> IF stage[s] = "live" THEN "ended" ELSE stage[s]]
    /\ UNCHANGED <<owner, left>>

Tick ==
    /\ left' = [s \in Sessions |-> IF left[s] = 0 THEN 0 ELSE left[s] - 1]
    /\ stage' = [s \in Sessions |-> IF stage[s] = "live" /\ left'[s] = 0
                                    THEN "ended" ELSE stage[s]]
    /\ UNCHANGED <<owner, open>>

Next ==
    \/ \E s \in Sessions, u \in Users : Open(s, u)
    \/ \E s \in Sessions : EndOne(s)
    \/ \E u \in Users : EndAllOf(u)
    \/ Close
    \/ Tick

Spec == Init /\ [][Next]_vars
===============================================================================
