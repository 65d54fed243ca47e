--------------------------- MODULE MCLocalSessions ---------------------------
(***************************************************************************)
(* A small instance of LocalAccounts and LocalSessions.  A behaviour is    *)
(* one of two kinds: administrators with their calls under way and nobody  *)
(* logged in, or logins and sessions with administrators whose calls       *)
(* always passed their guard.  There are an administrator, another one     *)
(* through a team, and a member to be.                                     *)
(***************************************************************************)
EXTENDS LocalSessions, TLC

CONSTANTS a1, a2, m1, p1, p2, s1, s2

VARIABLE kind   \* of the behaviour

MCUsers == {a1, a2, m1}
MCDirect == {a1}
MCTeam == {a2}
MCPasswords == {p1, p2}
MCSessions == {s1, s2}

MCInit ==
    /\ Init
    /\ kind \in {"calls", "sessions"}

MCNext ==
    /\ kind' = kind
    /\ \/ kind = "calls" /\ AdministratorStep /\ UNCHANGED sessionVars
       \/ kind = "sessions" /\ Next

MCSpec == MCInit /\ [][MCNext]_<<vars, kind>>

(* Bounds: two changes to members and passwords in a behaviour of calls and  *)
(* three in one with sessions, besides the first two administrators; the     *)
(* second of them is a bystander while there are sessions, and calls agree   *)
(* on the one password they set.                                             *)
inUse == {credentials[u].password : u \in Users} \cup {call.password : call \in prepared}

Small ==
    /\ Cardinality(trail) <= IF kind = "calls" THEN 4 ELSE 5
    /\ kind = "calls" => Cardinality(inUse \ {NoPassword}) <= 1
    /\ kind = "sessions" =>
          /\ users[a2].revision = 1
          /\ \A s \in Sessions : sessions[s] = NoSession \/ sessions[s].user # a2

Symmetry == Permutations(MCPasswords) \cup Permutations(MCSessions)
=============================================================================
