---------------------------- MODULE LocalSessions ----------------------------
(***************************************************************************)
(* Password login, sessions and access tokens (locallogin), together with  *)
(* the administration of the same accounts (LocalAccounts).                *)
(*                                                                         *)
(* Login, logout and change of password are root transactions, one step    *)
(* each; the attempt budget they take first is PasswordThrottle.  Issuing  *)
(* an access token for a session reads the session and signs later,        *)
(* without a transaction.  A token is signed once and never stored: it is  *)
(* accepted when its signature holds, its time is not over and the central *)
(* validity query finds its session.  Time is what is left of it, in ticks *)
(* of a second.                                                            *)
(***************************************************************************)
EXTENDS LocalAccounts

CONSTANTS
    Sessions,              \* session IDs; each stands for its secret, too
    SessionTTL, AccessTTL

ASSUME LifetimesAssumption ==
    /\ SessionTTL \in Nat /\ AccessTTL \in Nat \ {0}
    /\ AccessTTL <= SessionTTL

VARIABLES
    sessions,    \* the rows of iotd_local_sessions
    tokens,      \* the access tokens that were ever signed
    issuing,     \* sessions verified for a token that is not signed yet
    opened       \* per session the password its login presented (history)

sessionVars == <<sessions, tokens, issuing, opened>>

vars == <<accountVars, sessionVars>>

-----------------------------------------------------------------------------
(* Data.                                                                   *)

NoSession == [status |-> "none", user |-> CHOOSE u \in Users : TRUE,
              credential |-> 0, revision |-> 0, left |-> 0]

SessionType ==
    [status : {"none", "active", "revoked"}, user : Users,
     credential : 0..MaxRevision, revision : 0..2, left : 0..SessionTTL]

TokenType == [session : Sessions, revision : 1..2, left : 0..AccessTTL]

TypeOK ==
    /\ AccountsTypeOK
    /\ sessions \in [Sessions -> SessionType]
    /\ tokens \subseteq TokenType
    /\ issuing \subseteq [session : Sessions, revision : 1..2]
    /\ opened \in [Sessions -> Passwords \cup {NoPassword}]

Init ==
    /\ AccountsInit
    /\ sessions = [s \in Sessions |-> NoSession]
    /\ tokens = {} /\ issuing = {}
    /\ opened = [s \in Sessions |-> NoPassword]

-----------------------------------------------------------------------------
(* Who is let in.                                                           *)

(* Faulty variant: the join with the current credential is dropped.         *)
valid_AnyCredential(s) ==
    /\ sessions[s].status = "active" /\ sessions[s].left > 0
    /\ organization = "active" /\ active(sessions[s].user)

(* validSessionSelect with the conditions of both of its callers: the row   *)
(* is active and not expired, so are organization and user, and the         *)
(* credential is still of the revision the login saw.                       *)
valid(s) ==
    /\ sessions[s].status = "active" /\ sessions[s].left > 0
    /\ organization = "active" /\ active(sessions[s].user)
    /\ credentials[sessions[s].user].revision = sessions[s].credential

(* verifyAccessIdentity: the claims name the exact revision of a valid      *)
(* session, and the token does not outlive it.                              *)
accepted(t) ==
    /\ t.left > 0
    /\ valid(t.session)
    /\ sessions[t.session].revision = t.revision
    /\ sessions[t.session].left >= t.left

(* readActiveSessionForControl: for logout and change of password the       *)
(* revision of the credential does not count.                               *)
controllable(s) ==
    /\ sessions[s].status = "active" /\ sessions[s].left > 0
    /\ organization = "active" /\ active(sessions[s].user)

signed(s, revision) ==
    tokens' = tokens \cup {[session |-> s, revision |-> revision, left |-> AccessTTL]}

-----------------------------------------------------------------------------
(* Login.                                                                   *)

(* VerifyPassword of an active user with a credential.                      *)
verifies(u, password) ==
    /\ organization = "active" /\ active(u)
    /\ credentials[u].revision > 0
    /\ credentials[u].password = password

(* A credential of an older policy is hashed anew, one revision later, with *)
(* the secret that was just verified.                                       *)
rehashed(u) ==
    IF credentials[u].retired
    THEN /\ matches(u, credentials[u].revision)
         /\ credentials' = [credentials EXCEPT ![u] = stored(u, credentials[u].password)]
         /\ recorded("rehash", u)
    ELSE UNCHANGED <<credentials, trail>>

(* The session is inserted with the credential's revision after the rehash; *)
(* the trigger on the table refuses any other.                              *)
Login(s, u, password) ==
    /\ sessions[s] = NoSession
    /\ verifies(u, password)
    /\ users' = users /\ rehashed(u)
    /\ sessions' = [sessions EXCEPT ![s] =
           [status |-> "active", user |-> u, credential |-> credentials'[u].revision,
            revision |-> 1, left |-> SessionTTL]]
    /\ signed(s, 1)
    /\ opened' = [opened EXCEPT ![s] = password]
    /\ UNCHANGED <<organization, prepared, issuing>>

-----------------------------------------------------------------------------
(* Access tokens for a session.                                             *)

VerifySession(s) ==
    /\ valid(s)
    /\ issuing' = issuing \cup {[session |-> s, revision |-> sessions[s].revision]}
    /\ UNCHANGED <<accountVars, sessions, tokens, opened>>

(* The clock is read again after the lookup.                                *)
longEnough(s) == sessions[s].left >= AccessTTL

Sign(i) ==
    /\ i \in issuing
    /\ IF longEnough(i.session) THEN signed(i.session, i.revision) ELSE UNCHANGED tokens
    /\ issuing' = issuing \ {i}
    /\ UNCHANGED <<accountVars, sessions, opened>>

-----------------------------------------------------------------------------
(* The end of a session.                                                    *)

revoked(row) == [row EXCEPT !.status = "revoked", !.revision = row.revision + 1]

Logout(s, expected) ==
    /\ controllable(s)
    /\ sessions[s].revision = expected
    /\ sessions' = [sessions EXCEPT ![s] = revoked(sessions[s])]
    /\ UNCHANGED <<accountVars, tokens, issuing, opened>>

(* Faulty variant: the credential's revision of the session is not          *)
(* compared with the one the member expects.                                *)
seenBy_AnyCredential(s, u, credential) == sessions[s].user = u

seenBy(s, u, credential) ==
    /\ sessions[s].user = u
    /\ sessions[s].credential = credential

(* Faulty variant: the user is missing in the condition of the update.      *)
endedBy_Everyone(u) == {s \in Sessions : sessions[s].status = "active"}

endedBy(u) == {s \in Sessions : sessions[s].user = u /\ sessions[s].status = "active"}

(* Everything the member sends is compared: the session's revision, the     *)
(* user's, the credential's (with the session and with the row) and the     *)
(* current password.  Then every active session of the user is revoked.     *)
ChangePassword(s, u, revision, credential, password, new) ==
    /\ controllable(s) /\ seenBy(s, u, credential)
    /\ users[u].revision = revision /\ revision < MaxRevision
    /\ verifies(u, password)
    /\ matches(u, credential)
    /\ users' = [users EXCEPT ![u].revision = revision + 1]
    /\ credentials' = [credentials EXCEPT ![u] = stored(u, new)]
    /\ recorded("change", u)
    /\ sessions' = [t \in Sessions |-> IF t \in endedBy(u)
                                       THEN revoked(sessions[t]) ELSE sessions[t]]
    /\ UNCHANGED <<organization, prepared, tokens, issuing, opened>>

less(n) == IF n = 0 THEN 0 ELSE n - 1

Tick ==
    /\ \E s \in Sessions : sessions[s].left > 0
    /\ sessions' = [s \in Sessions |-> [sessions[s] EXCEPT !.left = less(@)]]
    /\ tokens' = {[t EXCEPT !.left = less(@)] : t \in tokens}
    /\ UNCHANGED <<accountVars, issuing, opened>>

(* An administrator's call commits.  Its guard, which may have passed long   *)
(* before, is the matter of LocalAccounts: here it has always passed.       *)
Administrate ==
    /\ \/ \E call \in createCalls : created(call)
       \/ \E call \in disableCalls : disabled(call)
       \/ \E call \in resetCalls : reset(call)
    /\ UNCHANGED <<organization, prepared, sessionVars>>

Next ==
    \/ Administrate
    \/ DisableOrganization /\ UNCHANGED sessionVars
    \/ \E s \in Sessions, u \in Users, p \in Passwords : Login(s, u, p)
    \/ \E s \in Sessions : VerifySession(s)
    \/ \E i \in issuing : Sign(i)
    \/ \E s \in Sessions, expected \in 1..2 : Logout(s, expected)
    \/ \E s \in Sessions, u \in Users, r, c \in 1..MaxRevision, p, new \in Passwords :
          ChangePassword(s, u, r, c, p, new)
    \/ Tick

Spec == Init /\ [][Next]_vars

-----------------------------------------------------------------------------
(* Properties.                                                              *)

(* Whoever is let in has proved to know the password that is in force: the  *)
(* login of every valid session presented what is the password now, also    *)
(* after changes, resets and rehashes in any order.                         *)
ValidKnowsPassword ==
    \A s \in Sessions : valid(s) => opened[s] = credentials[sessions[s].user].password

(* No token outlives its session: one that is not expired and belongs to a  *)
(* valid session is accepted, so a caller is never cut off early.           *)
TokenWithinSession ==
    \A t \in tokens : t.left > 0 /\ valid(t.session) => accepted(t)

(* What holds of sessions and tokens at any time.                           *)
SessionsInvariant == TypeOK /\ ValidKnowsPassword /\ TokenWithinSession

(* Only a session that is valid in full can change the password, although   *)
(* the lookup for it ignores the credential: after a reset by an            *)
(* administrator the old session is of no use even to somebody who knows    *)
(* the new password.                                                        *)
ChangeNeedsValidSession ==
    [][\A u \in Users : users'[u].revision # users[u].revision
          /\ (\E e \in trail' \ trail : e.op = "change")
          => \E s \in Sessions : sessions[s].user = u /\ valid(s)
                                 /\ sessions'[s].status = "revoked"]_vars

(* The sessions implement AbstractSessions: opened once, never valid again  *)
(* after they were not, ended by what happens to their user alone.          *)
stage ==
    [s \in Sessions |-> IF sessions[s] = NoSession THEN "fresh"
                        ELSE IF valid(s) THEN "live" ELSE "ended"]

owner == [s \in Sessions |-> IF sessions[s] = NoSession THEN NoPassword ELSE sessions[s].user]

left == [s \in Sessions |-> sessions[s].left]

Abstract == INSTANCE AbstractSessions WITH NoUser <- NoPassword, Lifetime <- SessionTTL,
                                         open <- organization = "active"

ImplementsSessions == Abstract!Spec
=============================================================================
