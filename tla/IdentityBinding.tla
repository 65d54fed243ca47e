---------------------------- MODULE IdentityBinding ----------------------------
(***************************************************************************)
(* External identities and the users they stand for (identitybinding): a   *)
(* pair of issuer and subject, the key, is bound to one user when it is    *)
(* first seen, and from then on resolves to that user or to nobody.        *)
(*                                                                         *)
(* A resolution is one transaction, and SQLite refuses its writes when the *)
(* tables changed after its reads, so it is one step.  The second reading  *)
(* after a violated unique constraint is for a database that does not.     *)
(***************************************************************************)
EXTENDS Naturals, FiniteSets

CONSTANTS
    Keys,                   \* pairs of issuer and subject
    UserIDs,
    Own, Other,             \* the organization that is configured, and another one
    Names, DefaultName      \* display names

ASSUME BindingAssumption == Own # Other /\ DefaultName \notin Names

VARIABLES
    organization,   \* status of the configured organization
    users,          \* [UserIDs -> row of users]
    identities      \* [Keys -> row of external_identities]

bindingVars == <<organization, users, identities>>

-----------------------------------------------------------------------------
Absent == [status |-> "absent"]

User == [status : {"active", "disabled"}, organization : {Own, Other},
         name : Names \cup {DefaultName}]

Identity == [status : {"active", "disabled"}, organization : {Own, Other}, user : UserIDs]

BindingTypeOK ==
    /\ organization \in {"active", "disabled"}
    /\ users \in [UserIDs -> User \cup {Absent}]
    /\ identities \in [Keys -> Identity \cup {Absent}]

(* Nobody was seen yet, or one key by a program that was configured for     *)
(* another organization.                                                    *)
BindingInit ==
    /\ organization = "active"
    /\ \/ users = [u \in UserIDs |-> Absent] /\ identities = [k \in Keys |-> Absent]
       \/ \E u \in UserIDs, k \in Keys :
             /\ users = [v \in UserIDs |-> IF v # u THEN Absent
                   ELSE [status |-> "active", organization |-> Other, name |-> DefaultName]]
             /\ identities = [l \in Keys |-> IF l # k THEN Absent
                   ELSE [status |-> "active", organization |-> Other, user |-> u]]

-----------------------------------------------------------------------------
(* A claim of a name that is left out is NoName.                            *)
NoName == "none"

profile(name, current) == IF name = NoName THEN current ELSE name

(* Faulty variant: a disabled binding counts as none.                       *)
known_Active(k) == identities[k].status = "active"

known(k) == identities[k] # Absent

(* What lets a known key in.                                                *)
admitted(k) ==
    /\ identities[k].organization = Own
    /\ identities[k].status = "active"
    /\ users[identities[k].user].organization = Own
    /\ users[identities[k].user].status = "active"

(* updateExisting: the profile and nothing else.                            *)
refreshed(k, name) ==
    /\ users' = [users EXCEPT ![identities[k].user].name = profile(name, @)]
    /\ UNCHANGED <<organization, identities>>

(* A new user, whose ID is random and new, without role or credential.      *)
provisioned(k, name, u) ==
    /\ users[u] = Absent
    /\ users' = [users EXCEPT ![u] =
          [status |-> "active", organization |-> Own, name |-> profile(name, DefaultName)]]
    /\ identities' = [identities EXCEPT ![k] =
          [status |-> "active", organization |-> Own, user |-> u]]
    /\ UNCHANGED organization

(* ResolveOrProvision that returns user u.                                  *)
Resolved(k, name, u) ==
    /\ organization = "active"
    /\ IF known(k)
       THEN /\ admitted(k) /\ u = identities[k].user
            /\ refreshed(k, name)
       ELSE provisioned(k, name, u)

(* ResolveOrProvision that fails.  It may always: the database is busy.     *)
NotResolved == UNCHANGED bindingVars

-----------------------------------------------------------------------------
DisableOrganization ==
    /\ organization = "active"
    /\ organization' = "disabled"
    /\ UNCHANGED <<users, identities>>

DisableExternalIdentity(k) ==
    /\ identities[k].status = "active"
    /\ identities' = [identities EXCEPT ![k].status = "disabled"]
    /\ UNCHANGED <<organization, users>>

(* A member administrator disables the user.  DisableUser of this package   *)
(* does not: a trigger refuses the change of status without a new revision. *)
DisableMember(u) ==
    /\ users[u].status = "active" /\ users[u].organization = Own
    /\ users' = [users EXCEPT ![u].status = "disabled"]
    /\ UNCHANGED <<organization, identities>>

Disabling ==
    \/ DisableOrganization
    \/ \E k \in Keys : DisableExternalIdentity(k)
    \/ \E u \in UserIDs : DisableMember(u)

-----------------------------------------------------------------------------
(* Properties.                                                              *)

(* Keys and the users made for them are one to one: two keys never share a  *)
(* user, both sides belong to the same organization, and no user is left    *)
(* over by a resolution that failed.                                        *)
OneToOne ==
    /\ \A k \in Keys : identities[k] # Absent =>
          /\ users[identities[k].user] # Absent
          /\ users[identities[k].user].organization = identities[k].organization
          /\ \A l \in Keys \ {k} :
                identities[l] = Absent \/ identities[l].user # identities[k].user
    /\ \A u \in UserIDs : users[u] # Absent => \E k \in Keys :
          identities[k] # Absent /\ identities[k].user = u

(* Whom a key stands for is decided once: it is never bound to another user *)
(* or organization, and neither it nor its user is active again after being *)
(* disabled, however often it is presented.                                 *)
IdentityIsStable ==
    [][/\ \A k \in Keys : identities[k] # Absent =>
             /\ identities'[k] # Absent
             /\ identities'[k].user = identities[k].user
             /\ identities'[k].organization = identities[k].organization
             /\ identities[k].status = "disabled" => identities'[k].status = "disabled"
       /\ \A u \in UserIDs : users[u].status = "disabled" => users'[u].status = "disabled"
      ]_bindingVars
=============================================================================
