------------------------ MODULE MCDeliveryLifecycle ------------------------
(***************************************************************************)
(* A small instance of DeliveryLifecycle.                                  *)
(***************************************************************************)
EXTENDS DeliveryLifecycle

CONSTANTS alice, bob, bot, north, south

MCSubjects == {alice, bob, bot}
MCTenants == {north, south}

Identity(method, subject, tenant, authenticated) ==
    [method |-> method, subject |-> subject, tenant |-> tenant,
     authenticated |-> authenticated]

(* Two humans of one tenant and a service account, so that every gate can   *)
(* be passed by a human or a machine and closed by either human, and the    *)
(* identities the guards have to tell apart from them: the same user        *)
(* through an API key, a human of another tenant, a key that names no user  *)
(* and a request that was not authenticated.                                *)
MCPrincipals ==
    {Identity("jwt", alice, north, TRUE),
     Identity("jwt", bob, north, TRUE),
     Identity("service", bot, north, TRUE),
     Identity("api-key", alice, north, TRUE),
     Identity("jwt", bob, south, TRUE),
     Identity("api-key", NoSubject, north, TRUE),
     Identity("jwt", bot, north, FALSE)}

(* A remembered revision that is behind the row stays behind it, and how    *)
(* far behind makes no difference to any step or property.                  *)
StaleSeen ==
    [p \in Principals |->
        [i \in Items |->
            IF seen[p][i] = items[i].revision THEN seen[p][i] ELSE 0]]

LifecycleView == <<items, StaleSeen>>
=============================================================================
