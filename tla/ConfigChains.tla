------------------------------ MODULE ConfigChains ------------------------------
(***************************************************************************)
(* What the configuration promises: every key has a chain of revisions     *)
(* that only grows, one revision at a time, by somebody who knew the last  *)
(* one; a rollback is a new revision with the content of an old one.       *)
(***************************************************************************)
EXTENDS Naturals, Sequences

CONSTANTS Keys, Payloads

VARIABLE chain    \* [Keys -> sequence of revisions]

Init == chain = [k \in Keys |-> <<>>]

Extend(k, known, revision) ==
    /\ known = Len(chain[k])
    /\ chain' = [chain EXCEPT ![k] = Append(@, revision)]

Change(k, known, payload) == Extend(k, known, [payload |-> payload, source |-> 0])

Rollback(k, known, source) ==
    /\ source \in 1..Len(chain[k])
    /\ Extend(k, known, [payload |-> chain[k][source].payload, source |-> source])

Next ==
    \E k \in Keys : \E known \in 0..Len(chain[k]) :
        \/ \E payload \in Payloads : Change(k, known, payload)
        \/ \E source \in 1..Len(chain[k]) : Rollback(k, known, source)

Spec == Init /\ [][Next]_chain
=============================================================================
