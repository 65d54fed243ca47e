---------------------------- MODULE AtomicWrites ----------------------------
(***************************************************************************)
(* What the service promises about one write request: its row changes, its *)
(* events and its audit entries appear together or not at all, and an      *)
(* entry that reports a failure is never written for a request that took   *)
(* effect.                                                                 *)
(***************************************************************************)
EXTENDS Naturals

CONSTANTS
    Requests, \* write requests, of any process
    Items     \* the rows they write

VARIABLES
    rows,    \* the revision of each row, 0 when it does not exist
    outbox,  \* events <<request, part>>
    audit    \* entries <<request, part, result>>, part 0 for a failure

avars == <<rows, outbox, audit>>

Init ==
    /\ rows = [i \in Items |-> 0]
    /\ outbox = {}
    /\ audit = {}

Applied(r) == <<r, 1>> \in outbox

(* A request of n parts moves its row on by n revisions.                    *)
Apply(r, i, n) ==
    /\ ~Applied(r)
    /\ <<r, 0, "failure">> \notin audit
    /\ rows' = [rows EXCEPT ![i] = @ + n]
    /\ outbox' = outbox \cup {<<r, part>> : part \in 1..n}
    /\ audit' = audit \cup {<<r, part, "success">> : part \in 1..n}

ReportFailure(r) ==
    /\ ~Applied(r)
    /\ audit' = audit \cup {<<r, 0, "failure">>}
    /\ UNCHANGED <<rows, outbox>>

Next ==
    \E r \in Requests :
        \/ \E i \in Items, n \in {1, 2} : Apply(r, i, n)
        \/ ReportFailure(r)

Spec == Init /\ [][Next]_avars
=============================================================================
