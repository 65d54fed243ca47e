--------------------------- MODULE DutySeparation ---------------------------
(***************************************************************************)
(* What the delivery service promises about who may move a work item: the  *)
(* principal that is recorded as the implementer never validates the same  *)
(* change in production and never closes it, and validation and closing    *)
(* are done by a named human of the implementer's tenant.  Everything else *)
(* the service does to an item (revisions, blockers, comments, context) is *)
(* invisible at this level.                                                *)
(***************************************************************************)
CONSTANTS
    Items,     \* work item identifiers
    Sources,   \* principal sources the server can derive from a request
    NoSource   \* the zero PrincipalSource of the code

VARIABLES
    stage,       \* how far each item has come
    implementer, \* source that completed development, or NoSource
    validator    \* source that validated it in production, or NoSource

dvars == <<stage, implementer, validator>>

Stages == {"absent", "open", "implemented", "validated", "closed"}

(* A source that may judge the work of `impl`: a human of the same tenant,  *)
(* with another subject.                                                   *)
Independent(s, impl) ==
    /\ s.kind = "human"
    /\ s.tenant = impl.tenant
    /\ s.subject # impl.subject

Init ==
    /\ stage = [i \in Items |-> "absent"]
    /\ implementer = [i \in Items |-> NoSource]
    /\ validator = [i \in Items |-> NoSource]

Open(i) ==
    /\ stage[i] = "absent"
    /\ stage' = [stage EXCEPT ![i] = "open"]
    /\ UNCHANGED <<implementer, validator>>

Implement(i, s) ==
    /\ stage[i] = "open"
    /\ stage' = [stage EXCEPT ![i] = "implemented"]
    /\ implementer' = [implementer EXCEPT ![i] = s]
    /\ UNCHANGED validator

Validate(i, s) ==
    /\ stage[i] = "implemented"
    /\ Independent(s, implementer[i])
    /\ stage' = [stage EXCEPT ![i] = "validated"]
    /\ validator' = [validator EXCEPT ![i] = s]
    /\ UNCHANGED implementer

Close(i, s) ==
    /\ stage[i] = "validated"
    /\ Independent(s, implementer[i])
    /\ stage' = [stage EXCEPT ![i] = "closed"]
    /\ UNCHANGED <<implementer, validator>>

Next ==
    \E i \in Items :
        \/ Open(i)
        \/ \E s \in Sources : Implement(i, s) \/ Validate(i, s) \/ Close(i, s)

Spec == Init /\ [][Next]_dvars
=============================================================================
