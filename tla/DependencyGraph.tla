-------------------------- MODULE DependencyGraph ---------------------------
(***************************************************************************)
(* What a dependency cycle is.  A graph gives every work item the set of   *)
(* items that have to be finished before it.                               *)
(***************************************************************************)

(* A set of items that can never be worked off: each waits for another one *)
(* of the set.  For the finite graphs of the service this is the same as a *)
(* path that returns to its start.                                         *)
Deadlocked(g, S) == \A n \in S : g[n] \cap S # {}

Cyclic(g) == \E S \in SUBSET DOMAIN g : S # {} /\ Deadlocked(g, S)
=============================================================================
