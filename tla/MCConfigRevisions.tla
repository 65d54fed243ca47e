--------------------------- MODULE MCConfigRevisions ---------------------------
(***************************************************************************)
(* A small instance of ConfigRevisions.                                    *)
(***************************************************************************)
EXTENDS ConfigRevisions, TLC

CONSTANTS k1, k2, p1, p2, c1, c2, c3

MCKeys == {k1}
MCPayloads == {p1, p2}
MCCallers == {c1, c2, c3}
symmetry == Permutations(MCPayloads) \cup Permutations(MCCallers)
=============================================================================
