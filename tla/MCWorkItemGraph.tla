--------------------------- MODULE MCWorkItemGraph --------------------------
(***************************************************************************)
(* A small instance of WorkItemGraph, and of the cycle search it decides   *)
(* with: first the search runs on an arbitrary graph of the items, then    *)
(* the work items are created and edited.                                  *)
(***************************************************************************)
EXTENDS WorkItemGraph, CycleSearch, FiniteSets, FiniteSetsExt, TLC

(* The search is over and forgotten.                                        *)
Forgotten == answer = "forgotten"

Forget ==
    /\ answer \in {"cycle", "none"}
    /\ answer' = "forgotten"
    /\ prerequisites' = [n \in Items |-> {}]
    /\ roots' = {} /\ stack' = <<>> /\ visiting' = {} /\ visited' = {}
    /\ UNCHANGED vars

MCInit == Init /\ SearchInit

MCNext ==
    \/ SearchNext /\ UNCHANGED vars
    \/ Forget
    \/ Forgotten /\ Next /\ UNCHANGED searchVars

MCSpec == MCInit /\ [][MCNext]_<<vars, searchVars>>

(* Nothing in the specifications tells one identifier from another.         *)
Symmetry ==
    Permutations(Items) \cup Permutations(Projects) \cup Permutations(Plans)
      \cup Permutations(Titles) \cup Permutations(Kinds)
      \cup Permutations(Boards)

(* Bound: at most four records, such as three items of one project, or two  *)
(* projects with two items or with an item and a planning record.           *)
FewRecords ==
    Cardinality(projects) + Cardinality({plan \in Plans : plans[plan] # None})
       + Cardinality({i \in Items : Exists(i)}) <= 4

-----------------------------------------------------------------------------
(* What the search has left: roots, items nobody called it for, and the     *)
(* loops of the calls under way.                                            *)
Work ==
    Cardinality(roots)
      + MapThenSumSet(LAMBDA n : Cardinality(prerequisites[n]) + 2,
                      Items \ (visiting \cup visited))
      + MapThenSumSet(LAMBDA k : Cardinality(stack[k].rest) + 1, DOMAIN stack)

(* The search of the recursive hasCycle ends on every graph, the cyclic ones *)
(* included: it can always go on until it answers (no deadlock), and each    *)
(* step either answers or leaves less to do.                                 *)
SearchEnds ==
    [][answer = "searching" => answer' # "searching" \/ Work' < Work]_searchVars
=============================================================================
