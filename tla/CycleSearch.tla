---------------------------- MODULE CycleSearch -----------------------------
(***************************************************************************)
(* The depth-first search of wouldCreateDependencyCycle (delivery/         *)
(* service.go), one step per call, loop iteration or return of the         *)
(* recursive hasCycle.  Go visits a map in no fixed order, so the roots,   *)
(* and here also the prerequisites of an item, are taken in any order.     *)
(***************************************************************************)
EXTENDS Naturals, Sequences, DependencyGraph

CONSTANT Nodes  \* work item identifiers

VARIABLES
    prerequisites, \* the graph after the pending update
    roots,         \* keys of prerequisites the outer loop has not tried yet
    stack,         \* active calls of hasCycle, outermost first
    visiting,
    visited,
    answer         \* "searching" until the search returns

searchVars == <<prerequisites, roots, stack, visiting, visited, answer>>

Graphs == [Nodes -> SUBSET Nodes]

(* An active call: the item, and the prerequisites its loop has left.       *)
Frames == [node : Nodes, rest : SUBSET Nodes]

(* Items without an entry in the Go map are the ones without prerequisites. *)
Keys == {n \in Nodes : prerequisites[n] # {}}

Top == stack[Len(stack)]

SearchInit ==
    /\ prerequisites \in Graphs
    /\ roots = Keys
    /\ stack = <<>>
    /\ visiting = {}
    /\ visited = {}
    /\ answer = "searching"

(* The calling loop, with n taken off the prerequisites it has left.        *)
Caller(n) == [stack EXCEPT ![Len(stack)].rest = @ \ {n}]

(* The beginning of hasCycle(n): TRUE, which unwinds every caller, for an   *)
(* item on the current path, FALSE for a visited one, else a new frame.     *)
hasCycle(n, callers) ==
    \/ /\ n \in visiting
       /\ answer' = "cycle"
       /\ UNCHANGED <<stack, visiting>>
    \/ /\ n \notin visiting
       /\ n \in visited
       /\ stack' = callers
       /\ UNCHANGED <<visiting, answer>>
    \/ /\ n \notin visiting \cup visited
       /\ stack' = Append(callers, [node |-> n, rest |-> prerequisites[n]])
       /\ visiting' = visiting \cup {n}
       /\ UNCHANGED answer

(* The outer loop takes the next key.                                      *)
TryRoot(n) ==
    /\ answer = "searching"
    /\ stack = <<>>
    /\ n \in roots
    /\ roots' = roots \ {n}
    /\ hasCycle(n, stack)
    /\ UNCHANGED <<prerequisites, visited>>

(* The loop of the innermost call goes on to the prerequisite n.            *)
TryPrerequisite(n) ==
    /\ answer = "searching"
    /\ stack # <<>>
    /\ n \in Top.rest
    /\ hasCycle(n, Caller(n))
    /\ UNCHANGED <<prerequisites, roots, visited>>

(* Faulty variant: a finished item is not remembered as visited.            *)
leave_Forgets(n) ==
    /\ visiting' = visiting \ {n}
    /\ visited' = visited

(* Faulty variant: the item stays marked as being visited when the call     *)
(* returns, so that the next path through it is taken for a cycle.          *)
leave_KeepsVisiting(n) ==
    /\ visiting' = visiting
    /\ visited' = visited

(* delete(visiting, n); visited[n] = true                                   *)
leave(n) ==
    /\ visiting' = visiting \ {n}
    /\ visited' = visited \cup {n}

Return ==
    /\ answer = "searching"
    /\ stack # <<>>
    /\ Top.rest = {}
    /\ leave(Top.node)
    /\ stack' = SubSeq(stack, 1, Len(stack) - 1)
    /\ UNCHANGED <<prerequisites, roots, answer>>

Finish ==
    /\ answer = "searching"
    /\ stack = <<>>
    /\ roots = {}
    /\ answer' = "none"
    /\ UNCHANGED <<prerequisites, roots, stack, visiting, visited>>

SearchNext ==
    \/ \E n \in Nodes : TryRoot(n) \/ TryPrerequisite(n)
    \/ Return
    \/ Finish

SearchSpec == SearchInit /\ [][SearchNext]_searchVars

-----------------------------------------------------------------------------
SearchTypeOK ==
    /\ prerequisites \in Graphs
    /\ roots \subseteq Nodes
    /\ stack \in Seq(Frames)
    /\ visiting \subseteq Nodes
    /\ visited \subseteq Nodes
    /\ answer \in {"searching", "cycle", "none"}

(* The search says "cycle" exactly for the graphs that have one, whatever  *)
(* order it walks them in (what ErrCircularDependency is returned for).     *)
AnswerIsRight ==
    /\ answer = "cycle" => Cyclic(prerequisites)
    /\ answer = "none" => ~Cyclic(prerequisites)

(* What a proof of AnswerIsRight needs: the stack is a path of the graph    *)
(* made of the items being visited, a loop has left behind only visited     *)
(* items and the call below it, and all that a visited item waits for is    *)
(* visited.                                                                *)
Progress ==
    /\ SearchTypeOK
    /\ visiting = {stack[k].node : k \in DOMAIN stack}
    /\ visiting \cap visited = {}
    /\ \A j, k \in DOMAIN stack : stack[j].node = stack[k].node => j = k
    /\ \A k \in DOMAIN stack :
          /\ stack[k].rest \subseteq prerequisites[stack[k].node]
          /\ \A m \in prerequisites[stack[k].node] \ stack[k].rest :
                \/ m \in visited
                \/ k < Len(stack) /\ m = stack[k + 1].node
          /\ k < Len(stack) =>
                stack[k + 1].node \in prerequisites[stack[k].node]
    /\ \A n \in visited : prerequisites[n] \subseteq visited
    /\ Keys \subseteq roots \cup visited \cup visiting
    /\ \A S \in SUBSET Nodes :
          Deadlocked(prerequisites, S) => S \cap visited = {}
=============================================================================
