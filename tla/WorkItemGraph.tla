--------------------------- MODULE WorkItemGraph ----------------------------
(***************************************************************************)
(* How work items hang together: projects, parents, dependencies, planning *)
(* records (releases, sprints, milestones) and unique titles, as Create    *)
(* and UpdateWorkItem of delivery/service.go maintain them.  Nothing is    *)
(* ever deleted, and an item keeps its project, parent, kind and board.    *)
(*                                                                         *)
(* Each action is one root transaction (module UnitOfWork).  A title is    *)
(* its normalized form; a board and a kind are opaque; a dependency list   *)
(* is the map from its targets to relations that is left once repeated     *)
(* targets were skipped.                                                   *)
(***************************************************************************)
EXTENDS DependencyGraph

CONSTANTS
    Items,     \* work item identifiers
    Projects,  \* project identifiers
    Plans,     \* identifiers of releases, sprints and milestones
    Titles, Kinds, Boards,
    None       \* the empty identifier

ASSUME NoneAssumption == None \notin Projects \cup Items

VARIABLES
    projects, \* projects that exist
    plans,    \* the project of each planning record, None before it exists
    items     \* the work items, Unborn before they exist

vars == <<projects, plans, items>>

Relations == {"depends_on", "blocks", "related"}

(* Dependency lists: which items are named, and how.                        *)
DependencyLists == UNION {[targets -> Relations] : targets \in SUBSET Items}
NoDependencies == [target \in {} |-> "related"]

ItemType ==
    [born : {TRUE}, project : Projects \cup {None}, parent : Items \cup {None},
     kind : Kinds, board : Boards, title : Titles, links : SUBSET Plans,
     dependencies : DependencyLists]

Unborn == [born |-> FALSE, dependencies |-> NoDependencies]

Exists(i) == items[i].born

-----------------------------------------------------------------------------
(* Validation.                                                             *)

(* n has to wait for m: n depends on m, or m declares that it blocks n.     *)
waitsFor(deps, n, m) ==
    \/ m \in DOMAIN deps[n] /\ deps[n][m] = "depends_on"
    \/ n \in DOMAIN deps[m] /\ deps[m][n] = "blocks"

Prerequisites(deps) == [n \in Items |-> {m \in Items : waitsFor(deps, n, m)}]

Dependencies == [i \in Items |-> items[i].dependencies]

(* Faulty variant: a "blocks" entry counts as the item's own prerequisite.  *)
wouldCreateDependencyCycle_Forward(i, list) ==
    Cyclic([n \in Items |->
               LET deps == IF n = i THEN list ELSE Dependencies[n]
               IN  {m \in DOMAIN deps : deps[m] # "related"}])

(* The decision of wouldCreateDependencyCycle, over all items of all        *)
(* projects, as the module CycleSearch shows its search to make it.         *)
wouldCreateDependencyCycle(i, list) ==
    Cyclic(Prerequisites([Dependencies EXCEPT ![i] = list]))

(* Faulty variant: the targets may belong to another project.               *)
targetsInProject_Anywhere(project, list) ==
    \A target \in DOMAIN list : Exists(target)

targetsInProject(project, list) ==
    \A target \in DOMAIN list :
        Exists(target) /\ items[target].project = project

(* The part of validateDependencies that Create and UpdateWorkItem share.   *)
validTargets(project, list) ==
    list # NoDependencies => project # None /\ targetsInProject(project, list)

(* Faulty variant: the cycle search runs before the pending update.         *)
validUpdate_OldGraph(i, list) ==
    list # NoDependencies =>
        i \notin DOMAIN list /\ ~Cyclic(Prerequisites(Dependencies))

(* The rest of it applies to an item that has an ID already, and not to an  *)
(* empty list.                                                             *)
validUpdate(i, list) ==
    list # NoDependencies =>
        i \notin DOMAIN list /\ ~wouldCreateDependencyCycle(i, list)

validPlanningLinks(project, links) ==
    links # {} =>
        project # None /\ \A plan \in links : plans[plan] = project

(* Two items clash when they have the same kind and title in one project,   *)
(* or outside projects on one board.                                       *)
SameSlot(item, other) ==
    /\ item.kind = other.kind
    /\ item.title = other.title
    /\ item.project = other.project
    /\ item.project = None => item.board = other.board

(* rejectExactDuplicateExcept                                              *)
noDuplicate(i, item) ==
    \A j \in Items \ {i} : Exists(j) => ~SameSlot(item, items[j])

validParent(project, parent) ==
    parent # None =>
        /\ Exists(parent)
        /\ project # None
        /\ items[parent].project = project

-----------------------------------------------------------------------------
(* Operations.                                                             *)

Init ==
    /\ projects = {}
    /\ plans = [plan \in Plans |-> None]
    /\ items = [i \in Items |-> Unborn]

CreateProject(p) ==
    /\ p \notin projects
    /\ projects' = projects \cup {p}
    /\ UNCHANGED <<plans, items>>

(* CreateRelease, CreateSprint and CreateMilestone.                         *)
CreatePlan(plan, p) ==
    /\ plans[plan] = None
    /\ p \in projects
    /\ plans' = [plans EXCEPT ![plan] = p]
    /\ UNCHANGED <<projects, items>>

(* validateDependencies is called with an empty item ID: only the targets   *)
(* are checked.                                                            *)
Create(i, item) ==
    /\ ~Exists(i)
    /\ item.project # None => item.project \in projects
    /\ validParent(item.project, item.parent)
    /\ validPlanningLinks(item.project, item.links)
    /\ validTargets(item.project, item.dependencies)
    /\ noDuplicate(i, item)
    /\ items' = [items EXCEPT ![i] = item]
    /\ UNCHANGED <<projects, plans>>

(* An update that leaves the dependencies out does not validate them again. *)
UpdateWorkItem(i, title, links, list) ==
    LET item == [items[i] EXCEPT !.title = title, !.links = links,
                                 !.dependencies = list]
    IN  /\ Exists(i)
        /\ \/ list = items[i].dependencies
           \/ validTargets(item.project, list) /\ validUpdate(i, list)
        /\ validPlanningLinks(item.project, links)
        /\ noDuplicate(i, item)
        /\ items' = [items EXCEPT ![i] = item]
        /\ UNCHANGED <<projects, plans>>

Next ==
    \/ \E p \in Projects : CreateProject(p)
    \/ \E plan \in Plans, p \in Projects : CreatePlan(plan, p)
    \/ \E i \in Items, item \in ItemType : Create(i, item)
    \/ \E i \in Items, title \in Titles, links \in SUBSET Plans,
          list \in DependencyLists : UpdateWorkItem(i, title, links, list)

Spec == Init /\ [][Next]_vars

-----------------------------------------------------------------------------
(* The schedule of a project, which changes nothing: what waits, when the   *)
(* given items have an effective progress of 100.                           *)

(* Faulty variant: an item waits, too, for those that wait for it.          *)
dependencyBlockedItemIDs_BothWays(counted, done) ==
    {n \in counted : \E m \in counted \ done :
        waitsFor(Dependencies, n, m) \/ waitsFor(Dependencies, m, n)}

dependencyBlockedItemIDs(counted, done) ==
    {n \in counted : \E m \in counted \ done : waitsFor(Dependencies, n, m)}

(* The open items that are listed as waiting for a dependency.              *)
DependencyRisks(counted, done) == dependencyBlockedItemIDs(counted, done) \ done

ProjectItems(p) == {i \in Items : Exists(i) /\ items[i].project = p}

-----------------------------------------------------------------------------
(* Properties.                                                             *)

TypeOK ==
    /\ projects \subseteq Projects
    /\ plans \in [Plans -> Projects \cup {None}]
    /\ items \in [Items -> ItemType \cup {Unborn}]

InProject(i) ==
    /\ items[i].parent # None =>
          /\ Exists(items[i].parent)
          /\ items[items[i].parent].project = items[i].project
    /\ \A target \in DOMAIN items[i].dependencies :
          Exists(target) /\ items[target].project = items[i].project
    /\ \A plan \in items[i].links : plans[plan] = items[i].project
    /\ items[i].project # None => items[i].project \in projects
    /\ items[i].project = None =>
          /\ items[i].parent = None
          /\ items[i].links = {}
          /\ items[i].dependencies = NoDependencies

(* Parents, dependencies and planning records never lead out of an item's   *)
(* project, however items were created and edited: the authorization guard  *)
(* and every project view rely on that.                                    *)
LinksStayInProject == \A i \in Items : Exists(i) => InProject(i)

(* No two items ever share kind and normalized title within a project, or   *)
(* within a board outside projects (ErrDuplicateWorkItem), renaming         *)
(* included.                                                               *)
TitlesAreUnique ==
    \A i, j \in Items :
        i # j /\ Exists(i) /\ Exists(j) => ~SameSlot(items[i], items[j])

(* What holds of projects, links and titles at any time.                    *)
GraphInvariant == TypeOK /\ LinksStayInProject /\ TitlesAreUnique

CyclicNow == Cyclic(Prerequisites(Dependencies))

(* The graph of all items never gets a cycle (ErrCircularDependency).       *)
Acyclic == ~CyclicNow

(* The schedule of a project lists all its open items as waiting for each    *)
(* other only when there is a cycle: whatever is done, and whichever items  *)
(* the view leaves out (Epics), the members have something to work on.      *)
SomethingCanStart ==
    Acyclic =>
        \A p \in Projects : \A counted \in SUBSET ProjectItems(p) :
            \A done \in SUBSET counted :
                DependencyRisks(counted, done) = counted \ done => done = counted

MixedList(list) ==
    \E m, n \in DOMAIN list : list[m] = "depends_on" /\ list[n] = "blocks"

(* The only step that can close a cycle is the creation of an item that     *)
(* blocks one item and depends on another: creating an item with            *)
(* dependencies of one direction cannot, and no update can.                *)
OnlyMixedCreationCloses ==
    [][Acyclic /\ ~Acyclic' =>
          \E i \in Items : ~Exists(i) /\ MixedList(items'[i].dependencies)]_vars

(* No update of an existing item is accepted with dependencies that leave a *)
(* cycle anywhere, in its own project or in another one.                   *)
UpdatesLeaveNoCycle ==
    [][\A i \in Items :
          /\ Exists(i)
          /\ items'[i].dependencies # items[i].dependencies
          /\ items'[i].dependencies # NoDependencies
          => Acyclic']_vars
=============================================================================
