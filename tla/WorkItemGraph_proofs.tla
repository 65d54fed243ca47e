------------------------ MODULE WorkItemGraph_proofs ------------------------
(***************************************************************************)
(* Proofs about WorkItemGraph for any items, projects, planning records,   *)
(* titles, kinds and boards, and about the search it relies on,            *)
(* CycleSearch: on every graph the search answers "cycle" only when there  *)
(* is one and "none" only when there is none.                              *)
(***************************************************************************)
EXTENDS WorkItemGraph, CycleSearch, TLAPS


(* LinksStayInProject and TitlesAreUnique are inductive together with the   *)
(* types.                                                                  *)
IInv == TypeOK /\ LinksStayInProject /\ TitlesAreUnique

-----------------------------------------------------------------------------
(* Lists and rows.                                                         *)

LEMMA ListFacts ==
    ASSUME NEW list \in DependencyLists
    PROVE  /\ DOMAIN list \subseteq Items
           /\ \A target \in DOMAIN list : list[target] \in Relations
           /\ list # NoDependencies <=> DOMAIN list # {}
<1>1. PICK targets \in SUBSET Items : list \in [targets -> Relations]
  BY DEF DependencyLists
<1>2. DOMAIN list = {} => list = NoDependencies
  BY <1>1 DEF NoDependencies
<1>3. QED
  BY <1>1, <1>2 DEF NoDependencies

LEMMA EmptyList == NoDependencies \in DependencyLists
<1>1. NoDependencies \in [{} -> Relations]
  BY DEF NoDependencies
<1>2. {} \in SUBSET Items
  OBVIOUS
<1>3. QED
  BY <1>1, <1>2 DEF DependencyLists

LEMMA RowFacts ==
    ASSUME TypeOK, NEW i \in Items
    PROVE  /\ Exists(i) => items[i] \in ItemType
           /\ items[i] \in ItemType => Exists(i)
           /\ ~Exists(i) => items[i] = Unborn
           /\ items[i].dependencies \in DependencyLists
<1>1. items[i] \in ItemType \/ items[i] = Unborn
  BY DEF TypeOK
<1>2. ASSUME items[i] \in ItemType
      PROVE  items[i].born = TRUE /\ items[i].dependencies \in DependencyLists
  BY <1>2 DEF ItemType
<1>3. Unborn.born = FALSE /\ Unborn.dependencies = NoDependencies
  BY DEF Unborn
<1>4. QED
  BY <1>1, <1>2, <1>3, EmptyList DEF Exists

-----------------------------------------------------------------------------
(* Links and titles.                                                       *)

LEMMA InitIInv == Init => IInv
<1> SUFFICES ASSUME Init PROVE IInv
  OBVIOUS
<1>1. TypeOK
  BY DEF Init, TypeOK
<1>2. \A i \in Items : ~Exists(i)
  BY DEF Init, Exists, Unborn
<1>3. QED
  BY <1>1, <1>2 DEF IInv, LinksStayInProject, TitlesAreUnique

(* Writing a validated row keeps the invariant: the row keeps its project   *)
(* if it existed, so that no link of another item to it is broken.          *)
LEMMA WriteKeepsIInv ==
    ASSUME IInv,
           NEW i \in Items, NEW item \in ItemType,
           Exists(i) => item.project = items[i].project,
           item.project # None => item.project \in projects,
           validPlanningLinks(item.project, item.links),
           noDuplicate(i, item),
           item.parent # None =>
              /\ item.parent \in Items
              /\ Exists(item.parent)
              /\ items[item.parent].project = item.project,
           item.project = None =>
              item.parent = None /\ item.dependencies = NoDependencies,
           \A target \in DOMAIN item.dependencies :
              /\ target \in Items
              /\ Exists(target)
              /\ items[target].project = item.project,
           items' = [items EXCEPT ![i] = item],
           UNCHANGED <<projects, plans>>
    PROVE  IInv'
<1>1. TypeOK'
  BY DEF IInv, TypeOK
<1>2. /\ items'[i] = item
      /\ \A j \in Items \ {i} : items'[j] = items[j]
      /\ item.born = TRUE
  BY DEF IInv, TypeOK, ItemType
<1>3. items'[i].born
  BY <1>2
<1>4. \A j \in Items :
         items[j].born => items'[j].born /\ items'[j].project = items[j].project
  BY <1>2, <1>3 DEF Exists
<1>5. \A j \in Items \ {i} : items'[j].born => items[j].born
  BY <1>2
<1>6. LinksStayInProject'
  <2> SUFFICES ASSUME NEW j \in Items, items'[j].born
               PROVE  InProject(j)'
    BY DEF LinksStayInProject, Exists
  <2>1. CASE j = i
    <3>1. item.parent # None =>
             /\ items'[item.parent].born
             /\ items'[item.parent].project = item.project
      BY <1>4 DEF Exists
    <3>2. \A target \in DOMAIN item.dependencies :
             items'[target].born /\ items'[target].project = item.project
      BY <1>4 DEF Exists
    <3>3. /\ \A plan \in item.links : plans'[plan] = item.project
          /\ item.project = None => item.links = {}
      BY DEF validPlanningLinks
    <3>4. QED
      BY <1>2, <2>1, <3>1, <3>2, <3>3 DEF InProject, Exists
  <2>2. CASE j # i
    <3>1. Exists(j) /\ items'[j] = items[j]
      BY <1>2, <1>5, <2>2 DEF Exists
    <3>2. InProject(j)
      BY <3>1 DEF IInv, LinksStayInProject
    <3>3. items[j] \in ItemType
      BY <3>1, RowFacts DEF IInv
    <3>4. items[j].parent # None => items[j].parent \in Items
      BY <3>3 DEF ItemType
    <3>5. DOMAIN items[j].dependencies \subseteq Items
      BY RowFacts, ListFacts DEF IInv
    <3>6. QED
      BY <1>4, <3>1, <3>2, <3>4, <3>5 DEF InProject, Exists
  <2>3. QED
    BY <2>1, <2>2
<1>7. TitlesAreUnique'
  <2> SUFFICES ASSUME NEW j \in Items, NEW k \in Items, j # k,
                      items'[j].born, items'[k].born
               PROVE  ~SameSlot(items'[j], items'[k])
    BY DEF TitlesAreUnique, Exists
  <2>1. CASE j # i /\ k # i
    BY <1>2, <1>5, <2>1 DEF IInv, TitlesAreUnique, Exists
  <2>2. CASE j = i
    BY <1>2, <1>5, <2>2 DEF noDuplicate, Exists
  <2>3. CASE k = i
    <3>1. ~SameSlot(item, items[j])
      BY <1>5, <2>3 DEF noDuplicate, Exists
    <3>2. QED
      BY <1>2, <2>3, <3>1 DEF SameSlot
  <2>4. QED
    BY <2>1, <2>2, <2>3
<1>8. QED
  BY <1>1, <1>6, <1>7 DEF IInv

LEMMA CreateKeepsIInv ==
    ASSUME IInv, NEW i \in Items, NEW item \in ItemType, Create(i, item)
    PROVE  IInv'
<1>1. /\ item.dependencies \in DependencyLists
      /\ item.parent \in Items \cup {None}
  BY DEF ItemType
<1>2. /\ DOMAIN item.dependencies \subseteq Items
      /\ item.dependencies # NoDependencies <=> DOMAIN item.dependencies # {}
  BY <1>1, ListFacts
<1>3. /\ item.parent # None =>
            /\ item.parent \in Items
            /\ Exists(item.parent)
            /\ items[item.parent].project = item.project
      /\ item.project = None => item.parent = None
  BY <1>1 DEF Create, validParent
<1>4. /\ item.project = None => item.dependencies = NoDependencies
      /\ \A target \in DOMAIN item.dependencies :
            /\ target \in Items
            /\ Exists(target)
            /\ items[target].project = item.project
  BY <1>2 DEF Create, validTargets, targetsInProject
<1>5. QED
  BY <1>3, <1>4, WriteKeepsIInv DEF Create

LEMMA UpdateKeepsIInv ==
    ASSUME IInv, NEW i \in Items, NEW title \in Titles,
           NEW links \in SUBSET Plans, NEW list \in DependencyLists,
           UpdateWorkItem(i, title, links, list)
    PROVE  IInv'
<1> DEFINE item == [items[i] EXCEPT !.title = title, !.links = links,
                                    !.dependencies = list]
<1>1. Exists(i) /\ items[i] \in ItemType
  BY RowFacts DEF IInv, UpdateWorkItem
<1>2. /\ item \in ItemType
      /\ item.project = items[i].project
      /\ item.parent = items[i].parent
      /\ item.links = links
      /\ item.dependencies = list
      /\ items[i].parent \in Items \cup {None}
  BY <1>1 DEF ItemType
<1>3. /\ items[i].project # None => items[i].project \in projects
      /\ items[i].parent # None =>
            /\ Exists(items[i].parent)
            /\ items[items[i].parent].project = items[i].project
      /\ items[i].project = None => items[i].parent = None
  BY <1>1 DEF IInv, LinksStayInProject, InProject
<1>4. /\ DOMAIN list \subseteq Items
      /\ list # NoDependencies <=> DOMAIN list # {}
  BY ListFacts
<1>5. /\ items[i].project = None => list = NoDependencies
      /\ \A target \in DOMAIN list :
            Exists(target) /\ items[target].project = items[i].project
  <2>1. CASE list = items[i].dependencies
    BY <1>1, <2>1 DEF IInv, LinksStayInProject, InProject
  <2>2. CASE validTargets(item.project, list)
    BY <1>2, <1>4, <2>2 DEF validTargets, targetsInProject
  <2>3. QED
    BY <2>1, <2>2 DEF UpdateWorkItem
<1>6. /\ validPlanningLinks(item.project, links)
      /\ noDuplicate(i, item)
      /\ items' = [items EXCEPT ![i] = item]
      /\ UNCHANGED <<projects, plans>>
  BY DEF UpdateWorkItem
<1>7. QED
  <2> HIDE DEF item
  <2>1. QED
    BY <1>1, <1>2, <1>3, <1>4, <1>5, <1>6, WriteKeepsIInv

LEMMA NextIInv == IInv /\ [Next]_vars => IInv'
<1> SUFFICES ASSUME IInv, [Next]_vars PROVE IInv'
  OBVIOUS
<1>1. ASSUME NEW p \in Projects, CreateProject(p) PROVE IInv'
  BY <1>1 DEF IInv, CreateProject, TypeOK, LinksStayInProject,
              InProject, TitlesAreUnique, Exists
<1>2. ASSUME NEW plan \in Plans, NEW p \in Projects, CreatePlan(plan, p)
      PROVE  IInv'
  <2>1. /\ TypeOK'
        /\ TitlesAreUnique'
        /\ \A i \in Items : items'[i] = items[i] /\ Exists(i)' = Exists(i)
    BY <1>2 DEF IInv, CreatePlan, TypeOK, TitlesAreUnique, Exists
  <2>2. \A i \in Items : \A x \in items[i].links :
           Exists(i) /\ plans[x] = items[i].project => plans'[x] = plans[x]
    <3> SUFFICES ASSUME NEW i \in Items, NEW x \in items[i].links,
                        Exists(i), plans[x] = items[i].project
                 PROVE  plans'[x] = plans[x]
      OBVIOUS
    <3>1. items[i] \in ItemType
      BY RowFacts DEF IInv
    <3>2. x \in Plans
      BY <3>1 DEF ItemType
    <3>3. plans[x] # None
      BY <3>2, NoneAssumption DEF IInv, LinksStayInProject, InProject
    <3>4. QED
      BY <1>2, <3>2, <3>3 DEF CreatePlan, IInv, TypeOK
  <2>3. LinksStayInProject'
    <3> SUFFICES ASSUME NEW i \in Items, Exists(i)
                 PROVE  InProject(i)'
      BY <1>2 DEF CreatePlan, LinksStayInProject, Exists
    <3>1. InProject(i)
      BY DEF IInv, LinksStayInProject
    <3>2. items' = items /\ projects' = projects
      BY <1>2 DEF CreatePlan
    <3>3. \A x \in items[i].links : plans'[x] = items[i].project
      BY <2>2, <3>1 DEF InProject
    <3>4. QED
      BY <3>1, <3>2, <3>3 DEF InProject, Exists
  <2>4. QED
    BY <2>1, <2>3 DEF IInv
<1>3. ASSUME NEW i \in Items, NEW item \in ItemType, Create(i, item)
      PROVE  IInv'
  BY <1>3, CreateKeepsIInv
<1>4. ASSUME NEW i \in Items, NEW title \in Titles, NEW links \in SUBSET Plans,
             NEW list \in DependencyLists, UpdateWorkItem(i, title, links, list)
      PROVE  IInv'
  BY <1>4, UpdateKeepsIInv
<1>5. CASE UNCHANGED vars
  BY <1>5 DEF vars, IInv, TypeOK, LinksStayInProject, InProject,
              TitlesAreUnique, Exists
<1>6. QED
  BY <1>1, <1>2, <1>3, <1>4, <1>5 DEF Next

THEOREM Invariance == Spec => []IInv
<1>1. QED
  BY InitIInv, NextIInv, PTL DEF Spec

(* Parents, dependencies and planning records stay within an item's project *)
(* under any history of creations and edits.                               *)
THEOREM LinksNeverLeaveProject == Spec => []LinksStayInProject
<1>1. IInv => LinksStayInProject
  BY DEF IInv
<1>2. QED
  BY <1>1, Invariance, PTL

(* No history of creations and renamings gives two items of one kind the    *)
(* same title in one project (ErrDuplicateWorkItem).                       *)
THEOREM TitlesStayUnique == Spec => []TitlesAreUnique
<1>1. IInv => TitlesAreUnique
  BY DEF IInv
<1>2. QED
  BY <1>1, Invariance, PTL

(* The invariant that the runs check, as a whole.                           *)
THEOREM GraphInvariantHolds == Spec => []GraphInvariant
<1>1. IInv => GraphInvariant
  BY DEF IInv, GraphInvariant
<1>2. QED
  BY <1>1, Invariance, PTL

-----------------------------------------------------------------------------
(* Cycles.                                                                 *)

(* A graph with fewer edges has no cycle that the larger one has not.       *)
LEMMA FewerEdges ==
    ASSUME NEW g \in [Items -> SUBSET Items], NEW h \in [Items -> SUBSET Items],
           \A n \in Items : h[n] \subseteq g[n],
           Cyclic(h)
    PROVE  Cyclic(g)
<1>1. PICK S \in SUBSET Items : S # {} /\ Deadlocked(h, S)
  BY DEF Cyclic
<1>2. Deadlocked(g, S)
  BY <1>1 DEF Deadlocked
<1>3. QED
  BY <1>1, <1>2 DEF Cyclic

(* An item that only waits, or is only waited for, is on no cycle: a graph  *)
(* that is acyclic without the item i is acyclic with it.                  *)
LEMMA OneWayNode ==
    ASSUME NEW g \in [Items -> SUBSET Items], NEW h \in [Items -> SUBSET Items],
           NEW i \in Items,
           \A n \in Items \ {i} : h[n] \subseteq g[n] \cup {i},
           h[i] = {} \/ \A n \in Items : i \notin h[n],
           i \notin h[i],
           Cyclic(h)
    PROVE  Cyclic(g)
<1>1. PICK S \in SUBSET Items : S # {} /\ Deadlocked(h, S)
  BY DEF Cyclic
<1>2. CASE h[i] = {}
  <2>1. i \notin S
    BY <1>1, <1>2 DEF Deadlocked
  <2>2. Deadlocked(g, S)
    BY <1>1, <2>1 DEF Deadlocked
  <2>3. QED
    BY <1>1, <2>2 DEF Cyclic
<1>3. CASE \A n \in Items : i \notin h[n]
  <2>1. S \ {i} # {}
    BY <1>1, <1>3 DEF Deadlocked
  <2>2. Deadlocked(g, S \ {i})
    BY <1>1, <1>3 DEF Deadlocked
  <2>3. S \ {i} \in SUBSET DOMAIN g
    OBVIOUS
  <2>4. QED
    BY <2>1, <2>2, <2>3 DEF Cyclic
<1>4. QED
  BY <1>2, <1>3

LEMMA GraphType ==
    ASSUME NEW deps
    PROVE  /\ Prerequisites(deps) \in [Items -> SUBSET Items]
           /\ \A n, m \in Items :
                 m \in Prerequisites(deps)[n] <=> waitsFor(deps, n, m)
  BY DEF Prerequisites

LEMMA WriteChangesDependencies ==
    ASSUME TypeOK, NEW i \in Items, NEW item,
           items' = [items EXCEPT ![i] = item]
    PROVE  Dependencies' = [Dependencies EXCEPT ![i] = item.dependencies]
  BY DEF TypeOK, Dependencies

(* What an update may do to the graph.                                     *)
LEMMA UpdateAndCycles ==
    ASSUME IInv, NEW i \in Items, NEW title \in Titles,
           NEW links \in SUBSET Plans, NEW list \in DependencyLists,
           UpdateWorkItem(i, title, links, list)
    PROVE  /\ Dependencies' = [Dependencies EXCEPT ![i] = list]
           /\ items'[i].dependencies = list
           /\ \A j \in Items \ {i} : items'[j] = items[j]
           /\ \/ list = items[i].dependencies
              \/ list = NoDependencies
              \/ Acyclic'
<1> DEFINE item == [items[i] EXCEPT !.title = title, !.links = links,
                                    !.dependencies = list]
<1>1. items[i] \in ItemType /\ items' = [items EXCEPT ![i] = item]
  BY RowFacts DEF IInv, UpdateWorkItem
<1>2. item.dependencies = list
  BY <1>1 DEF ItemType
<1>3. Dependencies' = [Dependencies EXCEPT ![i] = list]
  BY <1>1, <1>2, WriteChangesDependencies DEF IInv
<1>4. /\ items'[i].dependencies = list
      /\ \A j \in Items \ {i} : items'[j] = items[j]
  BY <1>1, <1>2 DEF IInv, TypeOK
<1>5. \/ list = items[i].dependencies
      \/ list = NoDependencies
      \/ ~Cyclic(Prerequisites([Dependencies EXCEPT ![i] = list]))
  BY DEF UpdateWorkItem, validUpdate, wouldCreateDependencyCycle
<1>6. Prerequisites(Dependencies)' = Prerequisites(Dependencies')
  BY DEF Prerequisites, waitsFor
<1>7. QED
  BY <1>3, <1>4, <1>5, <1>6 DEF Acyclic, CyclicNow, Cyclic, Deadlocked

LEMMA UpdateClosesNoCycle ==
    ASSUME IInv, NEW i \in Items, NEW title \in Titles,
           NEW links \in SUBSET Plans, NEW list \in DependencyLists,
           UpdateWorkItem(i, title, links, list), Acyclic
    PROVE  Acyclic'
<1>1. Prerequisites(Dependencies)' = Prerequisites(Dependencies')
  BY DEF Prerequisites, waitsFor
<1>2. /\ Dependencies' = [Dependencies EXCEPT ![i] = list]
      /\ \/ list = items[i].dependencies
         \/ list = NoDependencies
         \/ Acyclic'
  BY UpdateAndCycles
<1>3. CASE list = items[i].dependencies
  <2>1. Dependencies' = Dependencies
    BY <1>2, <1>3 DEF Dependencies
  <2>2. QED
    BY <1>1, <2>1 DEF Acyclic, CyclicNow, Cyclic, Deadlocked
<1>4. CASE list = NoDependencies
  <2> DEFINE old == Dependencies
             new == [old EXCEPT ![i] = NoDependencies]
  <2>1. /\ new[i] = NoDependencies
        /\ \A n \in Items \ {i} : new[n] = old[n]
        /\ DOMAIN NoDependencies = {}
    BY DEF Dependencies, NoDependencies
  <2>2. \A n, m \in Items : waitsFor(new, n, m) => waitsFor(old, n, m)
    <3> HIDE DEF new, old
    <3>1. QED
      BY <2>1 DEF waitsFor
  <2>3. \A n \in Items : Prerequisites(new)[n] \subseteq Prerequisites(old)[n]
    <3> HIDE DEF new, old
    <3>1. QED
      BY <2>2, GraphType
  <2>4. Cyclic(Prerequisites(new)) => Cyclic(Prerequisites(old))
    <3> HIDE DEF new, old
    <3>1. QED
      BY <2>3, GraphType, FewerEdges
  <2>5. ~Cyclic(Prerequisites(Dependencies'))
    BY <1>2, <1>4, <2>4 DEF Acyclic, CyclicNow
  <2>6. QED
    BY <1>1, <2>5 DEF Acyclic, CyclicNow, Cyclic, Deadlocked
<1>5. QED
  BY <1>2, <1>3, <1>4

(* Nobody names the item before it exists, so after its creation it has     *)
(* edges in the direction of its own list only.                            *)
LEMMA OneWayCreationClosesNoCycle ==
    ASSUME IInv, NEW i \in Items, NEW item \in ItemType, Create(i, item),
           ~MixedList(item.dependencies), Acyclic
    PROVE  Acyclic'
<1> DEFINE list == item.dependencies
           old == Dependencies
           new == [old EXCEPT ![i] = list]
<1>1. Prerequisites(Dependencies)' = Prerequisites(Dependencies')
  BY DEF Prerequisites, waitsFor
<1>2. items' = [items EXCEPT ![i] = item] /\ ~Exists(i)
  BY DEF Create
<1>3. Dependencies' = new
  BY <1>2, WriteChangesDependencies DEF IInv
<1>4. /\ new[i] = list
      /\ \A n \in Items \ {i} : new[n] = old[n]
  BY DEF Dependencies
<1>5. /\ list \in DependencyLists
      /\ DOMAIN list \subseteq Items
      /\ \A target \in DOMAIN list : Exists(target)
      /\ list # NoDependencies <=> DOMAIN list # {}
  <2>1. list \in DependencyLists
    BY DEF ItemType
  <2>2. /\ DOMAIN list \subseteq Items
        /\ list # NoDependencies <=> DOMAIN list # {}
    BY <2>1, ListFacts
  <2>3. \A target \in DOMAIN list : Exists(target)
    BY <2>2 DEF Create, validTargets, targetsInProject
  <2>4. QED
    BY <2>1, <2>2, <2>3
<1>6. i \notin DOMAIN list
  BY <1>2, <1>5
<1>7. \A n \in Items : i \notin DOMAIN old[n]
  <2> SUFFICES ASSUME NEW n \in Items PROVE i \notin DOMAIN items[n].dependencies
    BY DEF Dependencies
  <2>1. CASE Exists(n)
    BY <1>2, <2>1 DEF IInv, LinksStayInProject, InProject
  <2>2. CASE ~Exists(n)
    <3>1. items[n].dependencies = NoDependencies
      BY <2>2, RowFacts DEF IInv, Unborn
    <3>2. QED
      BY <3>1 DEF NoDependencies
  <2>3. QED
    BY <2>1, <2>2
<1>8. \A n \in Items \ {i} :
         Prerequisites(new)[n] \subseteq Prerequisites(old)[n] \cup {i}
  <2> HIDE DEF new, old
  <2>1. ASSUME NEW n \in Items \ {i}, NEW m \in Items \ {i}, waitsFor(new, n, m)
        PROVE  waitsFor(old, n, m)
    BY <1>4, <2>1 DEF waitsFor
  <2>2. QED
    BY <2>1, GraphType
<1>9. i \notin Prerequisites(new)[i]
  <2> HIDE DEF new, old, list
  <2>1. ~waitsFor(new, i, i)
    BY <1>4, <1>6 DEF waitsFor
  <2>2. QED
    BY <2>1, GraphType
<1>10. \/ \A m \in DOMAIN list : list[m] # "depends_on"
       \/ \A m \in DOMAIN list : list[m] # "blocks"
  BY DEF MixedList
<1>11. Prerequisites(new)[i] = {} \/ \A n \in Items : i \notin Prerequisites(new)[n]
  <2> HIDE DEF new, old, list
  <2>1. ASSUME \A m \in DOMAIN list : list[m] # "depends_on"
        PROVE  Prerequisites(new)[i] = {}
    <3>1. \A m \in Items : ~waitsFor(new, i, m)
      BY <1>4, <1>6, <1>7, <2>1 DEF waitsFor
    <3>2. QED
      BY <3>1, GraphType
  <2>2. ASSUME \A m \in DOMAIN list : list[m] # "blocks"
        PROVE  \A n \in Items : i \notin Prerequisites(new)[n]
    <3>1. \A n \in Items : ~waitsFor(new, n, i)
      BY <1>4, <1>6, <1>7, <2>2 DEF waitsFor
    <3>2. QED
      BY <3>1, GraphType
  <2>3. QED
    BY <1>10, <2>1, <2>2
<1>12. Cyclic(Prerequisites(new)) => Cyclic(Prerequisites(old))
  <2> HIDE DEF new, old, list
  <2>1. QED
    BY <1>8, <1>9, <1>11, GraphType, OneWayNode
<1>13. ~Cyclic(Prerequisites(Dependencies'))
  BY <1>3, <1>12 DEF Acyclic, CyclicNow
<1>14. QED
  BY <1>1, <1>13 DEF Acyclic, CyclicNow, Cyclic, Deadlocked

LEMMA GraphUnchanged ==
    ASSUME items' = items
    PROVE  Acyclic' = Acyclic
  BY DEF Acyclic, CyclicNow, Cyclic, Deadlocked, Prerequisites, waitsFor,
         Dependencies

(* In an acyclic graph no schedule lists every open item as waiting for      *)
(* another one: what is open would be a set that waits for itself.          *)
THEOREM ScheduleLeavesWork == Spec => []SomethingCanStart
<1>1. SomethingCanStart
  <2> SUFFICES ASSUME Acyclic, NEW p \in Projects,
                      NEW counted \in SUBSET ProjectItems(p),
                      NEW done \in SUBSET counted,
                      DependencyRisks(counted, done) = counted \ done,
                      done # counted
               PROVE  FALSE
    BY DEF SomethingCanStart
  <2> DEFINE open == counted \ done
  <2>1. open \in SUBSET Items /\ open # {}
    BY DEF ProjectItems
  <2>2. DOMAIN Prerequisites(Dependencies) = Items
    BY DEF Prerequisites
  <2>3. ASSUME NEW n \in open
        PROVE  Prerequisites(Dependencies)[n] \cap open # {}
    <3>1. PICK m \in open : waitsFor(Dependencies, n, m)
      BY <2>3 DEF DependencyRisks, dependencyBlockedItemIDs
    <3>2. m \in Prerequisites(Dependencies)[n]
      BY <2>1, <2>3, <3>1 DEF Prerequisites
    <3>3. QED
      BY <3>1, <3>2
  <2>4. QED
    BY <2>1, <2>2, <2>3 DEF Acyclic, CyclicNow, Cyclic, Deadlocked
<1>2. QED
  BY <1>1, PTL

(* A cycle can only be closed by creating an item that blocks one item and  *)
(* depends on another one; every other history keeps the graph acyclic.    *)
THEOREM OnlyMixedCreations == Spec => OnlyMixedCreationCloses
<1> DEFINE Mixed == \E i \in Items :
                       ~Exists(i) /\ MixedList(items'[i].dependencies)
<1>1. IInv /\ [Next]_vars => (Acyclic /\ ~Acyclic' => Mixed)
  <2> SUFFICES ASSUME IInv, [Next]_vars, Acyclic, ~Acyclic' PROVE Mixed
    OBVIOUS
  <2>others. CASE \/ UNCHANGED vars
                  \/ \E p \in Projects : CreateProject(p)
                  \/ \E plan \in Plans, p \in Projects : CreatePlan(plan, p)
    BY <2>others, GraphUnchanged DEF CreateProject, CreatePlan, vars
  <2>update. ASSUME NEW i \in Items, NEW title \in Titles,
                    NEW links \in SUBSET Plans, NEW list \in DependencyLists,
                    UpdateWorkItem(i, title, links, list)
             PROVE  Mixed
    BY <2>update, UpdateClosesNoCycle
  <2>create. ASSUME NEW i \in Items, NEW item \in ItemType, Create(i, item)
             PROVE  Mixed
    <3>1. MixedList(item.dependencies)
      BY <2>create, OneWayCreationClosesNoCycle
    <3>2. ~Exists(i) /\ items'[i] = item
      BY <2>create DEF Create, IInv, TypeOK
    <3>3. QED
      BY <3>1, <3>2
  <2>. HIDE DEF Mixed
  <2>. QED
    BY <2>others, <2>update, <2>create DEF Next
<1>2. QED
  BY <1>1, Invariance, PTL DEF Spec, OnlyMixedCreationCloses

(* No update of an existing item is accepted with dependencies that leave a *)
(* cycle anywhere in the graph (validateDependencies).                     *)
THEOREM UpdatesAreSafe == Spec => UpdatesLeaveNoCycle
<1> DEFINE Safe(i) == /\ Exists(i)
                      /\ items'[i].dependencies # items[i].dependencies
                      /\ items'[i].dependencies # NoDependencies
                      => Acyclic'
<1>1. IInv /\ [Next]_vars => \A i \in Items : Safe(i)
  <2> SUFFICES ASSUME IInv, [Next]_vars, NEW j \in Items, Exists(j),
                      items'[j].dependencies # items[j].dependencies,
                      items'[j].dependencies # NoDependencies
               PROVE  Acyclic'
    OBVIOUS
  <2>onlyUpdates. PICK i \in Items, title \in Titles, links \in SUBSET Plans,
                       list \in DependencyLists : UpdateWorkItem(i, title, links, list)
    <3>1. \A i \in Items, item \in ItemType : ~Create(i, item)
      BY DEF Create, IInv, TypeOK
    <3>2. items' # items
      OBVIOUS
    <3>3. QED
      BY <3>1, <3>2 DEF Next, CreateProject, CreatePlan, vars
  <2>update. /\ items'[i].dependencies = list
             /\ \A k \in Items \ {i} : items'[k] = items[k]
             /\ \/ list = items[i].dependencies
                \/ list = NoDependencies
                \/ Acyclic'
    BY <2>onlyUpdates, UpdateAndCycles
  <2>. QED
    BY <2>update
<1>2. IInv /\ [Next]_vars => [\A i \in Items : Safe(i)]_vars
  BY <1>1
<1>3. QED
  BY <1>2, Invariance, PTL DEF Spec, UpdatesLeaveNoCycle

-----------------------------------------------------------------------------
(* The search for a cycle.                                                  *)

(* The innermost call belongs to an item of the graph, and dropping it      *)
(* leaves a stack of the right shape.                                      *)
LEMMA StackShape ==
    ASSUME stack \in Seq(Frames), stack # <<>>
    PROVE  /\ Len(stack) \in Nat \ {0}
           /\ Len(stack) \in DOMAIN stack
           /\ Top \in Frames
           /\ DOMAIN stack = 1..Len(stack)
           /\ SubSeq(stack, 1, Len(stack) - 1) \in Seq(Frames)
           /\ Len(SubSeq(stack, 1, Len(stack) - 1)) = Len(stack) - 1
           /\ \A k \in 1..(Len(stack) - 1) :
                 SubSeq(stack, 1, Len(stack) - 1)[k] = stack[k]
<1>1. Len(stack) \in Nat \ {0}
  OBVIOUS
<1>2. DOMAIN stack = 1..Len(stack)
  OBVIOUS
<1>3. Top \in Frames
  BY <1>1, <1>2 DEF Top
<1>4. SubSeq(stack, 1, Len(stack) - 1) \in Seq(Frames)
  BY <1>1, <1>2
<1>5. /\ Len(SubSeq(stack, 1, Len(stack) - 1)) = Len(stack) - 1
      /\ \A k \in 1..(Len(stack) - 1) :
            SubSeq(stack, 1, Len(stack) - 1)[k] = stack[k]
  BY <1>1, <1>2
<1>6. QED
  BY <1>1, <1>2, <1>3, <1>4, <1>5

(* The loop of the innermost call loses one prerequisite, the rest of the   *)
(* stack stays.                                                            *)
LEMMA CallerShape ==
    ASSUME stack \in Seq(Frames), stack # <<>>, NEW n \in Nodes
    PROVE  /\ Caller(n) \in Seq(Frames)
           /\ Len(Caller(n)) = Len(stack)
           /\ DOMAIN Caller(n) = DOMAIN stack
           /\ \A k \in DOMAIN stack :
                 /\ Caller(n)[k].node = stack[k].node
                 /\ Caller(n)[k].rest = IF k = Len(stack)
                                        THEN stack[k].rest \ {n}
                                        ELSE stack[k].rest
<1>1. /\ Len(stack) \in DOMAIN stack
      /\ DOMAIN stack = 1..Len(stack)
      /\ \A k \in DOMAIN stack : stack[k] \in Frames
  BY StackShape
<1>2. /\ DOMAIN Caller(n) = DOMAIN stack
      /\ \A k \in DOMAIN stack :
            Caller(n)[k] = IF k = Len(stack)
                           THEN [stack[k] EXCEPT !.rest = @ \ {n}]
                           ELSE stack[k]
  BY <1>1 DEF Caller
<1>3. \A k \in DOMAIN stack : Caller(n)[k] \in Frames
  BY <1>1, <1>2 DEF Frames
<1>4. Caller(n) \in Seq(Frames) /\ Len(Caller(n)) = Len(stack)
  BY <1>1, <1>2, <1>3 DEF Caller
<1>5. \A k \in DOMAIN stack :
         /\ Caller(n)[k].node = stack[k].node
         /\ Caller(n)[k].rest = IF k = Len(stack)
                                THEN stack[k].rest \ {n}
                                ELSE stack[k].rest
  BY <1>1, <1>2 DEF Frames
<1>6. QED
  BY <1>2, <1>4, <1>5
-----------------------------------------------------------------------------
(* Progress is inductive.                                                  *)

(* One beginning of hasCycle(n), called by the outer loop or by the         *)
(* innermost active call, keeps Progress.  `callers` is the stack with n    *)
(* taken off the list of its innermost call.                               *)
LEMMA HasCycleKeepsProgress ==
    ASSUME Progress,
           NEW n \in Nodes, NEW callers \in Seq(Frames),
           Len(callers) = Len(stack),
           DOMAIN callers = DOMAIN stack,
           \A k \in DOMAIN stack :
              /\ callers[k].node = stack[k].node
              /\ callers[k].rest \subseteq stack[k].rest
              /\ k < Len(stack) => callers[k].rest = stack[k].rest
              /\ stack[k].rest \ callers[k].rest \subseteq {n}
              /\ k = Len(stack) => n \in prerequisites[stack[k].node],
           roots' \subseteq roots, roots \subseteq roots' \cup {n},
           hasCycle(n, callers),
           prerequisites' = prerequisites,
           visited' = visited
    PROVE  Progress'
<1>1. CASE n \in visiting
  <2>1. stack' = stack /\ visiting' = visiting /\ answer' = "cycle"
    BY <1>1 DEF hasCycle
  <2>2. SearchTypeOK'
    BY <2>1 DEF Progress, SearchTypeOK, Graphs
  <2>3. Keys' \subseteq roots' \cup visited' \cup visiting'
    BY <1>1, <2>1 DEF Progress, Keys
  <2>4. QED
    BY <2>1, <2>2, <2>3 DEF Progress, Deadlocked
<1>2. CASE n \notin visiting /\ n \in visited
  <2>1. stack' = callers /\ visiting' = visiting /\ answer' = answer
    BY <1>2 DEF hasCycle
  <2>2. SearchTypeOK'
    BY <2>1 DEF Progress, SearchTypeOK, Graphs
  <2>3. Keys' \subseteq roots' \cup visited' \cup visiting'
    BY <1>2, <2>1 DEF Progress, Keys
  <2>4. visiting' = {stack'[k].node : k \in DOMAIN stack'}
    BY <2>1 DEF Progress
  <2>pathBehind. \A k \in DOMAIN stack' :
           \A m \in prerequisites[stack'[k].node] \ stack'[k].rest :
              \/ m \in visited
              \/ k < Len(stack') /\ m = stack'[k + 1].node
    <3> SUFFICES ASSUME NEW k \in DOMAIN stack,
                        NEW m \in prerequisites[callers[k].node] \ callers[k].rest
                 PROVE  \/ m \in visited
                        \/ k < Len(callers) /\ m = callers[k + 1].node
      BY <2>1
    <3>1. CASE m = n
      BY <1>2, <3>1
    <3>2. CASE m # n
      <4>1. m \in prerequisites[stack[k].node] \ stack[k].rest
        BY <3>2
      <4>2. CASE m \in visited
        BY <4>2
      <4>3. CASE k < Len(stack) /\ m = stack[k + 1].node
        <5>1. k + 1 \in DOMAIN stack
          BY <4>3 DEF Progress, SearchTypeOK
        <5>2. QED
          BY <4>3, <5>1
      <4>4. QED
        BY <4>1, <4>2, <4>3 DEF Progress
    <3>3. QED
      BY <3>1, <3>2
  <2>pathAhead. \A k \in DOMAIN stack' :
           k < Len(stack') =>
              stack'[k + 1].node \in prerequisites[stack'[k].node]
    <3> SUFFICES ASSUME NEW k \in DOMAIN stack, k < Len(stack)
                 PROVE  callers[k + 1].node \in prerequisites[callers[k].node]
      BY <2>1
    <3>1. k + 1 \in DOMAIN stack
      BY DEF Progress, SearchTypeOK
    <3>2. QED
      BY <3>1 DEF Progress
  <2>7. \A j, k \in DOMAIN stack' : stack'[j].node = stack'[k].node => j = k
    BY <2>1 DEF Progress
  <2>8. \A k \in DOMAIN stack' :
           stack'[k].rest \subseteq prerequisites[stack'[k].node]
    BY <2>1 DEF Progress
  <2>. QED
    BY <2>1, <2>2, <2>3, <2>4, <2>7, <2>8, <2>pathBehind, <2>pathAhead DEF Progress, Deadlocked
<1>3. CASE n \notin visiting \cup visited
  <2> DEFINE frame == [node |-> n, rest |-> prerequisites[n]]
  <2>1. /\ stack' = Append(callers, frame)
        /\ visiting' = visiting \cup {n}
        /\ answer' = answer
    BY <1>3 DEF hasCycle
  <2>2. frame \in Frames
    BY DEF Progress, SearchTypeOK, Graphs, Frames
  <2>3. /\ stack' \in Seq(Frames)
        /\ Len(stack) \in Nat
        /\ DOMAIN stack = 1..Len(stack)
        /\ Len(stack') = Len(stack) + 1
        /\ DOMAIN stack' = 1..(Len(stack) + 1)
        /\ stack'[Len(stack) + 1] = frame
        /\ \A k \in DOMAIN stack : stack'[k] = callers[k]
    BY <2>1, <2>2 DEF Progress, SearchTypeOK
  <2>4. SearchTypeOK'
    BY <2>1, <2>3 DEF Progress, SearchTypeOK, Graphs
  <2>5. Keys' \subseteq roots' \cup visited' \cup visiting'
    BY <2>1 DEF Progress, Keys
  <2>6. visiting' = {stack'[k].node : k \in DOMAIN stack'}
    <3>1. ASSUME NEW x \in visiting'
          PROVE  \E k \in DOMAIN stack' : x = stack'[k].node
      <4>1. CASE x = n
        BY <2>3, <4>1
      <4>2. CASE x \in visiting
        <5>1. PICK k \in DOMAIN stack : x = stack[k].node
          BY <4>2 DEF Progress
        <5>2. QED
          BY <2>3, <5>1
      <4>3. QED
        BY <2>1, <4>1, <4>2
    <3>2. ASSUME NEW k \in DOMAIN stack'
          PROVE  stack'[k].node \in visiting'
      <4>1. CASE k = Len(stack) + 1
        BY <2>1, <2>3, <4>1
      <4>2. CASE k \in DOMAIN stack
        BY <2>1, <2>3, <4>2 DEF Progress
      <4>3. QED
        BY <2>3, <4>1, <4>2
    <3>3. QED
      BY <3>1, <3>2
  <2>7. \A j, k \in DOMAIN stack' : stack'[j].node = stack'[k].node => j = k
    <3>1. \A k \in DOMAIN stack : stack'[k].node # n
      BY <1>3, <2>3 DEF Progress
    <3>2. stack'[Len(stack) + 1].node = n
      BY <2>3
    <3>3. \A j, k \in DOMAIN stack : stack'[j].node = stack'[k].node => j = k
      BY <2>3 DEF Progress
    <3>4. \A k \in DOMAIN stack' : k \in DOMAIN stack \/ k = Len(stack) + 1
      BY <2>3
    <3>5. QED
      BY <3>1, <3>2, <3>3, <3>4
  <2>8. ASSUME NEW k \in DOMAIN stack'
        PROVE  /\ stack'[k].rest \subseteq prerequisites[stack'[k].node]
               /\ \A m \in prerequisites[stack'[k].node] \ stack'[k].rest :
                     \/ m \in visited
                     \/ k < Len(stack') /\ m = stack'[k + 1].node
               /\ k < Len(stack') =>
                     stack'[k + 1].node \in prerequisites[stack'[k].node]
    <3>1. CASE k = Len(stack) + 1
      BY <2>3, <3>1
    <3>2. CASE k = Len(stack) /\ k \in DOMAIN stack
      <4>1. stack'[k + 1].node = n /\ stack'[k] = callers[k]
        BY <2>3, <3>2
      <4>2. \A m \in prerequisites[stack[k].node] \ stack[k].rest : m \in visited
        BY <2>3, <3>2 DEF Progress
      <4>3. QED
        BY <2>3, <3>2, <4>1, <4>2 DEF Progress
    <3>3. CASE k < Len(stack) /\ k \in DOMAIN stack
      <4>1. /\ k + 1 \in DOMAIN stack
            /\ stack'[k].node = stack[k].node
            /\ stack'[k].rest = stack[k].rest
            /\ stack'[k + 1].node = stack[k + 1].node
        BY <2>3, <3>3
      <4>2. QED
        BY <2>3, <3>3, <4>1 DEF Progress
    <3>4. QED
      BY <2>3, <3>1, <3>2, <3>3
  <2>9. QED
    BY <1>3, <2>1, <2>4, <2>5, <2>6, <2>7, <2>8 DEF Progress, Deadlocked
<1>4. QED
  BY <1>1, <1>2, <1>3

LEMMA ProgressInit == SearchInit => Progress
<1> SUFFICES ASSUME SearchInit PROVE Progress
  OBVIOUS
<1>1. SearchTypeOK
  BY DEF SearchInit, SearchTypeOK, Keys
<1>2. QED
  BY <1>1 DEF SearchInit, Progress

LEMMA TryRootKeepsProgress ==
    ASSUME Progress, NEW n \in Nodes, TryRoot(n)
    PROVE  Progress'
<1>1. stack \in Seq(Frames) /\ Len(stack) = 0 /\ DOMAIN stack = {}
  BY DEF Progress, SearchTypeOK, TryRoot
<1>2. QED
  BY <1>1, HasCycleKeepsProgress DEF TryRoot

LEMMA TryPrerequisiteKeepsProgress ==
    ASSUME Progress, NEW n \in Nodes, TryPrerequisite(n)
    PROVE  Progress'
<1>1. stack \in Seq(Frames) /\ stack # <<>>
  BY DEF Progress, SearchTypeOK, TryPrerequisite
<1>2. n \in prerequisites[stack[Len(stack)].node]
  BY <1>1, StackShape DEF Progress, TryPrerequisite, Top
<1>3. /\ hasCycle(n, Caller(n))
      /\ roots' = roots
      /\ prerequisites' = prerequisites
      /\ visited' = visited
  BY DEF TryPrerequisite
<1>4. /\ Caller(n) \in Seq(Frames)
      /\ Len(Caller(n)) = Len(stack)
      /\ DOMAIN Caller(n) = DOMAIN stack
      /\ \A k \in DOMAIN stack :
            /\ Caller(n)[k].node = stack[k].node
            /\ Caller(n)[k].rest = IF k = Len(stack)
                                   THEN stack[k].rest \ {n}
                                   ELSE stack[k].rest
  BY <1>1, CallerShape
<1>5. \A k \in DOMAIN stack :
         /\ Caller(n)[k].node = stack[k].node
         /\ Caller(n)[k].rest \subseteq stack[k].rest
         /\ k < Len(stack) => Caller(n)[k].rest = stack[k].rest
         /\ stack[k].rest \ Caller(n)[k].rest \subseteq {n}
         /\ k = Len(stack) => n \in prerequisites[stack[k].node]
  <2> TAKE k \in DOMAIN stack
  <2>1. CASE k = Len(stack)
    <3>1. Caller(n)[k].rest = stack[k].rest \ {n}
      BY <1>4, <2>1
    <3>2. ~(k < Len(stack))
      BY <1>1, <2>1
    <3>3. QED
      BY <1>2, <1>4, <2>1, <3>1, <3>2
  <2>2. CASE k # Len(stack)
    <3>1. Caller(n)[k].rest = stack[k].rest
      BY <1>4, <2>2
    <3>2. QED
      BY <1>4, <2>2, <3>1
  <2>3. QED
    BY <2>1, <2>2
<1>6. QED
  BY <1>3, <1>4, <1>5, HasCycleKeepsProgress

(* When the innermost call returns, all it waits for is visited.  A set of  *)
(* items that wait for each other and contains it would contain one of      *)
(* those, and none of them is in such a set.                               *)
LEMMA ReturnKeepsProgress ==
    ASSUME Progress, Return
    PROVE  Progress'
<1> DEFINE len == Len(stack)
           v == Top.node
<1>1. /\ stack \in Seq(Frames)
      /\ len \in Nat \ {0}
      /\ DOMAIN stack = 1..len
      /\ len \in DOMAIN stack
      /\ Top = stack[len]
      /\ Top \in Frames
      /\ stack' \in Seq(Frames)
      /\ Len(stack') = len - 1
      /\ DOMAIN stack' = 1..(len - 1)
      /\ \A k \in 1..(len - 1) : stack'[k] = stack[k]
  BY StackShape DEF Progress, SearchTypeOK, Return, Top
<1>2. /\ visiting' = visiting \ {v}
      /\ visited' = visited \cup {v}
      /\ prerequisites' = prerequisites
      /\ roots' = roots
      /\ answer' = answer
      /\ Top.rest = {}
  BY DEF Return, leave
<1>3. v \in Nodes /\ v \in visiting
  BY <1>1 DEF Frames, Progress
<1>4. prerequisites[v] \subseteq visited
  BY <1>1, <1>2 DEF Progress
<1>5. SearchTypeOK'
  BY <1>1, <1>2, <1>3 DEF Progress, SearchTypeOK, Graphs
<1>6. visiting' = {stack'[k].node : k \in DOMAIN stack'}
  <2>1. ASSUME NEW x \in visiting'
        PROVE  \E k \in DOMAIN stack' : x = stack'[k].node
    <3>1. PICK k \in DOMAIN stack : x = stack[k].node
      BY <1>2 DEF Progress
    <3>2. k # len
      BY <1>1, <1>2, <3>1
    <3>3. QED
      BY <1>1, <3>1, <3>2
  <2>2. ASSUME NEW k \in DOMAIN stack'
        PROVE  stack'[k].node \in visiting'
    <3>1. k \in DOMAIN stack /\ k # len /\ stack'[k] = stack[k]
      BY <1>1
    <3>2. stack[k].node \in visiting /\ stack[k].node # v
      BY <1>1, <3>1 DEF Progress
    <3>3. QED
      BY <1>2, <3>1, <3>2
  <2>3. QED
    BY <2>1, <2>2
<1>7. ASSUME NEW k \in DOMAIN stack'
      PROVE  /\ stack'[k].rest \subseteq prerequisites[stack'[k].node]
             /\ \A m \in prerequisites[stack'[k].node] \ stack'[k].rest :
                   \/ m \in visited'
                   \/ k < Len(stack') /\ m = stack'[k + 1].node
             /\ k < Len(stack') =>
                   stack'[k + 1].node \in prerequisites[stack'[k].node]
  <2>1. /\ k \in DOMAIN stack
        /\ k < len
        /\ k + 1 \in DOMAIN stack
        /\ stack'[k] = stack[k]
        /\ k < len - 1 => stack'[k + 1] = stack[k + 1]
        /\ k = len - 1 => stack[k + 1].node = v
    BY <1>1
  <2>2. /\ stack[k].rest \subseteq prerequisites[stack[k].node]
        /\ \A m \in prerequisites[stack[k].node] \ stack[k].rest :
              m \in visited \/ m = stack[k + 1].node
        /\ stack[k + 1].node \in prerequisites[stack[k].node]
    BY <2>1 DEF Progress
  <2>3. QED
    BY <1>1, <1>2, <2>1, <2>2
<1>8. \A j, k \in DOMAIN stack' : stack'[j].node = stack'[k].node => j = k
  BY <1>1 DEF Progress
<1>9. \A n \in visited' : prerequisites[n] \subseteq visited'
  BY <1>2, <1>4 DEF Progress
<1>10. visiting' \cap visited' = {}
  BY <1>2 DEF Progress
<1>11. Keys' \subseteq roots' \cup visited' \cup visiting'
  BY <1>2 DEF Progress, Keys
<1>12. ASSUME NEW S \in SUBSET Nodes, Deadlocked(prerequisites, S)
       PROVE  S \cap visited' = {}
  <2>1. S \cap visited = {}
    BY <1>12 DEF Progress
  <2>2. v \notin S
    BY <1>4, <1>12, <2>1 DEF Deadlocked
  <2>3. QED
    BY <1>2, <2>1, <2>2
<1>13. /\ \A n \in visited' : prerequisites'[n] \subseteq visited'
       /\ \A S \in SUBSET Nodes :
             Deadlocked(prerequisites', S) => S \cap visited' = {}
  BY <1>2, <1>9, <1>12
<1>14. \A k \in DOMAIN stack' :
          /\ stack'[k].rest \subseteq prerequisites'[stack'[k].node]
          /\ \A m \in prerequisites'[stack'[k].node] \ stack'[k].rest :
                \/ m \in visited'
                \/ k < Len(stack') /\ m = stack'[k + 1].node
          /\ k < Len(stack') =>
                stack'[k + 1].node \in prerequisites'[stack'[k].node]
  BY <1>2, <1>7
<1>15. QED
  BY <1>5, <1>6, <1>8, <1>10, <1>11, <1>13, <1>14 DEF Progress, Deadlocked

(* Progress holds in every state of the search.                            *)
THEOREM ProgressHolds == SearchSpec => []Progress
<1>1. SearchInit => Progress
  BY ProgressInit
<1>2. Progress /\ [SearchNext]_searchVars => Progress'
  <2> SUFFICES ASSUME Progress, [SearchNext]_searchVars PROVE Progress'
    OBVIOUS
  <2>begin. ASSUME NEW n \in Nodes, TryRoot(n) \/ TryPrerequisite(n) PROVE Progress'
    BY <2>begin, TryRootKeepsProgress, TryPrerequisiteKeepsProgress
  <2>return. CASE Return
    BY <2>return, ReturnKeepsProgress
  <2>graphOnly. CASE Finish \/ UNCHANGED searchVars
    BY <2>graphOnly
    DEF Finish, searchVars, Progress, SearchTypeOK, Keys, Graphs, Deadlocked
  <2>. QED
    BY <2>begin, <2>return, <2>graphOnly DEF SearchNext
<1>3. QED
  BY <1>1, <1>2, PTL DEF SearchSpec

-----------------------------------------------------------------------------
(* The answer.                                                             *)

(* The step that answers "cycle" closes a path of the stack: its items all  *)
(* wait for each other.                                                    *)
LEMMA CycleFound ==
    ASSUME Progress, NEW n \in Nodes, n \in visiting,
           TryRoot(n) \/ TryPrerequisite(n)
    PROVE  Cyclic(prerequisites)
<1>1. stack # <<>> /\ stack \in Seq(Frames)
  BY DEF Progress, SearchTypeOK, TryRoot, TryPrerequisite
<1>2. TryPrerequisite(n)
  BY <1>1 DEF TryRoot
<1>3. /\ DOMAIN stack = 1..Len(stack)
      /\ Len(stack) \in Nat \ {0}
      /\ Len(stack) \in DOMAIN stack
      /\ Top = stack[Len(stack)]
  BY <1>1, StackShape DEF Top
<1>4. n \in prerequisites[stack[Len(stack)].node]
  BY <1>2, <1>3 DEF TryPrerequisite, Progress
<1>5. ASSUME NEW k \in DOMAIN stack
      PROVE  prerequisites[stack[k].node] \cap visiting # {}
  <2>1. CASE k = Len(stack)
    BY <1>4, <2>1
  <2>2. CASE k < Len(stack)
    <3>1. k + 1 \in DOMAIN stack
      BY <1>3, <2>2
    <3>2. stack[k + 1].node \in visiting
      BY <3>1 DEF Progress
    <3>3. stack[k + 1].node \in prerequisites[stack[k].node]
      BY <2>2 DEF Progress
    <3>4. QED
      BY <3>2, <3>3
  <2>3. QED
    BY <1>3, <2>1, <2>2
<1>6. Deadlocked(prerequisites, visiting)
  BY <1>5 DEF Deadlocked, Progress
<1>7. visiting \in SUBSET DOMAIN prerequisites /\ visiting # {}
  BY DEF Progress, SearchTypeOK, Graphs
<1>8. QED
  BY <1>6, <1>7 DEF Cyclic

(* When every key was tried and none closed a path, all that have a         *)
(* prerequisite are visited, so no set of items waits for itself.           *)
LEMMA NoCycleLeft ==
    ASSUME Progress, Finish
    PROVE  ~Cyclic(prerequisites)
<1>1. stack = <<>> /\ roots = {}
  BY DEF Finish
<1>2. visiting = {}
  BY <1>1 DEF Progress
<1>3. Keys \subseteq visited
  BY <1>1, <1>2 DEF Progress
<1> SUFFICES ASSUME NEW S \in SUBSET DOMAIN prerequisites, S # {},
                    Deadlocked(prerequisites, S)
             PROVE  FALSE
  BY DEF Cyclic
<1>4. S \in SUBSET Nodes
  BY DEF Progress, SearchTypeOK, Graphs
<1>5. PICK n \in S : TRUE
  OBVIOUS
<1>6. n \in Keys
  BY <1>4, <1>5 DEF Deadlocked, Keys
<1>7. QED
  BY <1>3, <1>4, <1>5, <1>6 DEF Progress

(* For every graph and every order in which Go walks its maps: the search   *)
(* answers "cycle" only if a set of items waits for itself, and "none" only *)
(* if there is no such set (ErrCircularDependency of validateDependencies). *)
THEOREM SearchIsRight == SearchSpec => []AnswerIsRight
<1>1. SearchInit => AnswerIsRight
  BY DEF SearchInit, AnswerIsRight
<1>2. Progress /\ AnswerIsRight /\ [SearchNext]_searchVars => AnswerIsRight'
  <2> SUFFICES ASSUME Progress, AnswerIsRight, [SearchNext]_searchVars
               PROVE  AnswerIsRight'
    OBVIOUS
  <2>1. ASSUME NEW n \in Nodes, TryRoot(n) \/ TryPrerequisite(n)
        PROVE  AnswerIsRight'
    <3>1. answer = "searching" /\ prerequisites' = prerequisites
      BY <2>1 DEF TryRoot, TryPrerequisite
    <3>2. CASE n \in visiting
      <4>1. Cyclic(prerequisites)
        BY <2>1, <3>2, CycleFound
      <4>2. answer' = "cycle"
        BY <2>1, <3>2 DEF TryRoot, TryPrerequisite, hasCycle
      <4>3. QED
        BY <3>1, <4>1, <4>2 DEF AnswerIsRight
    <3>3. CASE n \notin visiting
      <4>1. answer' = answer
        BY <2>1, <3>3 DEF TryRoot, TryPrerequisite, hasCycle
      <4>2. QED
        BY <3>1, <4>1 DEF AnswerIsRight
    <3>4. QED
      BY <3>2, <3>3
  <2>2. CASE Return
    BY <2>2 DEF Return, AnswerIsRight
  <2>3. CASE Finish
    <3>1. ~Cyclic(prerequisites)
      BY <2>3, NoCycleLeft
    <3>2. QED
      BY <2>3, <3>1 DEF Finish, AnswerIsRight
  <2>4. CASE UNCHANGED searchVars
    BY <2>4 DEF searchVars, AnswerIsRight
  <2>5. QED
    BY <2>1, <2>2, <2>3, <2>4 DEF SearchNext
<1>3. QED
  BY <1>1, <1>2, ProgressHolds, PTL DEF SearchSpec
=============================================================================
