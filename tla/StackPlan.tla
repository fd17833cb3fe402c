------------------------------ MODULE StackPlan ------------------------------
(***************************************************************************)
(* pkg/stack: from a manifest to a dependency-ordered plan.                *)
(*                                                                         *)
(* dependencyOrder is Kahn's algorithm with a sorted ready list.  It walks *)
(* a Go map, in any order, and child lists whose order comes from the      *)
(* manifest; both orders are chosen freely here, one element at a time, so *)
(* that the result can be shown not to depend on them.  The code runs it   *)
(* three times over the same components, listed in three orders: to check  *)
(* the manifest, to build the plan, and to check the plan before it is     *)
(* written.                                                                *)
(*                                                                         *)
(* Component IDs are numbers: the code only compares them.  What else a    *)
(* component declares is copied into the plan and plays no part.           *)
(***************************************************************************)
EXTENDS Naturals, Sequences, FiniteSets, SequencesExt

CONSTANTS
  Id,             \* component IDs that may appear in a manifest
  MaxComponents,  \* model: longest manifest looked at
  Manifests       \* the manifests looked at: sequences of [id, dependsOn]

ASSUME PlanAssumption ==
  /\ Id \subseteq Nat /\ IsFiniteSet(Id)
  /\ MaxComponents \in Nat
  /\ \A m \in Manifests : m \in Seq([id : Id, dependsOn : SUBSET Id])

VARIABLES
  manifest,   \* the input, never changed
  pass,       \* which caller dependencyOrder works for, in the order they run
  pc,         \* "validate", "scan", "take", "relax", "accepted" or "refused"
  indegree,   \* dependencies of a component that are not ordered yet
  todo,       \* components the current loop has still to visit
  ready,      \* sorted IDs whose dependencies are all ordered
  order,      \* the order of this pass so far
  plan        \* the steps of the plan, empty until it is built

vars == <<manifest, pass, pc, indegree, todo, ready, order, plan>>

Ids == {manifest[i].id : i \in DOMAIN manifest}
DependsOn(id) == UNION {manifest[i].dependsOn : i \in {j \in DOMAIN manifest : manifest[j].id = id}}
Children(id) == {c \in Ids : id \in DependsOn(c)}

Init ==
  /\ manifest \in Manifests
  /\ pass = "validateManifest" /\ pc = "validate"
  /\ indegree = << >> /\ todo = {} /\ ready = << >> /\ order = << >>
  /\ plan = << >>

\* validateManifest up to the ordering: size, unique IDs, known dependencies.
ManifestOK ==
  /\ Len(manifest) \in 1 .. MaxComponents
  /\ Cardinality(Ids) = Len(manifest)
  /\ \A id \in Ids : id \notin DependsOn(id) /\ DependsOn(id) \subseteq Ids

\* dependencyOrder begins: indegrees are counted, nothing is ordered.
BeginOrder ==
  /\ pc' = "scan"
  /\ indegree' = [id \in Ids |-> Cardinality(DependsOn(id))]
  /\ todo' = Ids /\ ready' = << >> /\ order' = << >>

Refuse ==
  /\ pc' = "refused" /\ order' = << >>
  /\ UNCHANGED <<indegree, todo, ready>>

ValidateManifest ==
  /\ pc = "validate"
  /\ IF ManifestOK THEN BeginOrder ELSE Refuse
  /\ UNCHANGED <<manifest, pass, plan>>

\* insertSorted: before the first value that is not smaller.
InsertSorted(values, value) ==
  LET smaller == {i \in DOMAIN values : values[i] < value}
      index == Cardinality(smaller)
  IN  InsertAt(values, index + 1, value)

\* The loop over the indegree map.
Scan(id) ==
  /\ pc = "scan" /\ id \in todo
  /\ todo' = todo \ {id}
  /\ ready' = IF indegree[id] = 0 THEN InsertSorted(ready, id) ELSE ready
  /\ pc' = IF todo' = {} THEN "take" ELSE "scan"
  /\ UNCHANGED <<manifest, pass, indegree, order, plan>>

\* Take the smallest ready component; its children are visited next.
Take ==
  /\ pc = "take" /\ ready # << >>
  /\ order' = Append(order, Head(ready))
  /\ ready' = Tail(ready)
  /\ todo' = Children(Head(ready))
  /\ pc' = IF todo' = {} THEN "take" ELSE "relax"
  /\ UNCHANGED <<manifest, pass, indegree, plan>>

\* Faulty variant: a child is ready as soon as one dependency is ordered.
RelaxEager(child) ==
  /\ pc = "relax" /\ child \in todo
  /\ todo' = todo \ {child}
  /\ indegree' = [indegree EXCEPT ![child] = 0]
  /\ ready' = IF indegree[child] > 0 THEN InsertSorted(ready, child) ELSE ready
  /\ pc' = IF todo' = {} THEN "take" ELSE "relax"
  /\ UNCHANGED <<manifest, pass, order, plan>>

\* The loop over the children of the component just ordered.
Relax(child) ==
  /\ pc = "relax" /\ child \in todo
  /\ todo' = todo \ {child}
  /\ indegree' = [indegree EXCEPT ![child] = @ - 1]
  /\ ready' = IF indegree'[child] = 0 THEN InsertSorted(ready, child) ELSE ready
  /\ pc' = IF todo' = {} THEN "take" ELSE "relax"
  /\ UNCHANGED <<manifest, pass, order, plan>>

Ordered == pc = "take" /\ ready = << >> /\ Len(order) = Len(manifest)

\* Faulty variant: the loop waits for every component to be ordered.
CyclicLoops ==
  /\ pc = "take" /\ ready = << >> /\ Len(order) # Len(manifest)
  /\ UNCHANGED vars

\* Nothing is ready and something is left: it waits for itself.
Cyclic ==
  /\ pc = "take" /\ ready = << >> /\ Len(order) # Len(manifest)
  /\ Refuse
  /\ UNCHANGED <<manifest, pass, plan>>

\* BuildPlan orders the components again once the manifest is valid.
ManifestValid ==
  /\ Ordered /\ pass = "validateManifest"
  /\ pass' = "BuildPlan" /\ BeginOrder
  /\ UNCHANGED <<manifest, plan>>

\* Faulty variant: a dependency must stand before the step before.
DependenciesEarlierStrict(steps) ==
  \A i \in DOMAIN steps : DependsOn(steps[i]) \subseteq {steps[j] : j \in 1 .. i - 2}

\* validatePlan: the dependencies of a step stand before it.
DependenciesEarlier(steps) ==
  \A i \in DOMAIN steps : DependsOn(steps[i]) \subseteq {steps[j] : j \in 1 .. i - 1}

\* The plan has its steps; MarshalPlan checks it and orders them once more.
PlanBuilt ==
  /\ Ordered /\ pass = "BuildPlan"
  /\ plan' = order
  /\ pass' = "validatePlan"
  /\ IF DependenciesEarlier(order) THEN BeginOrder ELSE Refuse
  /\ UNCHANGED manifest

PlanValidated ==
  /\ Ordered /\ pass = "validatePlan"
  /\ IF order = plan
     THEN pc' = "accepted" /\ UNCHANGED <<indegree, todo, ready, order>>
     ELSE Refuse
  /\ UNCHANGED <<manifest, pass, plan>>

Next ==
  \/ ValidateManifest
  \/ \E id \in Id : Scan(id) \/ Relax(id)
  \/ Take
  \/ Cyclic \/ ManifestValid \/ PlanBuilt \/ PlanValidated

Spec == Init /\ [][Next]_vars

\* The algorithm is sequential code that runs to its end.
FairSpec == Spec /\ WF_vars(Next)

-----------------------------------------------------------------------------
(* Properties. *)

\* The reference: at every position stands the smallest component not placed
\* before it whose dependencies all are.
Before(i) == {plan[j] : j \in 1 .. i - 1}
Eligible(i) == {c \in Ids \ Before(i) : DependsOn(c) \subseteq Before(i)}

\* A plan lists every component once, after its dependencies, in the order
\* the manifest determines and the iteration orders do not.
PlanIsTheOrder ==
  plan # << >> =>
    /\ Len(plan) = Cardinality(Ids)
    /\ \A i \in DOMAIN plan : plan[i] \in Eligible(i) /\ \A c \in Eligible(i) : plan[i] <= c

\* A well-formed manifest is refused only if some of its components wait for
\* each other; a plan that was built is never refused by validatePlan, in
\* whatever order the maps are walked the third time.
RefusedOnlyForCycles ==
  pc = "refused" =>
    /\ plan = << >>
    /\ ManifestOK => \E S \in (SUBSET Ids) \ {{}} :
         \A c \in S : DependsOn(c) \cap S # {}

\* Planning ends, in a plan or in a refusal.
Terminates == <>(pc \in {"accepted", "refused"})
=============================================================================
