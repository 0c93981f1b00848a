------------------------------ MODULE TaskGraph ------------------------------
(***************************************************************************)
(* The shape a task graph must have before it is persisted: what           *)
(* validate_task_graph (runtime/plan_store.py) accepts.  A graph is a set  *)
(* of task ids and, for each of them, the set of ids it depends on.        *)
(* The code finds cycles with a depth-first search; here a graph is        *)
(* acyclic when every non-empty set of its tasks has a member with no      *)
(* dependency inside the set.  TaskGraphSearch has the search itself and   *)
(* the run that shows that the two agree.                                  *)
(***************************************************************************)

\* "task ... cannot depend on itself"
NoSelfDependency(ids, deps) == \A t \in ids : t \notin deps[t]

\* "task ... depends on unknown tasks"
Closed(ids, deps) == \A t \in ids : deps[t] \subseteq ids

\* "plan task graph contains a cycle"
Acyclic(ids, deps) ==
    \A S \in SUBSET ids : S # {} => \E t \in S : deps[t] \cap S = {}

validate_task_graph(ids, deps) ==
    /\ NoSelfDependency(ids, deps)
    /\ Closed(ids, deps)
    /\ Acyclic(ids, deps)
==============================================================================
