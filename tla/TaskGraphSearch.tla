--------------------------- MODULE TaskGraphSearch ---------------------------
(***************************************************************************)
(* The search validate_task_graph (runtime/plan_store.py) runs for cycles, *)
(* step by step.  The recursion of `visit' is a path of open calls; each   *)
(* call iterates over a Python set, and the roots over a dictionary built  *)
(* from rows in no stated order, so every next element is a choice.        *)
(* TaskGraph says what the verdict must be.                                *)
(***************************************************************************)
EXTENDS Integers, Sequences, TaskGraph

CONSTANT Ids  \* ids a plan may mention

VARIABLES
    ids,      \* ids of the tasks validated
    graph,    \* task id -> ids it depends on
    roots,    \* tasks the outer loop has still to visit
    path,     \* open calls of visit, the innermost last
    todo,     \* what the loop of each open call has still to visit
    visiting,
    visited,
    verdict   \* "none" while the validation runs

searchVars == <<ids, graph, roots, path, todo, visiting, visited, verdict>>

SearchTypeOK ==
    /\ ids \subseteq Ids
    /\ graph \in [Ids -> SUBSET Ids]
    /\ roots \subseteq ids
    /\ path \in Seq(ids)
    /\ todo \in [Ids -> SUBSET Ids]
    /\ visiting \subseteq ids
    /\ visited \subseteq ids
    /\ verdict \in {"none", "accepted", "rejected"}

\* Any task list, checked and unchecked.
SearchInit ==
    /\ ids \in SUBSET Ids
    /\ graph \in {g \in [Ids -> SUBSET Ids] : \A t \in Ids \ ids : g[t] = {}}
    /\ roots = ids
    /\ path = <<>>
    /\ todo = [t \in Ids |-> {}]
    /\ visiting = {}
    /\ visited = {}
    /\ verdict = "none"

\* The two checks before the search.
Precheck == NoSelfDependency(ids, graph) /\ Closed(ids, graph)

RejectEarly ==
    /\ verdict = "none" /\ ~Precheck
    /\ verdict' = "rejected"
    /\ UNCHANGED <<ids, graph, roots, path, todo, visiting, visited>>

Searching == verdict = "none" /\ Precheck

Top == path[Len(path)]

\* Faulty variant: a task on the path passes for a visited one.
visit_tolerant(t) ==
    \/ /\ t \in visiting \cup visited
       /\ UNCHANGED <<path, visiting, verdict>>
    \/ /\ t \notin visiting \cup visited
       /\ path' = Append(path, t)
       /\ visiting' = visiting \cup {t}
       /\ UNCHANGED verdict

\* A call of visit; the caller has already taken t off its own loop.
visit(t) ==
    \/ /\ t \in visiting
       /\ verdict' = "rejected"
       /\ UNCHANGED <<path, visiting>>
    \/ /\ t \notin visiting /\ t \in visited
       /\ UNCHANGED <<path, visiting, verdict>>
    \/ /\ t \notin visiting /\ t \notin visited
       /\ path' = Append(path, t)
       /\ visiting' = visiting \cup {t}
       /\ UNCHANGED verdict

\* Faulty variant: the caller's loop does not advance.
TodoAfterKept(c, t) ==
    [u \in Ids |-> IF u = t /\ t \notin visiting \cup visited THEN graph[t]
                   ELSE todo[u]]

\* What the open calls have left once t is called from call c (or from the
\* outer loop when there is none): a new call starts with all of graph[t].
TodoAfter(c, t) ==
    [u \in Ids |-> IF u = t /\ t \notin visiting \cup visited THEN graph[t]
                   ELSE todo[u] \ (IF u = c THEN {t} ELSE {})]

VisitRoot(t) ==
    /\ Searching /\ path = <<>>
    /\ t \in roots
    /\ roots' = roots \ {t}
    /\ todo' = TodoAfter(t, t)
    /\ visit(t)
    /\ UNCHANGED <<ids, graph, visited>>

VisitDependency(t) ==
    /\ Searching /\ path # <<>>
    /\ t \in todo[Top]
    /\ todo' = TodoAfter(Top, t)
    /\ visit(t)
    /\ UNCHANGED <<ids, graph, roots, visited>>

\* The innermost call returns.
Leave ==
    /\ Searching /\ path # <<>>
    /\ todo[Top] = {}
    /\ path' = SubSeq(path, 1, Len(path) - 1)
    /\ visiting' = visiting \ {Top}
    /\ visited' = visited \cup {Top}
    /\ UNCHANGED <<ids, graph, roots, todo, verdict>>

Accept ==
    /\ Searching /\ path = <<>> /\ roots = {}
    /\ verdict' = "accepted"
    /\ UNCHANGED <<ids, graph, roots, path, todo, visiting, visited>>

SearchStep ==
    \/ RejectEarly
    \/ \E t \in Ids : VisitRoot(t) \/ VisitDependency(t)
    \/ Leave
    \/ Accept

SearchSafety == SearchInit /\ [][SearchStep]_searchVars

SearchSpec == SearchSafety /\ WF_searchVars(SearchStep)

(***************************************************************************)
(* Properties                                                              *)
(***************************************************************************)

\* The verdict of the search is the one TaskGraph states: a graph is
\* accepted only if it is closed and acyclic, and refused only if it is not.
VerdictIsRight ==
    /\ verdict = "accepted" => validate_task_graph(ids, graph)
    /\ verdict = "rejected" => ~validate_task_graph(ids, graph)

\* The recursion ends with a verdict on every graph, cyclic ones included.
SearchEnds == <>(verdict # "none")

Smaller(S, T) == S \subseteq T /\ S # T

\* The recursion never goes round in a circle: each step gives the verdict, or
\* takes a root, opens a call for a task that was never called before, closes
\* one, or takes a task off the innermost loop, and an earlier one of these is
\* never undone for a later one.
SearchAdvances ==
    [][LET called == visiting \cup visited
           sameRoots == roots' = roots
           sameCalls == sameRoots /\ called' = called
       IN  /\ verdict = "none"
           /\ \/ verdict' # "none"
              \/ Smaller(roots', roots)
              \/ sameRoots /\ Smaller(called, called')
              \/ sameCalls /\ Smaller(visited, visited')
              \/ /\ sameCalls /\ visited' = visited
                 /\ \A t \in Ids : todo'[t] \subseteq todo[t]
                 /\ todo' # todo]_searchVars
==============================================================================
