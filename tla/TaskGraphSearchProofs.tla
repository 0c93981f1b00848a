------------------------ MODULE TaskGraphSearchProofs ------------------------
(***************************************************************************)
(* The search of validate_task_graph gives the right verdict on graphs of  *)
(* every size.                                                             *)
(***************************************************************************)
EXTENDS TaskGraphSearch, SequenceTheorems, TLAPS

\* The open calls form a simple path of the graph.
PathInv ==
    /\ \A i, j \in 1 .. Len(path) : path[i] = path[j] => i = j
    /\ visiting = {path[i] : i \in 1 .. Len(path)}
    /\ visiting \cap visited = {}
    /\ \A i \in 1 .. Len(path) - 1 : path[i + 1] \in graph[path[i]]

\* What the finished part of the loop of call i has led to.
Behind(i) == visited \cup (IF i < Len(path) THEN {path[i + 1]} ELSE {})

\* What was visited is closed and acyclic, and no loop has skipped a task.
DoneInv ==
    /\ \A t \in visited : graph[t] \subseteq visited
    /\ Acyclic(visited, graph)
    /\ \A i \in 1 .. Len(path) : todo[path[i]] \subseteq graph[path[i]]
    /\ \A i \in 1 .. Len(path) : graph[path[i]] \ todo[path[i]] \subseteq Behind(i)
    /\ ids \ roots \subseteq visited \cup visiting

SearchInv ==
    /\ SearchTypeOK
    /\ verdict = "none" => PathInv /\ DoneInv
    /\ VerdictIsRight

-----------------------------------------------------------------------------

\* A task all of whose dependencies are in a closed acyclic set can join it.
LEMMA AcyclicExtends ==
    ASSUME NEW V, NEW g, NEW t, Acyclic(V, g), t \notin V, t \notin g[t],
           \A v \in V : g[v] \subseteq V
    PROVE  Acyclic(V \cup {t}, g)
<1> SUFFICES ASSUME NEW S \in SUBSET (V \cup {t}), S # {}
             PROVE  \E u \in S : g[u] \cap S = {}
    BY DEF Acyclic
<1>1. CASE S \cap V # {}
    <2>1. PICK u \in S \cap V : g[u] \cap (S \cap V) = {}
        BY <1>1 DEF Acyclic
    <2>2. g[u] \subseteq V
        BY <2>1
    <2> QED BY <2>1, <2>2
<1>2. CASE S \cap V = {}
    <2>1. S = {t}
        BY <1>2
    <2> QED BY <2>1
<1> QED BY <1>1, <1>2

\* The calls from t to the innermost one are a cycle when that one depends
\* on t.
LEMMA PathIsCycle ==
    ASSUME SearchTypeOK, PathInv, path # <<>>, NEW t \in visiting, t \in graph[Top]
    PROVE  ~Acyclic(ids, graph)
<1>1. Len(path) \in Nat /\ Len(path) > 0 /\ \A i \in 1 .. Len(path) : path[i] \in ids
    BY DEF SearchTypeOK
<1>2. PICK j \in 1 .. Len(path) : path[j] = t
    BY DEF PathInv
<1> DEFINE S == {path[i] : i \in j .. Len(path)}
<1>3. S \in SUBSET ids /\ t \in S
    BY <1>1, <1>2
<1>4. ASSUME NEW u \in S PROVE graph[u] \cap S # {}
    <2>1. PICK i \in j .. Len(path) : path[i] = u
        BY <1>4
    <2>2. CASE i = Len(path)
        BY <2>1, <2>2, <1>3 DEF Top
    <2>3. CASE i # Len(path)
        <3>1. i \in 1 .. Len(path) - 1 /\ i + 1 \in j .. Len(path)
            BY <2>3, <1>1
        <3>2. path[i + 1] \in graph[u]
            BY <3>1, <2>1 DEF PathInv
        <3> QED BY <3>1, <3>2
    <2> QED BY <2>2, <2>3
<1> HIDE DEF S
<1> QED BY <1>3, <1>4 DEF Acyclic

-----------------------------------------------------------------------------

\* The search starts in its invariant, on whatever task list.
LEMMA SearchInitial == SearchInit => SearchInv
<1> SUFFICES ASSUME SearchInit PROVE SearchInv
    OBVIOUS
<1>1. SearchTypeOK
    BY DEF SearchInit, SearchTypeOK
<1>2. PathInv /\ DoneInv
    BY DEF SearchInit, PathInv, DoneInv, Acyclic, Behind
<1>3. VerdictIsRight
    BY DEF SearchInit, VerdictIsRight
<1> QED BY <1>1, <1>2, <1>3 DEF SearchInv

\* The call of visit from the outer loop keeps the invariant.
LEMMA VisitRootKeeps ==
    ASSUME SearchInv, NEW t \in Ids, VisitRoot(t)
    PROVE  SearchInv'
<1> USE DEF SearchInv, VisitRoot, Searching
<1>1. /\ SearchTypeOK /\ PathInv /\ DoneInv /\ Len(path) = 0
      /\ visiting = {} /\ t \in ids
    BY DEF SearchTypeOK, PathInv
<1>2. CASE t \in visited
    <2>1. UNCHANGED <<path, visiting, verdict>>
        BY <1>1, <1>2 DEF visit
    <2>2. SearchTypeOK'
        BY <1>1, <2>1 DEF SearchTypeOK, TodoAfter
    <2>3. PathInv' /\ DoneInv'
        BY <1>1, <1>2, <2>1 DEF PathInv, DoneInv, Behind, Acyclic
    <2>4. VerdictIsRight'
        BY <2>1 DEF VerdictIsRight
    <2> QED BY <2>2, <2>3, <2>4
<1>3. CASE t \notin visited
    <2>1. path' = <<t>> /\ visiting' = {t} /\ UNCHANGED verdict /\ Len(path') = 1
        BY <1>1, <1>3 DEF visit, SearchTypeOK
    <2>7. todo' = TodoAfter(t, t) /\ t \notin visiting \cup visited
        BY <1>1, <1>3
    <2>8. graph \in [Ids -> SUBSET Ids] /\ todo \in [Ids -> SUBSET Ids]
        BY <1>1 DEF SearchTypeOK
    <2>2. todo'[t] = graph[t] /\ todo' \in [Ids -> SUBSET Ids]
        <3> HIDE DEF SearchInv, VisitRoot, Searching
        <3>1. todo'[t] = graph[t]
            BY <2>7 DEF TodoAfter
        <3>2. todo' \in [Ids -> SUBSET Ids]
            BY <2>7, <2>8 DEF TodoAfter
        <3> QED BY <3>1, <3>2
    <2>3. SearchTypeOK'
        BY <1>1, <2>1, <2>2 DEF SearchTypeOK
    <2>4. PathInv'
        BY <1>1, <1>3, <2>1 DEF PathInv
    <2>5. DoneInv'
        BY <1>1, <2>1, <2>2 DEF DoneInv, Behind, Acyclic
    <2>6. VerdictIsRight'
        BY <2>1 DEF VerdictIsRight
    <2> QED BY <2>3, <2>4, <2>5, <2>6
<1> QED BY <1>2, <1>3

\* The call of visit on a dependency, new, visited or open, keeps the invariant.
LEMMA VisitDependencyKeeps ==
    ASSUME SearchInv, NEW t \in Ids, VisitDependency(t)
    PROVE  SearchInv'
<1> USE DEF SearchInv, VisitDependency, Searching
<1> DEFINE n == Len(path)
<1>1. /\ SearchTypeOK /\ PathInv /\ DoneInv
      /\ n \in Nat /\ n > 0 /\ Top = path[n]
      /\ \A i \in 1 .. n : path[i] \in ids /\ path[i] \in Ids /\ path[i] \in visiting
    BY DEF SearchTypeOK, PathInv, Top
<1>2. t \in graph[Top] /\ Top \in visiting /\ Top \in ids /\ t \in ids
    BY <1>1 DEF DoneInv, Precheck, Closed
<1>3. todo' \in [Ids -> SUBSET Ids]
    BY <1>1 DEF TodoAfter, SearchTypeOK
<1>4. CASE t \in visiting
    <2>1. verdict' = "rejected" /\ UNCHANGED <<path, visiting>>
        BY <1>4 DEF visit
    <2>2. SearchTypeOK'
        BY <1>1, <1>3, <2>1 DEF SearchTypeOK
    <2>3. ~Acyclic(ids, graph)
        BY <1>1, <1>2, <1>4, PathIsCycle
    <2>4. VerdictIsRight'
        BY <2>1, <2>3 DEF VerdictIsRight, validate_task_graph, Acyclic
    <2> QED BY <2>1, <2>2, <2>4
<1>5. CASE t \notin visiting /\ t \in visited
    <2>1. UNCHANGED <<path, visiting, verdict>>
        BY <1>5 DEF visit
    <2>2. SearchTypeOK'
        BY <1>1, <1>3, <2>1 DEF SearchTypeOK
    <2>3. PathInv'
        BY <1>1, <2>1 DEF PathInv
    <2>4. \A u \in Ids : todo'[u] = IF u = Top THEN todo[u] \ {t} ELSE todo[u]
        BY <1>1, <1>5 DEF TodoAfter, SearchTypeOK
    <2>5. DoneInv'
        <3>1. ASSUME NEW i \in 1 .. n
              PROVE  /\ todo'[path[i]] \subseteq graph[path[i]]
                     /\ graph[path[i]] \ todo'[path[i]] \subseteq Behind(i)
            <4>1. /\ todo[path[i]] \subseteq graph[path[i]]
                  /\ graph[path[i]] \ todo[path[i]] \subseteq Behind(i)
                BY <1>1 DEF DoneInv
            <4>2. todo[path[i]] \ {t} \subseteq todo'[path[i]]
                BY <1>1, <2>4
            <4>3. todo'[path[i]] \subseteq todo[path[i]]
                BY <1>1, <2>4
            <4>4. t \in Behind(i)
                BY <1>5 DEF Behind
            <4> QED BY <4>1, <4>2, <4>3, <4>4
        <3>2. \A i \in 1 .. n : Behind(i)' = Behind(i)
            BY <2>1 DEF Behind
        <3>3. Acyclic(visited, graph)'
            BY <1>1 DEF DoneInv, Acyclic
        <3> QED BY <3>1, <3>2, <3>3, <1>1, <2>1 DEF DoneInv
    <2>6. VerdictIsRight'
        BY <2>1 DEF VerdictIsRight
    <2> QED BY <2>2, <2>3, <2>5, <2>6
<1>6. CASE t \notin visiting /\ t \notin visited
    <2>1. /\ path' = Append(path, t) /\ visiting' = visiting \cup {t}
          /\ UNCHANGED <<verdict, visited, ids, graph, roots>>
        BY <1>6 DEF visit
    <2>2. /\ Len(path') = n + 1 /\ path'[n + 1] = t
          /\ \A i \in 1 .. n : path'[i] = path[i]
        BY <1>1, <2>1 DEF SearchTypeOK
    <2>3. SearchTypeOK'
        BY <1>1, <1>2, <1>3, <2>1 DEF SearchTypeOK
    <2>4. PathInv'
        <3>1. \A i \in 1 .. n + 1 : path'[i] = IF i = n + 1 THEN t ELSE path[i]
            BY <1>1, <2>2
        <3>2. visiting' = {path'[i] : i \in 1 .. Len(path')}
            BY <1>1, <2>1, <2>2, <3>1 DEF PathInv
        <3>3. \A i, j \in 1 .. Len(path') : path'[i] = path'[j] => i = j
            BY <1>1, <1>6, <2>2, <3>1 DEF PathInv
        <3>4. \A i \in 1 .. Len(path') - 1 : path'[i + 1] \in graph[path'[i]]
            BY <1>1, <1>2, <2>2, <3>1 DEF PathInv
        <3>5. visiting' \cap visited = {}
            BY <1>1, <1>6, <2>1 DEF PathInv
        <3> QED BY <3>2, <3>3, <3>4, <3>5, <2>1 DEF PathInv
    <2>5. DoneInv'
        <3>1. t # Top /\ t \notin visiting \cup visited /\ todo' = TodoAfter(Top, t)
            BY <1>2, <1>6
        <3>2. /\ todo'[t] = graph[t]
              /\ todo'[Top] = todo[Top] \ {t}
              /\ \A u \in Ids \ {t, Top} : todo'[u] = todo[u]
            <4> HIDE DEF SearchInv, VisitDependency, Searching
            <4>1. Top \in Ids
                BY <1>1
            <4> QED BY <3>1, <4>1 DEF TodoAfter
        <3>3. ASSUME NEW i \in 1 .. Len(path')
              PROVE  /\ todo'[path'[i]] \subseteq graph[path'[i]]
                     /\ graph[path'[i]] \ todo'[path'[i]] \subseteq Behind(i)'
            <4>1. CASE i = n + 1
                BY <4>1, <2>2, <3>2
            <4>2. CASE i = n
                <5>1. path'[i] = Top /\ todo'[Top] = todo[Top] \ {t}
                    BY <4>2, <1>1, <2>2, <3>2
                <5>2. Behind(i) = visited /\ Behind(i)' = visited \cup {t}
                    BY <4>2, <1>1, <2>1, <2>2 DEF Behind
                <5>3. /\ todo[Top] \subseteq graph[Top]
                      /\ graph[Top] \ todo[Top] \subseteq Behind(i)
                    BY <4>2, <1>1 DEF DoneInv
                <5> QED BY <5>1, <5>2, <5>3
            <4>3. CASE i \in 1 .. n - 1
                <5>1. path'[i] = path[i] /\ path'[i + 1] = path[i + 1]
                    BY <4>3, <1>1, <2>2
                <5>2. path[i] # Top /\ path[i] # t /\ path[i] \in Ids
                    BY <4>3, <1>1, <1>6 DEF PathInv
                <5>3. todo'[path[i]] = todo[path[i]]
                    BY <5>2, <3>2
                <5>4. Behind(i)' = Behind(i)
                    BY <4>3, <5>1, <1>1, <2>1, <2>2 DEF Behind
                <5>5. /\ todo[path[i]] \subseteq graph[path[i]]
                      /\ graph[path[i]] \ todo[path[i]] \subseteq Behind(i)
                    BY <4>3, <1>1 DEF DoneInv
                <5> QED BY <5>1, <5>3, <5>4, <5>5
            <4> QED BY <4>1, <4>2, <4>3, <1>1, <2>2
        <3>4. Acyclic(visited, graph)'
            BY <1>1, <2>1 DEF DoneInv, Acyclic
        <3> QED BY <3>3, <3>4, <1>1, <2>1 DEF DoneInv
    <2>6. VerdictIsRight'
        BY <2>1 DEF VerdictIsRight
    <2> QED BY <2>3, <2>4, <2>5, <2>6
<1> QED BY <1>4, <1>5, <1>6

\* The return of a call keeps the invariant: its task joins the visited ones.
LEMMA LeaveKeeps ==
    ASSUME SearchInv, Leave
    PROVE  SearchInv'
<1> USE DEF SearchInv, Leave, Searching
<1> DEFINE n == Len(path)
<1>1. /\ SearchTypeOK /\ PathInv /\ DoneInv
      /\ n \in Nat /\ n > 0 /\ Top = path[n]
      /\ \A i \in 1 .. n : path[i] \in ids /\ path[i] \in visiting
    BY DEF SearchTypeOK, PathInv, Top
<1>2. /\ path' \in Seq(ids) /\ Len(path') = n - 1
      /\ \A i \in 1 .. n - 1 : path'[i] = path[i]
    <2>1. n - 1 \in Int /\ \A i \in 1 .. n - 1 : path[i] \in ids
        BY <1>1
    <2>2. /\ SubSeq(path, 1, n - 1) \in Seq(ids)
          /\ Len(SubSeq(path, 1, n - 1)) = IF 1 <= n - 1 THEN (n - 1) - 1 + 1 ELSE 0
          /\ \A i \in 1 .. (n - 1) - 1 + 1 : SubSeq(path, 1, n - 1)[i] = path[1 + i - 1]
        BY <2>1, SubSeqProperties
    <2>3. path' = SubSeq(path, 1, n - 1)
        OBVIOUS
    <2> HIDE DEF SearchInv, Leave, Searching
    <2>4. Len(path') = n - 1
        <3> HIDE DEF n
        <3>1. (IF 1 <= n - 1 THEN (n - 1) - 1 + 1 ELSE 0) = n - 1
            BY <1>1
        <3> QED BY <2>2, <2>3, <3>1
    <2>5. \A i \in 1 .. n - 1 : path'[i] = path[i]
        BY <1>1, <2>2, <2>3
    <2> QED BY <2>2, <2>3, <2>4, <2>5
<1>3. SearchTypeOK'
    BY <1>1, <1>2 DEF SearchTypeOK
<1>4. PathInv'
    <2>1. visiting' = {path'[i] : i \in 1 .. Len(path')}
        <3>1. \A i \in 1 .. n - 1 : path[i] # Top
            BY <1>1 DEF PathInv
        <3>2. visiting = {path[i] : i \in 1 .. n}
            BY <1>1 DEF PathInv
        <3>3. visiting' = {path[i] : i \in 1 .. n - 1}
            <4> HIDE DEF SearchInv, Searching
            <4>1. visiting' \subseteq {path[i] : i \in 1 .. n - 1}
                BY <1>1, <3>2
            <4>2. {path[i] : i \in 1 .. n - 1} \subseteq visiting'
                BY <1>1, <3>1
            <4> QED BY <4>1, <4>2
        <3> QED BY <1>2, <3>3
    <2>2. \A i, j \in 1 .. Len(path') : path'[i] = path'[j] => i = j
        BY <1>1, <1>2 DEF PathInv
    <2>3. \A i \in 1 .. Len(path') - 1 : path'[i + 1] \in graph[path'[i]]
        BY <1>1, <1>2 DEF PathInv
    <2>4. visiting' \cap visited' = {}
        BY <1>1 DEF PathInv
    <2> QED BY <2>1, <2>2, <2>3, <2>4 DEF PathInv
<1>5. DoneInv'
    <2>1. graph[Top] \subseteq visited
        BY <1>1 DEF DoneInv, Behind
    <2>2. Top \notin visited /\ Top \notin graph[Top]
        BY <1>1, <2>1 DEF PathInv
    <2>3. Acyclic(visited', graph)
        BY <1>1, <2>2, AcyclicExtends DEF DoneInv
    <2>4. ASSUME NEW i \in 1 .. Len(path')
          PROVE  /\ todo[path'[i]] \subseteq graph[path'[i]]
                 /\ graph[path'[i]] \ todo[path'[i]] \subseteq Behind(i)'
        <3>1. /\ i \in 1 .. n /\ i < n /\ path'[i] = path[i]
              /\ Behind(i) = visited \cup {path[i + 1]}
            BY <1>1, <1>2 DEF Behind
        <3>2. Behind(i) \subseteq Behind(i)'
            <4>1. CASE i = n - 1
                BY <4>1, <3>1, <1>1, <1>2 DEF Behind
            <4>2. CASE i # n - 1
                <5>1. i < Len(path') /\ path'[i + 1] = path[i + 1]
                    BY <4>2, <3>1, <1>1, <1>2
                <5> QED BY <5>1, <3>1 DEF Behind
            <4> QED BY <4>1, <4>2
        <3> QED BY <3>1, <3>2, <1>1 DEF DoneInv
    <2>5. ids \ roots \subseteq visited' \cup visiting'
        BY <1>1 DEF DoneInv
    <2>6. \A t \in visited' : graph[t] \subseteq visited'
        BY <1>1, <2>1 DEF DoneInv
    <2>7. Acyclic(visited, graph)'
        BY <2>3 DEF Acyclic
    <2> QED BY <2>4, <2>5, <2>6, <2>7 DEF DoneInv
<1>6. VerdictIsRight'
    BY DEF VerdictIsRight
<1> QED BY <1>3, <1>4, <1>5, <1>6

\* The early refusal and the final acceptance give the right verdict.
LEMMA VerdictKeeps ==
    ASSUME SearchInv, RejectEarly \/ Accept
    PROVE  SearchInv'
<1> USE DEF SearchInv
<1>1. CASE RejectEarly
    <2>1. SearchTypeOK' /\ verdict' = "rejected"
        BY <1>1 DEF RejectEarly, SearchTypeOK
    <2>2. ~validate_task_graph(ids, graph) /\ UNCHANGED <<ids, graph>>
        BY <1>1 DEF RejectEarly, validate_task_graph, Precheck
    <2>3. VerdictIsRight'
        BY <2>1, <2>2 DEF VerdictIsRight, validate_task_graph, NoSelfDependency,
                          Closed, Acyclic
    <2> QED BY <2>1, <2>3
<1>2. CASE Accept
    <2>1. SearchTypeOK' /\ verdict' = "accepted" /\ UNCHANGED <<ids, graph>>
        BY <1>2 DEF Accept, SearchTypeOK
    <2>2. visited = ids
        <3>1. PathInv /\ DoneInv /\ path = <<>> /\ roots = {} /\ visited \subseteq ids
            BY <1>2 DEF Accept, Searching, SearchTypeOK
        <3>2. visiting = {}
            BY <3>1 DEF PathInv
        <3> QED BY <3>1, <3>2 DEF DoneInv
    <2>3. validate_task_graph(ids, graph)
        BY <1>2, <2>2 DEF Accept, Searching, Precheck, DoneInv, validate_task_graph
    <2>4. VerdictIsRight'
        BY <2>1, <2>3 DEF VerdictIsRight, validate_task_graph, NoSelfDependency,
                          Closed, Acyclic
    <2> QED BY <2>1, <2>4
<1> QED BY <1>1, <1>2

\* The invariant of the search is inductive.
LEMMA SearchInductive == SearchInv /\ [SearchStep]_searchVars => SearchInv'
<1> SUFFICES ASSUME SearchInv, [SearchStep]_searchVars PROVE SearchInv'
    OBVIOUS
<1>1. CASE UNCHANGED searchVars
    BY <1>1 DEF searchVars, SearchInv, SearchTypeOK, PathInv, DoneInv, Behind,
                VerdictIsRight, Acyclic, validate_task_graph, NoSelfDependency, Closed
<1>2. CASE SearchStep
    BY <1>2, VisitRootKeeps, VisitDependencyKeeps, LeaveKeeps, VerdictKeeps
       DEF SearchStep
<1> QED BY <1>1, <1>2

\* The search keeps to the graph: the open calls, the tasks visited and what
\* their loops have still to do are tasks of it, for every set of task ids.
THEOREM SearchTypes == SearchSafety => []SearchTypeOK
<1>1. SearchInv => SearchTypeOK
    BY DEF SearchInv
<1> QED BY <1>1, SearchInitial, SearchInductive, PTL DEF SearchSafety

\* validate_task_graph accepts exactly the closed graphs without cycles, for
\* every set of task ids and in whatever order it iterates over its sets.
THEOREM SearchVerdict == SearchSafety => []VerdictIsRight
<1>1. SearchInv => VerdictIsRight
    BY DEF SearchInv
<1> QED BY <1>1, SearchInitial, SearchInductive, PTL DEF SearchSafety

\* The search of a finite graph ends: every step advances in the order of
\* SearchAdvances, whose parts are sets of ids, so that on finitely many ids
\* none can go on for ever.
THEOREM SearchTerminates == SearchSafety => SearchAdvances
<1> DEFINE called == visiting \cup visited
           Advance ==
               /\ verdict = "none"
               /\ \/ verdict' # "none"
                  \/ Smaller(roots', roots)
                  \/ roots' = roots /\ Smaller(called, called')
                  \/ roots' = roots /\ called' = called /\ Smaller(visited, visited')
                  \/ /\ roots' = roots /\ called' = called /\ visited' = visited
                     /\ \A t \in Ids : todo'[t] \subseteq todo[t]
                     /\ todo' # todo
<1>1. ASSUME SearchInv, SearchStep PROVE Advance
    <2>1. CASE RejectEarly \/ Accept
        BY <2>1 DEF RejectEarly, Accept, Searching
    <2>2. ASSUME NEW t \in Ids, VisitRoot(t) PROVE Advance
        BY <2>2 DEF VisitRoot, Searching, Smaller
    <2>3. ASSUME NEW t \in Ids, VisitDependency(t) PROVE Advance
        <3>1. /\ verdict = "none" /\ path # <<>> /\ t \in todo[Top] /\ visit(t)
              /\ todo' = TodoAfter(Top, t) /\ UNCHANGED <<ids, graph, roots, visited>>
            BY <2>3 DEF VisitDependency, Searching
        <3>2. CASE t \in visiting
            BY <3>1, <3>2 DEF visit
        <3>3. CASE t \notin visiting /\ t \in visited
            <4>1. UNCHANGED <<visiting, verdict>>
                BY <3>1, <3>3 DEF visit
            <4>2. todo' = [u \in Ids |-> todo[u] \ (IF u = Top THEN {t} ELSE {})]
                BY <3>1, <3>3 DEF TodoAfter
            <4>3. Top \in Ids
                BY <1>1, <3>1 DEF Top, SearchInv, SearchTypeOK
            <4>4. t \notin todo'[Top] /\ \A u \in Ids : todo'[u] \subseteq todo[u]
                BY <4>2, <4>3
            <4>5. todo' # todo
                BY <3>1, <4>4
            <4> QED BY <3>1, <4>1, <4>4, <4>5
        <3>4. CASE t \notin visiting /\ t \notin visited
            BY <3>1, <3>4 DEF visit, Smaller
        <3> QED BY <3>2, <3>3, <3>4
    <2>4. CASE Leave
        <3>1. /\ verdict = "none" /\ path # <<>> /\ visiting' = visiting \ {Top}
              /\ visited' = visited \cup {Top} /\ UNCHANGED roots
            BY <2>4 DEF Leave, Searching
        <3>2. Top \in visiting /\ Top \notin visited
            BY <1>1, <3>1 DEF SearchInv, PathInv, Top, SearchTypeOK
        <3> QED BY <3>1, <3>2 DEF Smaller
    <2> QED BY <1>1, <2>1, <2>2, <2>3, <2>4 DEF SearchStep
<1>2. SearchInv /\ [SearchStep]_searchVars => [Advance]_searchVars
    BY <1>1
<1>3. SearchSafety => []SearchInv
    BY SearchInitial, SearchInductive, PTL DEF SearchSafety
<1> QED BY <1>2, <1>3, PTL DEF SearchSafety, SearchAdvances
==============================================================================
