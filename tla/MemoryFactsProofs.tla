-------------------------- MODULE MemoryFactsProofs --------------------------
(***************************************************************************)
(* What confirms a fact, how its support is counted and how many rows it   *)
(* has, for any number of facts, sources, tasks, retries and edits.        *)
(***************************************************************************)
EXTENDS MemoryFacts, FiniteSetTheorems, TLAPS

\* The sources of a row as the transaction of t sees them.
Mine(t, r) == {o \in observations \cup observed[t] : o[1] = r}

Count(r) == Cardinality(SourcesOf(r))

CountMine(t, r) == Cardinality(Mine(t, r))

Reading(t, r) == open[t] # None /\ open[t].row = r

Works(t, r) == r \in draft[t] \/ saved[t][r] # None \/ Reading(t, r)

Unsupported(r) == r \notin manual /\ support_count[r] = 0 /\ \A o \in observations : o[1] # r

-------------------------------------------------------------------------------
\* Ids without a row, rows that are not committed, and who works on them.
RowInv ==
    /\ \A r \in Rows : fact[r] = None => Unsupported(r)
    /\ \A t \in Tasks : \A r \in draft[t] : Unsupported(r)
    /\ \A t \in Tasks, r \in Rows : Works(t, r) => fact[r] # None
    /\ \A t, u \in Tasks, r \in Rows : t # u /\ Works(t, r) => r \notin draft[u]
    /\ \A t \in Tasks : \A o \in observed[t] : saved[t][o[1]] # None

\* The support that is stored, and what transactions have read and updated.
SupportInv ==
    \A r \in Rows : r \notin manual =>
        /\ support_count[r] <= Count(r)
        /\ \A t \in Tasks :
               /\ saved[t][r] # None => saved[t][r].support <= CountMine(t, r)
               /\ Reading(t, r) => open[t].support <= CountMine(t, r)

\* Likewise for the status.
ConfirmInv ==
    \A r \in Rows : r \notin manual /\ fact[r] # None /\ fact[r][1] \notin Immediate =>
        /\ status[r] = "confirmed" => Count(r) >= Support
        /\ \A t \in Tasks :
               /\ saved[t][r] # None /\ saved[t][r].status = "confirmed"
                      => CountMine(t, r) >= Support
               /\ Reading(t, r) /\ open[t].status = "confirmed" => CountMine(t, r) >= Support

\* Nothing is lost while one task at a time works on a fact.
ExactInv ==
    \A r \in Rows : r \notin manual /\ fact[r] # None /\ fact[r] \notin raced =>
        /\ support_count[r] = Count(r)
        /\ \A t \in Tasks :
               /\ saved[t][r] # None => saved[t][r].support = CountMine(t, r)
               /\ Reading(t, r) => open[t].support = CountMine(t, r)

\* Two tasks that work on rows of one fact are in a race.
AloneInv ==
    \A t, u \in Tasks, r, q \in Rows :
        t # u /\ Works(t, r) /\ Works(u, q) /\ fact[r] = fact[q] => fact[r] \in raced

\* Rows of one fact, committed or not, are due to a race.
SingleInv ==
    \A r, q \in Rows \ (gone \cup manual) :
        r # q /\ fact[r] = fact[q] /\ fact[r] # None => fact[r] \in raced

MemInv == MemoryTypeOK /\ RowInv /\ SupportInv /\ ConfirmInv /\ ExactInv /\ AloneInv /\ SingleInv

-------------------------------------------------------------------------------
\* There are finitely many observations.
LEMMA PairsFinite == IsFiniteSet(Rows \X (Sources \cup {"manual"}))
<1> DEFINE All == Rows \X (Sources \cup {"manual"})
<1>1. IsFiniteSet(Rows)
    BY FS_Interval, BoundsAssumption DEF Rows
<1>2. IsFiniteSet(Sources \cup {"manual"})
    BY FS_AddElement, SourcesAssumption
<1> HIDE DEF All
<1>3. IsFiniteSet(All)
    BY <1>1, <1>2, FS_Product DEF All
<1> QED BY <1>3 DEF All

\* Sources can be counted.
LEMMA CountTypes ==
    ASSUME MemoryTypeOK
    PROVE  /\ \A r \in Rows : IsFiniteSet(SourcesOf(r)) /\ Count(r) \in Nat
           /\ \A t \in Tasks, r \in Rows :
                  /\ IsFiniteSet(Mine(t, r)) /\ CountMine(t, r) \in Nat
                  /\ Count(r) <= CountMine(t, r)
<1> DEFINE All == Rows \X (Sources \cup {"manual"})
<1>1. IsFiniteSet(All)
    BY PairsFinite
<1>2. ASSUME NEW r \in Rows
      PROVE  IsFiniteSet(SourcesOf(r)) /\ Count(r) \in Nat
    <2>1. SourcesOf(r) \in SUBSET All
        BY DEF SourcesOf, MemoryTypeOK
    <2> HIDE DEF All
    <2> QED BY <1>1, <2>1, FS_Subset, FS_CardinalityType DEF Count
<1>3. ASSUME NEW t \in Tasks, NEW r \in Rows
      PROVE  /\ IsFiniteSet(Mine(t, r)) /\ CountMine(t, r) \in Nat
             /\ Count(r) <= CountMine(t, r)
    <2>1. observed[t] \subseteq All
        BY DEF MemoryTypeOK
    <2>2. Mine(t, r) \in SUBSET All
        BY <2>1 DEF Mine, MemoryTypeOK
    <2>3. SourcesOf(r) \in SUBSET Mine(t, r)
        BY DEF Mine, SourcesOf
    <2> HIDE DEF All
    <2>4. IsFiniteSet(Mine(t, r)) /\ CountMine(t, r) \in Nat
        BY <1>1, <2>2, FS_Subset, FS_CardinalityType DEF CountMine
    <2> QED BY <2>3, <2>4, FS_Subset DEF Count, CountMine
<1> QED BY <1>2, <1>3

\* A transaction that has observed nothing of a row sees its sources.
LEMMA CountSame ==
    ASSUME NEW t \in Tasks, NEW r \in Rows, \A o \in observed[t] : o[1] # r
    PROVE  CountMine(t, r) = Count(r)
<1>1. Mine(t, r) = SourcesOf(r)
    BY DEF Mine, SourcesOf
<1> QED BY <1>1 DEF Count, CountMine

-------------------------------------------------------------------------------
\* The initial state satisfies the invariant.
LEMMA InitMem == Init => MemInv
<1> SUFFICES ASSUME Init PROVE MemInv
    OBVIOUS
<1> USE DEF Init
<1>1. MemoryTypeOK
    BY BoundsAssumption, NoneIsNothing DEF MemoryTypeOK, Statuses
<1>2. RowInv
    BY DEF RowInv, Unsupported, Works, Reading
<1>3. SupportInv
    BY <1>1, CountTypes DEF SupportInv, Reading
<1>4. ConfirmInv /\ ExactInv /\ AloneInv /\ SingleInv
    BY DEF ConfirmInv, ExactInv, AloneInv, SingleInv, Works, Reading
<1> QED BY <1>1, <1>2, <1>3, <1>4 DEF MemInv

-------------------------------------------------------------------------------
\* Steps that insert no observation leave the counts alone.
LEMMA CountsStay ==
    ASSUME UNCHANGED <<observations, observed>>
    PROVE  /\ \A r : Count(r)' = Count(r)
           /\ \A t, r : CountMine(t, r)' = CountMine(t, r)
BY DEF Count, CountMine, SourcesOf, Mine

\* What a transaction sees of a row.
LEMMA SeenTypes ==
    ASSUME MemoryTypeOK, NEW t \in Tasks, NEW r \in Rows
    PROVE  SupportSeen(t, r) \in Nat /\ StatusSeen(t, r) \in Statuses
BY DEF MemoryTypeOK, SupportSeen, StatusSeen, Updates

\* A race is noted when a candidate of a fact that is worked on begins.
LEMMA RaceNoted ==
    ASSUME MemInv, NEW t \in Tasks, NEW f, NextCandidate(t, f)
    PROVE  /\ raced \subseteq raced'
           /\ \A u \in Tasks, r \in Rows : u # t /\ Works(u, r) /\ fact[r] = f => f \in raced'
BY DEF NextCandidate, TouchedFacts, Touched, Works, Reading, MemInv, MemoryTypeOK

\* Reading a row keeps the invariant.
LEMMA FindMem ==
    ASSUME MemInv, NEW t \in Tasks, NEW f \in Facts, _find_same(t, f)
    PROVE  MemInv'
<1> USE DEF MemInv
<1>1. PICK r \in Matches(t, f) :
          open' = [open EXCEPT ![t] = [row |-> r, support |-> SupportSeen(t, r),
                                       status |-> StatusSeen(t, r)]]
    BY DEF _find_same
<1>2. /\ r \in Rows /\ fact[r] = f /\ f # None /\ r \notin gone
      /\ \A u \in Tasks \ {t} : r \notin draft[u]
    BY NoneIsNothing DEF Matches, Stored, Drafts, MemoryTypeOK, RowInv, Works
<1>3. /\ UNCHANGED <<columns, pc, attempt, draft, saved, observed, crashes, edits>>
      /\ NextCandidate(t, f)
    BY DEF _find_same
<1>4. /\ \A q : Count(q)' = Count(q)
      /\ \A u, q : CountMine(u, q)' = CountMine(u, q)
    BY <1>3, CountsStay DEF columns
<1>5. SupportSeen(t, r) \in Nat /\ StatusSeen(t, r) \in Statuses
    BY <1>2, SeenTypes
<1>6. /\ open'[t] = [row |-> r, support |-> SupportSeen(t, r), status |-> StatusSeen(t, r)]
      /\ open'[t] \in Reads
      /\ \A u \in Tasks \ {t} : open'[u] = open[u]
    BY <1>1, <1>2, <1>5 DEF MemoryTypeOK, Reads
<1>7. MemoryTypeOK'
    <2>1. open' \in [Tasks -> Reads \cup {None}]
        BY <1>1, <1>6 DEF MemoryTypeOK
    <2>2. candidates' \in [Tasks -> Nat] /\ raced' \subseteq Facts
        BY <1>3 DEF NextCandidate, MemoryTypeOK
    <2> QED BY <1>3, <2>1, <2>2 DEF MemoryTypeOK, columns
<1>8. /\ \A u \in Tasks, q \in Rows : u # t => (Reading(u, q)' <=> Reading(u, q))
      /\ \A q \in Rows : Reading(t, q)' <=> q = r
      /\ \A u \in Tasks, q \in Rows : u # t => (Works(u, q)' <=> Works(u, q))
      /\ \A q \in Rows : Works(t, q)' => Works(t, q) \/ q = r
    BY <1>2, <1>3, <1>6, NoneIsNothing DEF Reading, Works
<1>9. RowInv'
    BY <1>2, <1>3, <1>8 DEF RowInv, Unsupported, columns
<1>10. SupportInv'
    BY <1>2, <1>3, <1>4, <1>6, <1>8, CountTypes, <1>7
       DEF SupportInv, SupportSeen, columns, MemoryTypeOK
<1>11. ConfirmInv'
    <2>1. ASSUME r \notin manual, f[1] \notin Immediate, StatusSeen(t, r) = "confirmed"
          PROVE  CountMine(t, r) >= Support
        <3>1. /\ saved[t][r] # None /\ saved[t][r].status = "confirmed"
                     => CountMine(t, r) >= Support
              /\ status[r] = "confirmed" => Count(r) >= Support
            BY <1>2, <2>1 DEF ConfirmInv
        <3>2. Count(r) \in Nat /\ CountMine(t, r) \in Nat /\ Count(r) <= CountMine(t, r)
            BY <1>2, CountTypes
        <3> QED BY <2>1, <3>1, <3>2, SupportAssumption DEF StatusSeen
    <2>2. UNCHANGED <<fact, status, manual, saved>>
        BY <1>3 DEF columns
    <2> QED BY <1>2, <1>4, <1>6, <1>8, <2>1, <2>2 DEF ConfirmInv
<1>12. ExactInv'
    <2>1. saved[t][r] = None => CountMine(t, r) = Count(r)
        BY <1>2, CountSame DEF RowInv, MemoryTypeOK
    <2> QED BY <1>2, <1>3, <1>4, <1>6, <1>8, <2>1, RaceNoted
            DEF ExactInv, SupportSeen, columns, MemoryTypeOK
<1>13. AloneInv'
    BY <1>2, <1>3, <1>8, RaceNoted DEF AloneInv, columns
<1>14. SingleInv'
    BY <1>3, RaceNoted DEF SingleInv, columns
<1> QED BY <1>7, <1>9, <1>10, <1>11, <1>12, <1>13, <1>14

\* Inserting a row keeps the invariant.
LEMMA InsertMem ==
    ASSUME MemInv, NEW t \in Tasks, NEW f \in Facts, insert(t, f)
    PROVE  MemInv'
<1> USE DEF MemInv
<1> DEFINE first == IF f[1] \in Personal THEN "confirmed" ELSE "pending"
<1>1. PICK r \in Rows :
           /\ Fresh(r)
           /\ fact' = [fact EXCEPT ![r] = f]
           /\ status' = [status EXCEPT ![r] = first]
           /\ open' = [open EXCEPT ![t] = [row |-> r, support |-> 0, status |-> first]]
           /\ draft' = [draft EXCEPT ![t] = @ \cup {r}]
    BY DEF insert
<1>2. /\ fact[r] = None /\ f # None /\ Unsupported(r)
      /\ \A u \in Tasks : ~Works(u, r)
      /\ \A u \in Tasks : \A o \in observed[u] : o[1] # r
    BY <1>1, NoneIsNothing DEF Fresh, RowInv, MemoryTypeOK, Works
<1>3. /\ UNCHANGED <<support_count, gone, manual, observations, pc, attempt, saved,
                     observed, crashes, edits>>
      /\ NextCandidate(t, f) /\ Matches(t, f) = {}
    BY DEF insert
<1>4. /\ \A q : Count(q)' = Count(q)
      /\ \A u, q : CountMine(u, q)' = CountMine(u, q)
    BY <1>3, CountsStay
<1>5. /\ open'[t] = [row |-> r, support |-> 0, status |-> first]
      /\ open'[t] \in Reads
      /\ \A u \in Tasks \ {t} : open'[u] = open[u] /\ draft'[u] = draft[u]
      /\ draft'[t] = draft[t] \cup {r}
      /\ fact'[r] = f /\ status'[r] = first
      /\ \A q \in Rows \ {r} : fact'[q] = fact[q] /\ status'[q] = status[q]
    BY <1>1 DEF MemoryTypeOK, Reads, Statuses
<1>6. MemoryTypeOK'
    <2>1. /\ open' \in [Tasks -> Reads \cup {None}]
          /\ fact' \in [Rows -> Facts \cup {None}] /\ status' \in [Rows -> Statuses]
          /\ draft' \in [Tasks -> SUBSET Rows]
        BY <1>1, <1>5 DEF MemoryTypeOK, Statuses
    <2>2. candidates' \in [Tasks -> Nat] /\ raced' \subseteq Facts
        BY <1>3 DEF NextCandidate, MemoryTypeOK
    <2> QED BY <1>3, <2>1, <2>2 DEF MemoryTypeOK
<1>7. /\ \A u \in Tasks, q \in Rows : u # t => (Reading(u, q)' <=> Reading(u, q))
      /\ \A q \in Rows : Reading(t, q)' <=> q = r
      /\ \A u \in Tasks, q \in Rows : u # t => (Works(u, q)' <=> Works(u, q))
      /\ \A q \in Rows : Works(t, q)' => Works(t, q) \/ q = r
    BY <1>3, <1>5, NoneIsNothing DEF Reading, Works
<1>8. RowInv'
    <2>1. \A q \in Rows : Unsupported(q) => Unsupported(q)'
        BY <1>3 DEF Unsupported
    <2>2. \A q \in Rows : fact[q]' = None => Unsupported(q)'
        BY <1>2, <1>5, <2>1 DEF RowInv
    <2>3. ASSUME NEW u \in Tasks, NEW q \in draft'[u]
          PROVE  Unsupported(q)'
        <3>1. q \in Rows /\ (q \in draft[u] \/ q = r)
            BY <1>5 DEF MemoryTypeOK
        <3> QED BY <1>2, <2>1, <3>1 DEF RowInv
    <2>4. \A u \in Tasks, q \in Rows : Works(u, q)' => fact[q]' # None
        BY <1>2, <1>5, <1>7 DEF RowInv
    <2>5. \A u \in Tasks : r \notin draft[u]
        BY <1>2 DEF Works
    <2>6. \A u, v \in Tasks, q \in Rows : u # v /\ Works(u, q)' => q \notin draft[v]'
        BY <1>2, <1>5, <1>7, <2>5 DEF RowInv
    <2>7. \A u \in Tasks : \A o \in observed[u]' : saved[u][o[1]]' # None
        BY <1>3 DEF RowInv
    <2> QED BY <2>2, <2>3, <2>4, <2>6, <2>7 DEF RowInv
<1>9. SupportInv'
    BY <1>2, <1>3, <1>4, <1>5, <1>6, <1>7, CountTypes DEF SupportInv
<1>10. ConfirmInv'
    BY <1>2, <1>3, <1>4, <1>5, <1>7 DEF ConfirmInv, Immediate, Works
<1>11. ExactInv'
    <2>1. Count(r) = 0 /\ CountMine(t, r) = 0
        <3>1. SourcesOf(r) = {} /\ Mine(t, r) = {}
            BY <1>2 DEF SourcesOf, Mine, Unsupported
        <3> QED BY <3>1, FS_EmptySet DEF Count, CountMine
    <2> QED BY <1>2, <1>3, <1>4, <1>5, <1>7, <2>1, RaceNoted
            DEF ExactInv, Works, Unsupported
<1>12. AloneInv'
    BY <1>2, <1>3, <1>5, <1>7, RaceNoted DEF AloneInv, RowInv
<1>13. SingleInv'
    <2>1. ASSUME NEW q \in Rows \ (gone \cup manual), q # r, fact[q] = f
          PROVE  f \in raced'
        <3>1. PICK u \in Tasks \ {t} : q \in draft[u]
            BY <1>3, <2>1, NoneIsNothing DEF Matches, Stored, Drafts
        <3> QED BY <1>3, <2>1, <3>1, RaceNoted DEF Works
    <2> QED BY <1>3, <1>5, <2>1, RaceNoted DEF SingleInv
<1> QED BY <1>6, <1>8, <1>9, <1>10, <1>11, <1>12, <1>13

\* Updating a row keeps the invariant.
LEMMA ReconcileMem ==
    ASSUME MemInv, NEW t \in Tasks, NEW E \in Evidence, NEW conflict \in BOOLEAN,
           reconcile(t, E, conflict)
    PROVE  MemInv'
<1> USE DEF MemInv
<1>0. PICK r \in Rows : open[t].row = r
    BY DEF reconcile, MemoryTypeOK, Reads
<1> DEFINE new   == Unobserved(t, r, E)
           count == open[t].support + Cardinality(new)
           prior == IF saved[t][r] = None THEN None ELSE saved[t][r].status
           after == IF conflict THEN "unconfirmed"
                    ELSE IF confirms(fact[r], count) THEN "confirmed" ELSE open[t].status
           column == [support |-> count,
                      status |-> IF after = open[t].status THEN prior ELSE after]
<1>1. /\ open[t] # None
      /\ \A u \in Tasks \ {t} : saved[u][r] = None
      /\ open' = [open EXCEPT ![t] = None]
      /\ observed' = [observed EXCEPT ![t] = @ \cup new]
      /\ saved' = IF new = {} THEN saved ELSE [saved EXCEPT ![t][r] = column]
      /\ UNCHANGED <<columns, pc, attempt, candidates, draft, crashes, edits, raced>>
    BY <1>0 DEF reconcile
<1>2. open[t] \in Reads /\ r \in Rows /\ Reading(t, r)
    BY <1>0, <1>1 DEF MemoryTypeOK, Reads, Reading
<1>3. /\ new \subseteq Rows \X Sources
      /\ \A o \in new : o[1] = r
      /\ new \cap Mine(t, r) = {}
    BY <1>2 DEF Unobserved, Evidence, Mine
<1>4. /\ \A q : Count(q)' = Count(q)
      /\ \A u \in Tasks, q \in Rows : u # t \/ q # r => CountMine(u, q)' = CountMine(u, q)
      /\ Mine(t, r)' = Mine(t, r) \cup new
    <2>1. \A q : SourcesOf(q)' = SourcesOf(q)
        BY <1>1 DEF SourcesOf, columns
    <2>2. \A u \in Tasks, q \in Rows : u # t \/ q # r => Mine(u, q)' = Mine(u, q)
        BY <1>1, <1>3 DEF Mine, columns, MemoryTypeOK
    <2>3. Mine(t, r)' = Mine(t, r) \cup new
        BY <1>1, <1>3 DEF Mine, columns, MemoryTypeOK
    <2> QED BY <2>1, <2>2, <2>3 DEF Count, CountMine
<1> HIDE DEF new
<1>5. IsFiniteSet(new) /\ Cardinality(new) \in Nat
    <2>1. new \subseteq {r} \X Sources
        BY <1>2, <1>3
    <2>2. IsFiniteSet({r} \X Sources)
        BY FS_Singleton, FS_Product, SourcesAssumption
    <2> QED BY <2>1, <2>2, FS_Subset, FS_CardinalityType
<1>6. CountMine(t, r) \in Nat /\ Count(r) \in Nat /\ IsFiniteSet(Mine(t, r))
    BY CountTypes
<1>7. CountMine(t, r)' = CountMine(t, r) + Cardinality(new)
    <2>1. Cardinality(Mine(t, r) \cup new) =
              Cardinality(Mine(t, r)) + Cardinality(new) - Cardinality(Mine(t, r) \cap new)
        BY <1>5, <1>6, FS_Union
    <2>2. Mine(t, r) \cap new = {}
        BY <1>3
    <2>3. Cardinality(Mine(t, r) \cap new) = 0
        BY <2>2, FS_EmptySet
    <2>4. CountMine(t, r)' = Cardinality(Mine(t, r) \cup new)
        BY <1>4 DEF CountMine
    <2> QED BY <1>5, <1>6, <2>1, <2>3, <2>4 DEF CountMine
<1>8. new = {} => Cardinality(new) = 0
    BY FS_EmptySet
<1>9. open[t].support \in Nat /\ open[t].status \in Statuses /\ count \in Nat
    BY <1>2, <1>5 DEF Reads
<1>10. column \in Updates /\ column.support = count
    BY <1>2, <1>9 DEF Updates, MemoryTypeOK, Statuses
<1>11. /\ new = {} => saved' = saved
       /\ new # {} => saved'[t][r] = column
       /\ \A u \in Tasks, q \in Rows : u # t \/ q # r => saved'[u][q] = saved[u][q]
       /\ saved' \in [Tasks -> [Rows -> Updates \cup {None}]]
    BY <1>1, <1>2, <1>10 DEF MemoryTypeOK
<1>12. MemoryTypeOK'
    <2>1. open' \in [Tasks -> Reads \cup {None}]
        BY <1>1 DEF MemoryTypeOK
    <2>2. observed' \in [Tasks -> SUBSET (Rows \X Sources)]
        BY <1>1, <1>3 DEF MemoryTypeOK
    <2> QED BY <1>1, <1>11, <2>1, <2>2 DEF MemoryTypeOK, columns
<1>13. /\ \A u \in Tasks, q \in Rows : Reading(u, q)' => u # t /\ Reading(u, q) /\ open'[u] = open[u]
       /\ \A u \in Tasks, q \in Rows : Works(u, q)' => Works(u, q)
    BY <1>1, <1>2, <1>11 DEF Reading, Works, MemoryTypeOK
<1> HIDE DEF count, column, after, prior
<1>14. RowInv'
    <2>1. \A q \in Rows : Unsupported(q)' <=> Unsupported(q)
        BY <1>1 DEF Unsupported, columns
    <2>2. \A u \in Tasks : \A o \in observed[u]' : saved[u][o[1]]' # None
        <3> SUFFICES ASSUME NEW u \in Tasks, NEW o \in observed'[u]
                     PROVE  saved'[u][o[1]] # None
            OBVIOUS
        <3>1. o[1] \in Rows
            BY <1>12 DEF MemoryTypeOK
        <3>2. CASE o \in new
            BY <1>1, <1>3, <1>10, <1>11, <3>2, NoneIsNothing, <3>1 DEF RowInv, MemoryTypeOK
        <3>3. CASE o \notin new
            BY <1>1, <1>10, <1>11, <3>1, <3>3, NoneIsNothing DEF RowInv, MemoryTypeOK
        <3> QED BY <3>2, <3>3
    <2> QED BY <1>1, <1>13, <2>1, <2>2 DEF RowInv, columns, MemoryTypeOK
<1>15. SupportInv'
    <2>1. ASSUME r \notin manual, saved'[t][r] # None
          PROVE  saved'[t][r].support <= CountMine(t, r)'
        <3>1. CASE new = {}
            BY <1>6, <1>7, <1>8, <1>11, <2>1, <3>1 DEF SupportInv
        <3>2. CASE new # {}
            BY <1>2, <1>5, <1>6, <1>7, <1>9, <1>10, <1>11, <2>1, <3>2 DEF SupportInv, count
        <3> QED BY <3>1, <3>2
    <2> QED BY <1>1, <1>4, <1>11, <1>13, <2>1 DEF SupportInv, columns
<1>16. ExactInv'
    BY <1>1, <1>2, <1>4, <1>6, <1>7, <1>8, <1>9, <1>10, <1>11, <1>13
       DEF ExactInv, columns, count
<1>17. ConfirmInv'
    <2>1. ASSUME r \notin manual, fact[r] # None, fact[r][1] \notin Immediate,
                 new # {}, column.status = "confirmed"
          PROVE  CountMine(t, r)' >= Support
        <3>1. column.status = IF after = open[t].status THEN prior ELSE after
            BY DEF column
        <3>2. CASE after = open[t].status
            BY <1>2, <1>5, <1>6, <1>7, <2>1, <3>1, <3>2, NoneIsNothing, SupportAssumption
               DEF ConfirmInv, prior, Statuses
        <3>3. CASE after # open[t].status
            <4>1. confirms(fact[r], count)
                BY <2>1, <3>1, <3>3 DEF after
            <4>2. count >= Support
                BY <2>1, <4>1 DEF confirms
            <4> QED BY <1>2, <1>5, <1>6, <1>7, <1>9, <2>1, <4>2, SupportAssumption
                    DEF SupportInv, count
        <3> QED BY <3>2, <3>3
    <2> QED BY <1>1, <1>2, <1>4, <1>6, <1>7, <1>8, <1>11, <1>13, <2>1 DEF ConfirmInv, columns
<1>18. AloneInv' /\ SingleInv'
    BY <1>1, <1>13 DEF AloneInv, SingleInv, columns
<1> QED BY <1>12, <1>14, <1>15, <1>16, <1>17, <1>18

-------------------------------------------------------------------------------
\* What is left of a transaction that has ended.
LEMMA ClearedTask ==
    ASSUME MemInv, NEW t \in Tasks, Clear(t)
    PROVE  /\ open' \in [Tasks -> Reads \cup {None}] /\ candidates' \in [Tasks -> Nat]
           /\ draft' \in [Tasks -> SUBSET Rows]
           /\ saved' \in [Tasks -> [Rows -> Updates \cup {None}]]
           /\ observed' \in [Tasks -> SUBSET (Rows \X Sources)]
           /\ open'[t] = None /\ draft'[t] = {} /\ observed'[t] = {}
           /\ \A r \in Rows : saved'[t][r] = None
           /\ \A u \in Tasks \ {t} : /\ open'[u] = open[u] /\ draft'[u] = draft[u]
                                     /\ saved'[u] = saved[u] /\ observed'[u] = observed[u]
           /\ \A u \in Tasks, r \in Rows :
                  /\ Reading(u, r)' <=> u # t /\ Reading(u, r)
                  /\ Works(u, r)' <=> u # t /\ Works(u, r)
<1>1. /\ open' \in [Tasks -> Reads \cup {None}] /\ candidates' \in [Tasks -> Nat]
      /\ draft' \in [Tasks -> SUBSET Rows]
      /\ saved' \in [Tasks -> [Rows -> Updates \cup {None}]]
      /\ observed' \in [Tasks -> SUBSET (Rows \X Sources)]
    BY DEF Clear, MemInv, MemoryTypeOK
<1>2. /\ open'[t] = None /\ draft'[t] = {} /\ observed'[t] = {}
      /\ \A r \in Rows : saved'[t][r] = None
      /\ \A u \in Tasks \ {t} : /\ open'[u] = open[u] /\ draft'[u] = draft[u]
                                /\ saved'[u] = saved[u] /\ observed'[u] = observed[u]
    BY DEF Clear, MemInv, MemoryTypeOK
<1> QED BY <1>1, <1>2 DEF Reading, Works

\* The commit keeps the invariant: what the task sees becomes what is stored.
LEMMA CommitMem ==
    ASSUME MemInv, NEW t \in Tasks, checkpoint_commit(t)
    PROVE  MemInv'
<1> USE DEF MemInv
<1>1. /\ support_count' = [r \in Rows |-> SupportSeen(t, r)]
      /\ status' = [r \in Rows |-> StatusSeen(t, r)]
      /\ observations' = observations \cup observed[t]
      /\ pc' = [pc EXCEPT ![t] = "reporting"]
      /\ Clear(t)
      /\ UNCHANGED <<fact, gone, manual, attempt, crashes, edits, raced>>
    BY DEF checkpoint_commit
<1>2. MemoryTypeOK'
    <2>1. \A r \in Rows : SupportSeen(t, r) \in Nat /\ StatusSeen(t, r) \in Statuses
        BY SeenTypes
    <2>2. observations' \subseteq Rows \X (Sources \cup {"manual"})
        BY <1>1 DEF MemoryTypeOK
    <2>3. pc' \in [Tasks -> {"writing", "reporting", "ended"}]
        BY <1>1 DEF MemoryTypeOK
    <2> QED BY <1>1, <2>1, <2>2, <2>3, ClearedTask DEF MemoryTypeOK
<1>3. ASSUME NEW r \in Rows
      PROVE  /\ Count(r)' = CountMine(t, r)
             /\ \A u \in Tasks \ {t} :
                    /\ CountMine(u, r)' \in Nat /\ CountMine(u, r) <= CountMine(u, r)'
                    /\ (\A o \in observed[t] : o[1] # r) => CountMine(u, r)' = CountMine(u, r)
    <2>1. SourcesOf(r)' = Mine(t, r)
        BY <1>1 DEF SourcesOf, Mine
    <2>2. ASSUME NEW u \in Tasks \ {t}
          PROVE  Mine(u, r)' = Mine(u, r) \cup Mine(t, r)
        BY <1>1, ClearedTask DEF Mine
    <2>3. ASSUME NEW u \in Tasks \ {t}
          PROVE  /\ CountMine(u, r)' \in Nat /\ CountMine(u, r) <= CountMine(u, r)'
                 /\ (\A o \in observed[t] : o[1] # r) => CountMine(u, r)' = CountMine(u, r)
        <3>1. IsFiniteSet(Mine(u, r) \cup Mine(t, r))
            BY CountTypes, FS_Union
        <3>2. (\A o \in observed[t] : o[1] # r) => Mine(u, r) \cup Mine(t, r) = Mine(u, r)
            BY DEF Mine
        <3>3. Mine(u, r) \in SUBSET (Mine(u, r) \cup Mine(t, r))
            OBVIOUS
        <3> QED BY <2>2, <3>1, <3>2, <3>3, FS_Subset, FS_CardinalityType DEF CountMine
    <2> QED BY <2>1, <2>3 DEF Count, CountMine
<1>4. ASSUME NEW r \in Rows
      PROVE  /\ saved[t][r] = None => \A o \in observed[t] : o[1] # r
             /\ saved[t][r] = None => Count(r)' = Count(r)
             /\ ~Works(t, r) => saved[t][r] = None
    BY <1>3, CountSame DEF RowInv, Works
<1>5. RowInv'
    <2>1. ASSUME NEW r \in Rows, ~Works(t, r), Unsupported(r)
          PROVE  Unsupported(r)'
        BY <1>1, <1>4, <2>1 DEF Unsupported, SupportSeen
    <2>2. \A r \in Rows : fact[r]' = None => Unsupported(r)'
        BY <1>1, <2>1 DEF RowInv
    <2>3. ASSUME NEW u \in Tasks, NEW r \in draft'[u]
          PROVE  Unsupported(r)'
        <3>1. u # t /\ r \in draft[u] /\ r \in Rows
            BY <1>1, ClearedTask DEF MemoryTypeOK
        <3> QED BY <2>1, <3>1 DEF RowInv
    <2>4. \A u \in Tasks, r \in Rows : Works(u, r)' => fact[r]' # None
        BY <1>1, ClearedTask DEF RowInv
    <2>5. \A u, v \in Tasks, r \in Rows : u # v /\ Works(u, r)' => r \notin draft[v]'
        BY <1>1, ClearedTask DEF RowInv
    <2>6. \A u \in Tasks : \A o \in observed[u]' : saved[u][o[1]]' # None
        BY <1>1, ClearedTask DEF RowInv
    <2> QED BY <2>2, <2>3, <2>4, <2>5, <2>6 DEF RowInv
<1>6. SupportInv'
    <2>1. ASSUME NEW r \in Rows, r \notin manual
          PROVE  support_count'[r] <= Count(r)'
        BY <1>1, <1>3, <1>4, <2>1, CountTypes DEF SupportInv, SupportSeen
    <2>2. ASSUME NEW r \in Rows, r \notin manual, NEW u \in Tasks \ {t}
          PROVE  /\ saved[u][r] # None => saved[u][r].support <= CountMine(u, r)'
                 /\ Reading(u, r) => open[u].support <= CountMine(u, r)'
        <3>1. CountMine(u, r) \in Nat /\ CountMine(u, r)' \in Nat
              /\ CountMine(u, r) <= CountMine(u, r)'
            BY <1>3, CountTypes
        <3>2. /\ saved[u][r] # None => saved[u][r].support \in Nat
              /\ Reading(u, r) => open[u].support \in Nat
            BY DEF MemoryTypeOK, Updates, Reads, Reading
        <3> QED BY <2>2, <3>1, <3>2 DEF SupportInv
    <2> QED BY <1>1, <2>1, <2>2, ClearedTask DEF SupportInv
<1>7. ConfirmInv'
    <2> DEFINE Open(r) == r \notin manual /\ fact[r] # None /\ fact[r][1] \notin Immediate
    <2>1. ASSUME NEW r \in Rows, Open(r), status'[r] = "confirmed"
          PROVE  Count(r)' >= Support
        BY <1>1, <1>3, <1>4, <2>1, CountTypes, SupportAssumption DEF ConfirmInv, StatusSeen
    <2>2. ASSUME NEW r \in Rows, Open(r), NEW u \in Tasks \ {t}
          PROVE  /\ saved[u][r] # None /\ saved[u][r].status = "confirmed"
                        => CountMine(u, r)' >= Support
                 /\ Reading(u, r) /\ open[u].status = "confirmed" => CountMine(u, r)' >= Support
        BY <1>3, <2>2, CountTypes, SupportAssumption DEF ConfirmInv
    <2> QED BY <1>1, <2>1, <2>2, ClearedTask DEF ConfirmInv
<1>8. ExactInv'
    <2> DEFINE Open(r) == r \notin manual /\ fact[r] # None /\ fact[r] \notin raced
    <2>1. ASSUME NEW r \in Rows, Open(r)
          PROVE  support_count'[r] = Count(r)'
        BY <1>1, <1>3, <1>4, <2>1 DEF ExactInv, SupportSeen
    <2>2. ASSUME NEW r \in Rows, Open(r), NEW u \in Tasks \ {t}, Works(u, r)
          PROVE  CountMine(u, r)' = CountMine(u, r)
        BY <1>3, <1>4, <2>2 DEF AloneInv
    <2> QED BY <1>1, <2>1, <2>2, ClearedTask DEF ExactInv, Works
<1>9. AloneInv' /\ SingleInv'
    BY <1>1, ClearedTask DEF AloneInv, SingleInv
<1> QED BY <1>2, <1>5, <1>6, <1>7, <1>8, <1>9

\* A rollback keeps the invariant: rows that were not committed are gone, and
\* no other task has seen them.
LEMMA RollbackMem ==
    ASSUME MemInv, NEW t \in Tasks, Rollback(t),
           pc' \in [Tasks -> {"writing", "reporting", "ended"}],
           attempt' \in [Tasks -> 0 .. max_retries], crashes' \in Nat,
           UNCHANGED <<edits, raced>>
    PROVE  MemInv'
<1> USE DEF MemInv
<1>1. /\ fact' = [r \in Rows |-> IF r \in draft[t] THEN None ELSE fact[r]]
      /\ status' = [r \in Rows |-> IF r \in draft[t] THEN "pending" ELSE status[r]]
      /\ Clear(t)
      /\ UNCHANGED <<support_count, gone, manual, observations>>
    BY DEF Rollback
<1>2. MemoryTypeOK'
    <2>1. fact' \in [Rows -> Facts \cup {None}] /\ status' \in [Rows -> Statuses]
        BY <1>1 DEF MemoryTypeOK, Statuses
    <2> QED BY <1>1, <2>1, ClearedTask DEF MemoryTypeOK
<1>3. /\ \A r : Count(r)' = Count(r)
      /\ \A u \in Tasks \ {t}, r \in Rows : CountMine(u, r)' = CountMine(u, r)
    <2>1. \A r : SourcesOf(r)' = SourcesOf(r)
        BY <1>1 DEF SourcesOf
    <2>2. \A u \in Tasks \ {t}, r \in Rows : Mine(u, r)' = Mine(u, r)
        BY <1>1, ClearedTask DEF Mine
    <2> QED BY <2>1, <2>2 DEF Count, CountMine
<1>4. /\ \A r \in Rows : Unsupported(r)' <=> Unsupported(r)
      /\ \A u \in Tasks, r \in Rows : Works(u, r)' => u # t /\ Works(u, r) /\ r \notin draft[t]
      /\ \A r \in Rows : fact'[r] # None => fact'[r] = fact[r] /\ status'[r] = status[r]
    BY <1>1, ClearedTask DEF Unsupported, RowInv
<1>5. RowInv'
    <2>1. \A r \in Rows : fact[r]' = None => Unsupported(r)'
        BY <1>1, <1>4 DEF RowInv
    <2>2. \A u \in Tasks : \A r \in draft[u]' : Unsupported(r)'
        BY <1>1, <1>4, ClearedTask DEF RowInv, MemoryTypeOK
    <2>3. \A u \in Tasks, r \in Rows : Works(u, r)' => fact[r]' # None
        BY <1>1, <1>4 DEF RowInv
    <2>4. \A u, v \in Tasks, r \in Rows : u # v /\ Works(u, r)' => r \notin draft[v]'
        BY <1>1, ClearedTask DEF RowInv
    <2>5. ASSUME NEW u \in Tasks, NEW o \in observed'[u]
          PROVE  saved'[u][o[1]] # None
        <3>1. u # t /\ o \in observed[u] /\ saved'[u] = saved[u]
            BY <1>1, ClearedTask
        <3> QED BY <3>1 DEF RowInv
    <2> QED BY <2>1, <2>2, <2>3, <2>4, <2>5 DEF RowInv
<1>6. SupportInv'
    BY <1>1, <1>3, ClearedTask DEF SupportInv
<1>7. ConfirmInv'
    <2>1. ASSUME NEW r \in Rows, r \notin manual, fact'[r] # None, fact'[r][1] \notin Immediate
          PROVE  /\ status'[r] = "confirmed" => Count(r)' >= Support
                 /\ \A u \in Tasks \ {t} :
                        /\ saved[u][r] # None /\ saved[u][r].status = "confirmed"
                               => CountMine(u, r)' >= Support
                        /\ Reading(u, r) /\ open[u].status = "confirmed"
                               => CountMine(u, r)' >= Support
        BY <1>3, <1>4, <2>1 DEF ConfirmInv
    <2>2. \A u \in Tasks, r \in Rows :
              /\ saved'[u][r] # None => u # t /\ saved'[u][r] = saved[u][r]
              /\ Reading(u, r)' => u # t /\ Reading(u, r) /\ open'[u] = open[u]
        BY <1>1, ClearedTask
    <2>3. manual' = manual
        BY <1>1
    <2> QED BY <2>1, <2>2, <2>3 DEF ConfirmInv
<1>8. ExactInv'
    BY <1>1, <1>3, <1>4, ClearedTask DEF ExactInv
<1>9. AloneInv' /\ SingleInv'
    BY <1>1, <1>4, ClearedTask DEF AloneInv, SingleInv, RowInv
<1> QED BY <1>2, <1>5, <1>6, <1>7, <1>8, <1>9

\* The ends of a task without a commit keep the invariant.
LEMMA EndMem ==
    ASSUME MemInv, NEW t \in Tasks, lose(t) \/ finish(t) \/ retry(t) \/ Crash(t)
    PROVE  MemInv'
<1> USE DEF MemInv
<1>1. CASE lose(t)
    BY <1>1, RollbackMem DEF lose, MemoryTypeOK
<1>2. CASE retry(t)
    <2>1. CASE attempt[t] < max_retries
        <3>1. attempt[t] + 1 \in 0 .. max_retries
            BY <2>1, BoundsAssumption DEF MemoryTypeOK
        <3>2. /\ pc' = [pc EXCEPT ![t] = "writing"]
              /\ attempt' = [attempt EXCEPT ![t] = attempt[t] + 1]
            BY <1>2, <2>1 DEF retry
        <3>3. attempt' \in [Tasks -> 0 .. max_retries]
            BY <3>1, <3>2 DEF MemoryTypeOK
        <3>4. pc' \in [Tasks -> {"writing", "reporting", "ended"}]
            BY <3>2 DEF MemoryTypeOK
        <3> QED BY <1>2, <3>3, <3>4, RollbackMem DEF retry, MemoryTypeOK
    <2>2. CASE ~(attempt[t] < max_retries)
        <3>1. 0 \in 0 .. max_retries
            BY BoundsAssumption
        <3>2. /\ pc' = [pc EXCEPT ![t] = "ended"]
              /\ attempt' = [attempt EXCEPT ![t] = 0]
            BY <1>2, <2>2 DEF retry
        <3>3. attempt' \in [Tasks -> 0 .. max_retries]
            BY <3>1, <3>2 DEF MemoryTypeOK
        <3>4. pc' \in [Tasks -> {"writing", "reporting", "ended"}]
            BY <3>2 DEF MemoryTypeOK
        <3> QED BY <1>2, <3>3, <3>4, RollbackMem DEF retry, MemoryTypeOK
    <2> QED BY <2>1, <2>2
<1>3. CASE Crash(t)
    BY <1>3, RollbackMem DEF Crash, MemoryTypeOK
<1>4. CASE finish(t)
    <2>1. /\ UNCHANGED <<columns, transaction, crashes, edits, raced>>
          /\ pc' \in [Tasks -> {"writing", "reporting", "ended"}]
          /\ attempt' \in [Tasks -> 0 .. max_retries]
        BY <1>4, BoundsAssumption DEF finish, MemoryTypeOK
    <2>2. /\ \A r : Count(r)' = Count(r)
          /\ \A u, r : CountMine(u, r)' = CountMine(u, r)
        BY <2>1, CountsStay DEF columns, transaction
    <2>3. MemoryTypeOK' /\ RowInv'
        BY <2>1 DEF MemoryTypeOK, RowInv, Unsupported, Works, Reading, columns, transaction
    <2>4. SupportInv' /\ ConfirmInv' /\ ExactInv'
        BY <2>1, <2>2 DEF SupportInv, ConfirmInv, ExactInv, Reading, columns, transaction
    <2>5. AloneInv' /\ SingleInv'
        BY <2>1 DEF AloneInv, SingleInv, Works, Reading, columns, transaction
    <2> QED BY <2>3, <2>4, <2>5
<1> QED BY <1>1, <1>2, <1>3, <1>4

-------------------------------------------------------------------------------
\* A forgotten row keeps the invariant.
LEMMA ForgetMem ==
    ASSUME MemInv, NEW r \in Rows, forget(r), edits' = edits + 1
    PROVE  MemInv'
<1> USE DEF MemInv
<1>1. /\ gone' = gone \cup {r}
      /\ UNCHANGED <<fact, status, support_count, manual, observations, pc, attempt,
                     transaction, crashes, raced>>
    BY DEF forget
<1>2. /\ \A q : Count(q)' = Count(q)
      /\ \A u, q : CountMine(u, q)' = CountMine(u, q)
    BY <1>1, CountsStay DEF transaction
<1>3. MemoryTypeOK' /\ RowInv'
    BY <1>1 DEF MemoryTypeOK, RowInv, Unsupported, Works, Reading, transaction
<1>4. SupportInv' /\ ConfirmInv' /\ ExactInv'
    BY <1>1, <1>2 DEF SupportInv, ConfirmInv, ExactInv, Reading, transaction
<1>5. AloneInv' /\ SingleInv'
    BY <1>1 DEF AloneInv, SingleInv, Works, Reading, transaction
<1> QED BY <1>3, <1>4, <1>5

\* A manual row keeps the invariant: nobody works on its id.
LEMMA AddMem ==
    ASSUME MemInv, NEW r \in Rows, NEW f \in Facts, NEW old_status, Add(r, f, old_status),
           old_status \in [Rows -> Statuses],
           \A q \in Rows : old_status[q] \in {status[q], "unconfirmed"},
           gone \subseteq gone', gone' \subseteq Rows,
           observations' = observations \/ observations' = observations \cup {<<r, "manual">>},
           edits' = edits + 1
    PROVE  MemInv'
<1> USE DEF MemInv
<1>1. /\ fact[r] = None
      /\ fact' = [fact EXCEPT ![r] = f]
      /\ status' = [old_status EXCEPT ![r] = "confirmed"]
      /\ support_count' = [support_count EXCEPT ![r] = IF f[1] \in Terms THEN Support ELSE 1]
      /\ manual' = manual \cup {r}
      /\ UNCHANGED <<pc, attempt, transaction, crashes, raced>>
    BY DEF Add, Fresh
<1>2. /\ \A u \in Tasks : ~Works(u, r)
      /\ \A u \in Tasks, q \in Rows : Works(u, q)' <=> Works(u, q)
      /\ \A u \in Tasks, q \in Rows : Reading(u, q)' <=> Reading(u, q)
    BY <1>1 DEF RowInv, Works, Reading, transaction
<1>3. /\ \A q \in Rows \ {r} : /\ fact'[q] = fact[q] /\ support_count'[q] = support_count[q]
                               /\ status'[q] \in {status[q], "unconfirmed"}
      /\ fact'[r] = f /\ f # None
    BY <1>1, NoneIsNothing DEF MemoryTypeOK
<1>4. \A q \in Rows \ {r} : /\ Count(q)' = Count(q)
                            /\ \A u \in Tasks : CountMine(u, q)' = CountMine(u, q)
    <2>1. \A q \in Rows \ {r} : /\ SourcesOf(q)' = SourcesOf(q)
                                /\ \A u \in Tasks : Mine(u, q)' = Mine(u, q)
        BY <1>1 DEF SourcesOf, Mine, transaction
    <2> QED BY <2>1 DEF Count, CountMine
<1>5. MemoryTypeOK'
    <2>1. /\ fact' \in [Rows -> Facts \cup {None}] /\ status' \in [Rows -> Statuses]
          /\ support_count' \in [Rows -> Nat]
          /\ observations' \subseteq Rows \X (Sources \cup {"manual"})
        BY <1>1, SupportAssumption DEF MemoryTypeOK, Statuses
    <2> QED BY <1>1, <2>1 DEF MemoryTypeOK, transaction
<1>6. RowInv'
    <2>1. \A q \in Rows \ {r} : Unsupported(q) => Unsupported(q)'
        BY <1>1, <1>3 DEF Unsupported
    <2>2. \A q \in Rows : fact[q]' = None => Unsupported(q)'
        BY <1>3, <2>1 DEF RowInv
    <2>3. ASSUME NEW u \in Tasks, NEW q \in draft'[u]
          PROVE  Unsupported(q)'
        <3>1. q \in draft[u] /\ q \in Rows /\ q # r
            BY <1>1, <1>2 DEF MemoryTypeOK, Works, transaction
        <3> QED BY <2>1, <3>1 DEF RowInv
    <2>4. \A u \in Tasks, q \in Rows : Works(u, q)' => fact[q]' # None
        BY <1>2, <1>3 DEF RowInv
    <2>5. \A u, v \in Tasks, q \in Rows : u # v /\ Works(u, q)' => q \notin draft[v]'
        BY <1>1, <1>2 DEF RowInv, transaction
    <2>6. \A u \in Tasks : \A o \in observed[u]' : saved[u][o[1]]' # None
        BY <1>1 DEF RowInv, transaction
    <2> QED BY <2>2, <2>3, <2>4, <2>5, <2>6 DEF RowInv
<1>7. SupportInv'
    BY <1>1, <1>2, <1>3, <1>4 DEF SupportInv, transaction
<1>8. ConfirmInv' /\ ExactInv'
    BY <1>1, <1>2, <1>3, <1>4 DEF ConfirmInv, ExactInv, transaction
<1>9. AloneInv' /\ SingleInv'
    BY <1>1, <1>2, <1>3 DEF AloneInv, SingleInv, transaction
<1> QED BY <1>5, <1>6, <1>7, <1>8, <1>9

\* Edits keep the invariant.
LEMMA EditMem ==
    ASSUME MemInv, Edit
    PROVE  MemInv'
<1>1. edits' = edits + 1
    BY DEF Edit
<1>2. PICK r \in Rows :
          \/ forget(r)
          \/ \E f \in Facts :
                 \/ create(r, f)
                 \/ \E old \in Rows : replace_user_fact(r, old, f) \/ update(r, old, f)
    BY DEF Edit
<1>3. CASE forget(r)
    BY <1>1, <1>3, ForgetMem
<1>4. status \in [Rows -> Statuses] /\ gone \subseteq Rows
    BY DEF MemInv, MemoryTypeOK
<1>5. ASSUME NEW f \in Facts, create(r, f)
      PROVE  MemInv'
    BY <1>1, <1>4, <1>5, AddMem DEF create
<1>6. ASSUME NEW f \in Facts, NEW old \in Rows, update(r, old, f)
      PROVE  MemInv'
    BY <1>1, <1>4, <1>6, AddMem DEF update
<1>7. ASSUME NEW f \in Facts, NEW old \in Rows, replace_user_fact(r, old, f)
      PROVE  MemInv'
    <2> DEFINE hidden == {q \in Stored \ gone : q = old \/ fact[q][1] = f[1]}
               shown == [q \in Rows |-> IF q \in hidden THEN "unconfirmed" ELSE status[q]]
    <2>1. /\ Add(r, f, shown)
          /\ observations' = observations \cup {<<r, "manual">>}
          /\ gone' = gone
        BY <1>7 DEF replace_user_fact
    <2>2. shown \in [Rows -> Statuses] /\ \A q \in Rows : shown[q] \in {status[q], "unconfirmed"}
        BY <1>4 DEF Statuses
    <2> HIDE DEF shown
    <2> QED BY <1>1, <1>4, <2>1, <2>2, AddMem
<1> QED BY <1>2, <1>3, <1>5, <1>6, <1>7

-------------------------------------------------------------------------------
\* Every step keeps the invariant.
LEMMA NextMem == MemInv /\ [Next]_vars => MemInv'
<1> SUFFICES ASSUME MemInv, [Next]_vars PROVE MemInv'
    OBVIOUS
<1>1. CASE Next
    <2>1. ASSUME NEW t \in Tasks, Work(t) \/ Crash(t)
          PROVE  MemInv'
        BY <2>1, FindMem, InsertMem, ReconcileMem, CommitMem, EndMem DEF Work
    <2> QED BY <1>1, <2>1, EditMem DEF Next
<1>2. CASE UNCHANGED vars
    <2>1. /\ \A r : Count(r)' = Count(r)
          /\ \A u, r : CountMine(u, r)' = CountMine(u, r)
        BY <1>2, CountsStay DEF vars, columns, transaction
    <2>2. MemoryTypeOK' /\ RowInv'
        BY <1>2 DEF MemInv, MemoryTypeOK, RowInv, Unsupported, Works, Reading, vars, columns,
                    transaction
    <2>3. SupportInv' /\ ConfirmInv' /\ ExactInv'
        BY <1>2, <2>1 DEF MemInv, SupportInv, ConfirmInv, ExactInv, Reading, vars, columns,
                          transaction
    <2>4. AloneInv' /\ SingleInv'
        BY <1>2 DEF MemInv, AloneInv, SingleInv, Works, Reading, vars, columns, transaction
    <2> QED BY <2>2, <2>3, <2>4 DEF MemInv
<1> QED BY <1>1, <1>2

\* The invariant of the module holds throughout.
LEMMA MemAlways == MemorySpec => []MemInv
BY InitMem, NextMem, PTL DEF MemorySpec

\* A fact of a tenant and a term are shown to agents only on as many distinct
\* sources as the reconcilers ask for (support_count >= 3).
THEOREM MemoryConfirmed == MemorySpec => []ConfirmedIsSupported
<1>1. MemInv => ConfirmedIsSupported
    BY DEF MemInv, ConfirmInv, ConfirmedIsSupported, Extracted, Stored, Count
<1> QED BY <1>1, MemAlways, PTL

\* The support of a row never exceeds its sources, and equals them unless two
\* tasks worked on the fact at the same time (support_count += added).
THEOREM MemorySupport == MemorySpec => []SupportCountsSources
<1>1. MemInv => SupportCountsSources
    BY DEF MemInv, SupportInv, ExactInv, SupportCountsSources, Extracted, Stored, Count
<1> QED BY <1>1, MemAlways, PTL

\* A second active row of a fact is due to two tasks at the same time
\* (_find_same before the insertion).
THEOREM MemoryOneRow == MemorySpec => []OneRowPerFact
<1>1. MemInv => OneRowPerFact
    BY DEF MemInv, SingleInv, OneRowPerFact, Extracted, Stored
<1> QED BY <1>1, MemAlways, PTL

\* Types: every variable keeps its type.
THEOREM MemoryTypes == MemorySpec => []MemoryTypeOK
BY MemAlways, PTL DEF MemInv

-------------------------------------------------------------------------------
\* No transaction writes the first status of a row again.
NoPending ==
    \A t \in Tasks, r \in Rows : saved[t][r] # None => saved[t][r].status # "pending"

\* Every step of the specification keeps it.
LEMMA NoPendingNext == MemoryTypeOK /\ NoPending /\ [Next]_vars => NoPending'
<1> SUFFICES ASSUME MemoryTypeOK, NoPending, [Next]_vars PROVE NoPending'
    OBVIOUS
<1>1. saved \in [Tasks -> [Rows -> Updates \cup {None}]]
    BY DEF MemoryTypeOK
<1>2. ASSUME saved' = saved PROVE NoPending'
    BY <1>2 DEF NoPending
<1>3. ASSUME NEW t \in Tasks, saved' = [saved EXCEPT ![t] = [r \in Rows |-> None]]
      PROVE  NoPending'
    BY <1>1, <1>3 DEF NoPending
<1>4. ASSUME NEW t \in Tasks, NEW E \in Evidence, NEW conflict \in BOOLEAN,
             reconcile(t, E, conflict)
      PROVE  NoPending'
    <2> DEFINE r == open[t].row
               new == Unobserved(t, r, E)
               count == open[t].support + Cardinality(new)
               prior == IF saved[t][r] = None THEN None ELSE saved[t][r].status
               after == IF conflict THEN "unconfirmed"
                        ELSE IF confirms(fact[r], count) THEN "confirmed" ELSE open[t].status
               next == IF after = open[t].status THEN prior ELSE after
    <2>1. \/ saved' = saved
          \/ saved' = [saved EXCEPT ![t][r] = [support |-> count, status |-> next]]
        BY <1>4 DEF reconcile
    <2>2. r \in Rows
        BY <1>4 DEF reconcile, MemoryTypeOK, Reads
    <2>3. next # "pending"
        <3>1. prior # "pending"
            BY <2>2, NoneIsNothing DEF NoPending, Statuses
        <3>2. after # open[t].status => after \in {"confirmed", "unconfirmed"}
            OBVIOUS
        <3> HIDE DEF prior, after
        <3> QED BY <3>1, <3>2
    <2> HIDE DEF r, count, next
    <2>4. ASSUME saved' = [saved EXCEPT ![t][r] = [support |-> count, status |-> next]]
          PROVE  NoPending'
        <3> SUFFICES ASSUME NEW u \in Tasks, NEW q \in Rows, saved'[u][q] # None
                     PROVE  saved'[u][q].status # "pending"
            BY DEF NoPending
        <3>1. CASE u = t /\ q = r
            <4>1. saved'[u][q] = [support |-> count, status |-> next]
                BY <1>1, <2>2, <2>4, <3>1
            <4> QED BY <2>3, <4>1
        <3>2. CASE ~(u = t /\ q = r)
            <4>1. saved'[u][q] = saved[u][q]
                BY <1>1, <2>2, <2>4, <3>2
            <4> QED BY <4>1 DEF NoPending
        <3> QED BY <3>1, <3>2
    <2> QED BY <1>2, <2>1, <2>4
<1>5. ASSUME NEW t \in Tasks, Work(t) \/ Crash(t) PROVE NoPending'
    <2>1. CASE \E f \in Facts : _find_same(t, f) \/ insert(t, f)
        BY <1>2, <2>1 DEF _find_same, insert
    <2>2. CASE checkpoint_commit(t) \/ lose(t) \/ retry(t) \/ Crash(t)
        BY <1>3, <2>2 DEF checkpoint_commit, lose, retry, Crash, Rollback, Clear
    <2>3. CASE finish(t)
        BY <1>2, <2>3 DEF finish, transaction
    <2> QED BY <1>4, <1>5, <2>1, <2>2, <2>3 DEF Work
<1>6. CASE Edit
    BY <1>2, <1>6 DEF Edit, forget, create, replace_user_fact, update, Add, transaction
<1>7. CASE UNCHANGED vars
    BY <1>2, <1>7 DEF vars, transaction
<1> QED BY <1>5, <1>6, <1>7 DEF Next

\* Rows that are stored stay stored as they are, and their observations too.
LEMMA RowsStay ==
    ASSUME MemInv, NoPending, Next, NEW r \in Stored
    PROVE  /\ r \in Stored' /\ fact'[r] = fact[r]
           /\ r \in gone => r \in gone'
           /\ r \notin manual => r \notin manual'
           /\ observations \subseteq observations'
           /\ status[r] # "pending" => status'[r] # "pending"
<1> DEFINE Kept ==
        /\ r \in Stored' /\ fact'[r] = fact[r]
        /\ r \in gone => r \in gone'
        /\ r \notin manual => r \notin manual'
        /\ observations \subseteq observations'
        /\ status[r] # "pending" => status'[r] # "pending"
<1>1. /\ r \in Rows /\ fact[r] # None /\ \A t \in Tasks : r \notin draft[t]
      /\ fact \in [Rows -> Facts \cup {None}] /\ status \in [Rows -> Statuses]
      /\ draft \in [Tasks -> SUBSET Rows]
    BY DEF Stored, Drafts, MemInv, MemoryTypeOK
<1>2. ASSUME fact'[r] = fact[r], \A t \in Tasks : r \notin draft'[t]
      PROVE  r \in Stored'
    BY <1>1, <1>2 DEF Stored, Drafts
<1>3. ASSUME NEW t \in Tasks, NEW f \in Facts, _find_same(t, f) PROVE Kept
    BY <1>1, <1>2, <1>3 DEF _find_same, columns
<1>4. ASSUME NEW t \in Tasks, NEW f \in Facts, insert(t, f) PROVE Kept
    <2>1. PICK q \in Rows :
              /\ Fresh(q)
              /\ fact' = [fact EXCEPT ![q] = f]
              /\ status' = [status EXCEPT ![q] = IF f[1] \in Personal THEN "confirmed" ELSE "pending"]
              /\ draft' = [draft EXCEPT ![t] = @ \cup {q}]
        BY <1>4 DEF insert
    <2>2. q # r
        BY <1>1, <2>1 DEF Fresh
    <2>3. fact'[r] = fact[r] /\ status'[r] = status[r] /\ \A u \in Tasks : r \notin draft'[u]
        BY <1>1, <2>1, <2>2
    <2> QED BY <1>2, <1>4, <2>3 DEF insert
<1>5. ASSUME NEW t \in Tasks, NEW E \in Evidence, NEW conflict \in BOOLEAN,
             reconcile(t, E, conflict)
      PROVE  Kept
    BY <1>1, <1>2, <1>5 DEF reconcile, columns
<1>6. ASSUME NEW t \in Tasks, checkpoint_commit(t) PROVE Kept
    <2>1. status'[r] = StatusSeen(t, r) /\ draft' = [draft EXCEPT ![t] = {}]
        BY <1>1, <1>6 DEF checkpoint_commit, Clear
    <2>2. status[r] # "pending" => status'[r] # "pending"
        BY <1>1, <2>1 DEF StatusSeen, NoPending
    <2>3. \A u \in Tasks : r \notin draft'[u]
        BY <1>1, <2>1
    <2> QED BY <1>2, <1>6, <2>2, <2>3 DEF checkpoint_commit
<1>7. ASSUME NEW t \in Tasks, Rollback(t) PROVE Kept
    <2>1. \A u \in Tasks : r \notin draft'[u]
        BY <1>1, <1>7 DEF Rollback, Clear
    <2>2. fact'[r] = fact[r] /\ status'[r] = status[r]
        BY <1>1, <1>7 DEF Rollback
    <2> QED BY <1>2, <1>7, <2>1, <2>2 DEF Rollback
<1>8. ASSUME NEW t \in Tasks, finish(t) PROVE Kept
    BY <1>1, <1>2, <1>8 DEF finish, columns, transaction
<1>9. ASSUME NEW t \in Tasks, Work(t) \/ Crash(t) PROVE Kept
    <2> HIDE DEF Kept
    <2> QED BY <1>3, <1>4, <1>5, <1>6, <1>7, <1>8, <1>9 DEF Work, lose, retry, Crash
<1>10. ASSUME NEW q \in Rows, NEW f, NEW shown, Add(q, f, shown),
              gone \subseteq gone', observations \subseteq observations',
              \A p \in Rows : shown[p] \in {status[p], "unconfirmed"},
              shown \in [Rows -> Statuses]
       PROVE  Kept
    <2>1. q # r
        BY <1>1, <1>10 DEF Add, Fresh
    <2>2. /\ fact'[r] = fact[r] /\ status'[r] = shown[r] /\ manual' = manual \cup {q}
          /\ draft' = draft
        BY <1>1, <1>10, <2>1 DEF Add, transaction
    <2> QED BY <1>1, <1>2, <1>10, <2>1, <2>2
<1>11. ASSUME NEW q \in Rows, forget(q) PROVE Kept
    BY <1>1, <1>2, <1>11 DEF forget, transaction
<1>12. ASSUME NEW q \in Rows, NEW f \in Facts, create(q, f) PROVE Kept
    <2> HIDE DEF Kept
    <2> QED BY <1>1, <1>10, <1>12 DEF create
<1>13. ASSUME NEW q \in Rows, NEW f \in Facts, NEW old \in Rows, update(q, old, f) PROVE Kept
    <2> HIDE DEF Kept
    <2> QED BY <1>1, <1>10, <1>13 DEF update
<1>14. ASSUME NEW q \in Rows, NEW f \in Facts, NEW old \in Rows, replace_user_fact(q, old, f)
       PROVE  Kept
    <2> DEFINE hidden == {p \in Stored \ gone : p = old \/ fact[p][1] = f[1]}
               shown == [p \in Rows |-> IF p \in hidden THEN "unconfirmed" ELSE status[p]]
    <2>1. /\ Add(q, f, shown) /\ observations \subseteq observations' /\ gone \subseteq gone'
        BY <1>14 DEF replace_user_fact
    <2>2. /\ \A p \in Rows : shown[p] \in {status[p], "unconfirmed"}
          /\ shown \in [Rows -> Statuses]
        BY <1>1 DEF Statuses
    <2> HIDE DEF shown, Kept
    <2> QED BY <1>10, <2>1, <2>2
<1>15. Edit => Kept
    <2> HIDE DEF Kept
    <2> QED BY <1>11, <1>12, <1>13, <1>14 DEF Edit
<1> HIDE DEF Kept
<1>16. Kept
    BY <1>9, <1>15 DEF Next
<1> QED BY <1>16 DEF Kept

\* A race that was noted stays noted.
LEMMA RacedGrows == Next => raced \subseteq raced'
<1>1. ASSUME NEW t \in Tasks, Work(t) \/ Crash(t) PROVE raced \subseteq raced'
    <2>1. CASE \E f \in Facts : _find_same(t, f) \/ insert(t, f)
        BY <2>1 DEF _find_same, insert, NextCandidate
    <2>2. CASE \E E \in Evidence, conflict \in BOOLEAN : reconcile(t, E, conflict)
        BY <2>2 DEF reconcile
    <2>3. CASE checkpoint_commit(t) \/ lose(t) \/ finish(t) \/ retry(t) \/ Crash(t)
        BY <2>3 DEF checkpoint_commit, lose, finish, retry, Crash
    <2> QED BY <1>1, <2>1, <2>2, <2>3 DEF Work
<1>2. CASE Edit
    BY <1>2 DEF Edit, forget, create, update, replace_user_fact, Add
<1> QED BY <1>1, <1>2 DEF Next

\* Nothing that is stored is taken back, by any number of tasks, retries, lost
\* workers and edits, and the support of an extracted row only grows while one
\* task at a time works on its fact.
THEOREM MemoryKept == MemorySpec => FactsAreKept
<1> DEFINE Kept ==
        \A r \in Stored :
            /\ r \in Stored' /\ fact'[r] = fact[r]
            /\ r \in gone => r \in gone'
            /\ SourcesOf(r) \subseteq SourcesOf(r)'
            /\ status[r] # "pending" => status'[r] # "pending"
            /\ r \in Extracted /\ fact[r] \notin raced' => support_count[r] <= support_count'[r]
<1>1. Init => NoPending
    BY DEF Init, NoPending
<1>2. MemorySpec => []NoPending
    <2>1. MemInv => MemoryTypeOK
        BY DEF MemInv
    <2> QED BY <1>1, <2>1, NoPendingNext, MemAlways, PTL DEF MemorySpec
<1>3. ASSUME MemInv, MemInv', NoPending, Next PROVE Kept
    <2> SUFFICES ASSUME NEW r \in Stored
                 PROVE  /\ r \in Stored' /\ fact'[r] = fact[r]
                        /\ r \in gone => r \in gone'
                        /\ SourcesOf(r) \subseteq SourcesOf(r)'
                        /\ status[r] # "pending" => status'[r] # "pending"
                        /\ r \in Extracted /\ fact[r] \notin raced' =>
                               support_count[r] <= support_count'[r]
        OBVIOUS
    <2>1. /\ r \in Stored' /\ fact'[r] = fact[r]
          /\ r \in gone => r \in gone'
          /\ r \notin manual => r \notin manual'
          /\ observations \subseteq observations'
          /\ status[r] # "pending" => status'[r] # "pending"
        BY <1>3, RowsStay
    <2>2. SourcesOf(r) \subseteq SourcesOf(r)'
        BY <2>1 DEF SourcesOf
    <2>3. ASSUME r \in Extracted, fact[r] \notin raced' PROVE support_count[r] <= support_count'[r]
        <3>1. raced \subseteq raced'
            BY <1>3, RacedGrows
        <3>2. /\ r \in Rows /\ r \notin manual /\ r \notin manual'
              /\ fact[r] # None /\ fact'[r] # None /\ fact[r] \notin raced /\ fact'[r] \notin raced'
            BY <2>1, <2>3, <3>1 DEF Extracted, Stored
        <3>3. support_count[r] = Count(r) /\ support_count'[r] = Count(r)'
            BY <1>3, <3>2 DEF MemInv, ExactInv
        <3>4. IsFiniteSet(SourcesOf(r)') /\ IsFiniteSet(SourcesOf(r))
            <4>1. observations \subseteq Rows \X (Sources \cup {"manual"})
                  /\ observations' \subseteq Rows \X (Sources \cup {"manual"})
                BY <1>3 DEF MemInv, MemoryTypeOK
            <4>2. IsFiniteSet(Rows \X (Sources \cup {"manual"}))
                BY PairsFinite
            <4>3. /\ SourcesOf(r) \subseteq Rows \X (Sources \cup {"manual"})
                  /\ SourcesOf(r)' \subseteq Rows \X (Sources \cup {"manual"})
                BY <4>1 DEF SourcesOf
            <4> QED BY <4>2, <4>3, FS_Subset
        <3>5. Cardinality(SourcesOf(r)) <= Cardinality(SourcesOf(r)')
            BY <2>2, <3>4, FS_Subset
        <3> QED BY <3>3, <3>5 DEF Count
    <2> QED BY <2>1, <2>2, <2>3
<1>4. MemInv /\ MemInv' /\ NoPending /\ [Next]_vars => [Kept]_vars
    BY <1>3
<1> QED BY <1>2, <1>4, MemAlways, PTL DEF MemorySpec, FactsAreKept
===============================================================================
