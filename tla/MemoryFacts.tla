----------------------------- MODULE MemoryFacts -----------------------------
(***************************************************************************)
(* Long-term memory: the rows of facts and glossary_entries with the       *)
(* observations that support them, the Celery tasks that write back what   *)
(* finished runs have shown (MemoryWriter, FactReconciler,                 *)
(* GlossaryReconciler), and the edits of users and administrators.         *)
(*                                                                         *)
(* A task works in one transaction, READ COMMITTED, that keeps what it has *)
(* inserted and updated to itself until its commit.  It reads a row        *)
(* without a lock and updates it by absolute values later on.  An update   *)
(* holds its row until the end of the transaction.                         *)
(*                                                                         *)
(* What the LLM calls extract and compact is any candidate whose evidence  *)
(* is that of the run.  One owner per scope; texts are left out.           *)
(***************************************************************************)
EXTENDS Integers, FiniteSets

CONSTANTS
    Subjects,       \* subjects of facts and canonical terms
    Values,         \* normalized values
    Personal,       \* subjects of user scope
    Marked,         \* subjects of project scope, which an agent has marked
    Terms,          \* glossary terms; the other subjects have tenant scope
    Sources,        \* source type and reference of a piece of evidence
    Tasks,          \* memory tasks, one for each finished run
    Support,        \* support that confirms; 3 in both reconcilers
    max_retries,    \* of finalize_memory_task
    MaxRows,        \* bound: rows
    MaxCandidates,  \* bound: candidates of one attempt
    MaxCrashes,     \* bound: lost workers
    MaxEdits,       \* bound: edits
    None            \* no row, no candidate, a column that is not written

Rows == 1 .. MaxRows

\* Facts are found by subject and value, terms by the term alone.
Facts == {<<s, IF s \in Terms THEN None ELSE v>> : s \in Subjects, v \in Values}

\* Facts that one observation confirms.
Immediate == Personal \cup Marked

ASSUME SubjectsAssumption ==
    /\ Personal \subseteq Subjects /\ Marked \subseteq Subjects /\ Terms \subseteq Subjects
    /\ Terms \cap Immediate = {} /\ Personal \cap Marked = {}
ASSUME SupportAssumption == Support \in Nat \ {0}
ASSUME BoundsAssumption ==
    MaxRows \in Nat /\ MaxCandidates \in Nat /\ MaxCrashes \in Nat /\ MaxEdits \in Nat
    /\ max_retries \in Nat
ASSUME SourcesAssumption == IsFiniteSet(Sources)

Statuses == {"pending", "confirmed", "unconfirmed"}

\* A row as a transaction has read it, and its columns as it has updated them.
Reads == [row : Rows, support : Nat, status : Statuses]
Updates == [support : Nat, status : Statuses \cup {None}]

ASSUME NoneIsNothing ==
    None \notin Facts /\ None \notin Statuses /\ None \notin Reads /\ None \notin Updates

VARIABLES
    fact,           \* what each row says; None: no such row
    status, support_count,  \* columns of each row
    gone,           \* rows with superseded_by, or inactive
    manual,         \* rows with source manual
    observations,   \* committed observations: row and source
    pc,             \* where each task is
    attempt,        \* retries of each task so far
    candidates,     \* candidates of this attempt so far
    open,           \* the row of the candidate under way, as it was read
    draft,          \* rows that the transaction has inserted
    saved,          \* columns of the rows that the transaction has updated
    observed,       \* observations that the transaction has inserted
    crashes,        \* workers lost so far
    edits,          \* edits so far
    raced           \* facts that two transactions worked on (history)

columns == <<fact, status, support_count, gone, manual, observations>>
transaction == <<candidates, open, draft, saved, observed>>
vars == <<columns, pc, attempt, transaction, crashes, edits, raced>>

Init ==
    /\ fact = [r \in Rows |-> None]
    /\ status = [r \in Rows |-> "pending"]
    /\ support_count = [r \in Rows |-> 0]
    /\ gone = {} /\ manual = {} /\ observations = {}
    /\ pc = [t \in Tasks |-> "writing"]
    /\ attempt = [t \in Tasks |-> 0]
    /\ candidates = [t \in Tasks |-> 0]
    /\ open = [t \in Tasks |-> None]
    /\ draft = [t \in Tasks |-> {}]
    /\ saved = [t \in Tasks |-> [r \in Rows |-> None]]
    /\ observed = [t \in Tasks |-> {}]
    /\ crashes = 0 /\ edits = 0
    /\ raced = {}

-------------------------------------------------------------------------------
\* Rows.

Drafts == UNION {draft[t] : t \in Tasks}

Stored == {r \in Rows : fact[r] # None} \ Drafts

\* The first id that was never used.
Fresh(r) == fact[r] = None /\ \A q \in 1 .. r - 1 : fact[q] # None

Locked(r) == \E t \in Tasks : saved[t][r] # None

\* The rows and facts that a transaction works on.
Touched(t) ==
    draft[t] \cup {r \in Rows : saved[t][r] # None}
             \cup (IF open[t] = None THEN {} ELSE {open[t].row})

TouchedFacts(t) == {fact[r] : r \in Touched(t)}

\* A column as the transaction of t sees it.
SupportSeen(t, r) == IF saved[t][r] # None THEN saved[t][r].support ELSE support_count[r]

StatusSeen(t, r) ==
    IF saved[t][r] # None /\ saved[t][r].status # None THEN saved[t][r].status ELSE status[r]

-------------------------------------------------------------------------------
\* The task up to its candidates.

\* The extractor and the compactor answer.
NextCandidate(t, f) ==
    /\ pc[t] = "writing"
    /\ open[t] = None
    /\ candidates[t] < MaxCandidates
    /\ candidates' = [candidates EXCEPT ![t] = @ + 1]
    /\ raced' = IF \E u \in Tasks \ {t} : f \in TouchedFacts(u) THEN raced \cup {f} ELSE raced

\* Mutant: only what is shown to agents is found.
Matches_confirmed(t, f) ==
    {r \in Stored \cup draft[t] : fact[r] = f /\ r \notin gone /\ status[r] = "confirmed"}

\* The active rows of a fact that the transaction sees.
Matches(t, f) == {r \in Stored \cup draft[t] : fact[r] = f /\ r \notin gone}

\* The candidate's row is read; of several rows it may be any.  The columns are
\* those committed now, also for a second candidate of one fact; a session that
\* still holds the object of the first may return that one's older columns.
_find_same(t, f) ==
    /\ NextCandidate(t, f)
    /\ \E r \in Matches(t, f) :
           open' = [open EXCEPT ![t] = [row |-> r, support |-> SupportSeen(t, r),
                                        status |-> StatusSeen(t, r)]]
    /\ UNCHANGED <<columns, pc, attempt, draft, saved, observed, crashes, edits>>

\* There is none: a row is inserted.  _supersede_targets, which follows for a
\* replacement, updates nothing: current_for made its ids up (_dto).
insert(t, f) ==
  LET first == IF f[1] \in Personal THEN "confirmed" ELSE "pending"
  IN
    /\ NextCandidate(t, f)
    /\ Matches(t, f) = {}
    /\ \E r \in Rows :
           /\ Fresh(r)
           /\ fact' = [fact EXCEPT ![r] = f]
           /\ status' = [status EXCEPT ![r] = first]
           /\ open' = [open EXCEPT ![t] = [row |-> r, support |-> 0, status |-> first]]
           /\ draft' = [draft EXCEPT ![t] = @ \cup {r}]
    /\ UNCHANGED <<support_count, gone, manual, observations, pc, attempt, saved,
                   observed, crashes, edits>>

-------------------------------------------------------------------------------
\* The candidate under way.

\* What is left of the evidence that the extractor has matched: pieces
\* without a source are dropped, in the compactor or in _add_observations.
Evidence == SUBSET Sources

\* Mutant: every piece of evidence is counted.
Unobserved_any(t, r, E) == {<<r, s>> : s \in E}

\* The observations that the row does not have yet: those of other
\* transactions are not seen.
Unobserved(t, r, E) == {<<r, s>> : s \in E} \ (observations \cup observed[t])

\* Mutant: the support is at the limit too early.
confirms_early(f, count) == f[1] \in Immediate \/ count + 1 >= Support

\* A fact is confirmed by one observation or by its support.
confirms(f, count) == f[1] \in Immediate \/ count >= Support

\* The observations are inserted, and the columns of the row that change are
\* set to what follows from those that were read.  An insertion waits for
\* that of another transaction, and an update for the row; a violated unique
\* index and a deadlock are exceptions (retry, lose).
reconcile(t, E, conflict) ==
    LET r     == open[t].row
        new   == Unobserved(t, r, E)
        count == open[t].support + Cardinality(new)
        prior == IF saved[t][r] = None THEN None ELSE saved[t][r].status
        after == IF conflict THEN "unconfirmed"
                 ELSE IF confirms(fact[r], count) THEN "confirmed" ELSE open[t].status
    IN  /\ pc[t] = "writing"
        /\ open[t] # None
        /\ conflict => fact[r][1] \notin Terms
        /\ \A u \in Tasks \ {t} :
               saved[u][r] = None /\ new \cap observed[u] = {}
        /\ open' = [open EXCEPT ![t] = None]
        /\ observed' = [observed EXCEPT ![t] = @ \cup new]
        /\ saved' = IF new = {} THEN saved
                    ELSE [saved EXCEPT ![t][r] =
                              [support |-> count,
                               status |-> IF after = open[t].status THEN prior ELSE after]]
        /\ UNCHANGED <<columns, pc, attempt, candidates, draft, crashes, edits, raced>>

-------------------------------------------------------------------------------
\* The end of the transaction and of the task.

Clear(t) ==
    /\ candidates' = [candidates EXCEPT ![t] = 0]
    /\ open' = [open EXCEPT ![t] = None]
    /\ draft' = [draft EXCEPT ![t] = {}]
    /\ saved' = [saved EXCEPT ![t] = [r \in Rows |-> None]]
    /\ observed' = [observed EXCEPT ![t] = {}]

Rollback(t) ==
    /\ fact' = [r \in Rows |-> IF r \in draft[t] THEN None ELSE fact[r]]
    /\ status' = [r \in Rows |-> IF r \in draft[t] THEN "pending" ELSE status[r]]
    /\ Clear(t)
    /\ UNCHANGED <<support_count, gone, manual, observations>>

\* The rows that are gone stay so: an update writes the columns that changed.
checkpoint_commit(t) ==
    /\ pc[t] = "writing"
    /\ open[t] = None
    /\ support_count' = [r \in Rows |-> SupportSeen(t, r)]
    /\ status' = [r \in Rows |-> StatusSeen(t, r)]
    /\ observations' = observations \cup observed[t]
    /\ pc' = [pc EXCEPT ![t] = "reporting"]
    /\ Clear(t)
    /\ UNCHANGED <<fact, gone, manual, attempt, crashes, edits, raced>>

\* A statement of a component fails, which the writer logs: the commit of the
\* aborted transaction is a rollback.
lose(t) ==
    /\ pc[t] = "writing"
    /\ Rollback(t)
    /\ pc' = [pc EXCEPT ![t] = "reporting"]
    /\ UNCHANGED <<attempt, crashes, edits, raced>>

\* The results are published, and the task is done.
finish(t) ==
    /\ pc[t] = "reporting"
    /\ pc' = [pc EXCEPT ![t] = "ended"]
    /\ attempt' = [attempt EXCEPT ![t] = 0]
    /\ UNCHANGED <<columns, transaction, crashes, edits, raced>>

\* An exception of a flush, of the commit or of an event that is published,
\* before or after the commit: the whole task is tried again, and given up.
retry(t) ==
    /\ pc[t] \in {"writing", "reporting"}
    /\ Rollback(t)
    /\ IF attempt[t] < max_retries
       THEN pc' = [pc EXCEPT ![t] = "writing"] /\ attempt' = [attempt EXCEPT ![t] = @ + 1]
       ELSE pc' = [pc EXCEPT ![t] = "ended"] /\ attempt' = [attempt EXCEPT ![t] = 0]
    /\ UNCHANGED <<crashes, edits, raced>>

\* The worker is lost, and the message is delivered again.
Crash(t) ==
    /\ pc[t] \in {"writing", "reporting"}
    /\ crashes < MaxCrashes
    /\ crashes' = crashes + 1
    /\ Rollback(t)
    /\ pc' = [pc EXCEPT ![t] = "writing"]
    /\ UNCHANGED <<attempt, edits, raced>>

-------------------------------------------------------------------------------
\* Edits.  Each is one short transaction.

Current(r) == r \in Stored \ gone /\ ~Locked(r)

\* A manual row, confirmed at once.
Add(r, f, old_status) ==
    /\ Fresh(r)
    /\ fact' = [fact EXCEPT ![r] = f]
    /\ status' = [old_status EXCEPT ![r] = "confirmed"]
    /\ support_count' = [support_count EXCEPT ![r] = IF f[1] \in Terms THEN Support ELSE 1]
    /\ manual' = manual \cup {r}
    /\ UNCHANGED <<pc, attempt, transaction, crashes, raced>>

\* create_user_fact, FactAdminService.create, GlossaryService.create.
create(r, f) ==
    /\ f[1] \notin Marked
    /\ Add(r, f, status)
    /\ UNCHANGED <<gone, observations>>

\* The row that the user edits and the others of its new subject are hidden,
\* not superseded.
replace_user_fact(r, old, f) ==
    LET hidden == {q \in Stored \ gone : q = old \/ fact[q][1] = f[1]}
    IN  /\ Current(old)
        /\ {fact[old][1], f[1]} \subseteq Personal
        /\ \A q \in hidden : ~Locked(q)
        /\ Add(r, f, [q \in Rows |-> IF q \in hidden THEN "unconfirmed" ELSE status[q]])
        /\ observations' = observations \cup {<<r, "manual">>}
        /\ UNCHANGED gone

\* FactAdminService.update: the row is superseded.
update(r, old, f) ==
    /\ Current(old)
    /\ fact[old][1] \notin Terms \cup Marked
    /\ f[1] \in Personal <=> fact[old][1] \in Personal
    /\ f[1] \notin Terms \cup Marked
    /\ Add(r, f, status)
    /\ gone' = gone \cup {old}
    /\ UNCHANGED observations

\* forget_owned and FactAdminService.delete.
forget(r) ==
    /\ Current(r)
    /\ fact[r][1] \notin Terms \cup Marked
    /\ gone' = gone \cup {r}
    /\ UNCHANGED <<fact, status, support_count, manual, observations, pc, attempt,
                   transaction, crashes, raced>>

-------------------------------------------------------------------------------
Work(t) ==
    \/ \E f \in Facts : _find_same(t, f) \/ insert(t, f)
    \/ \E E \in Evidence, conflict \in BOOLEAN : reconcile(t, E, conflict)
    \/ checkpoint_commit(t) \/ lose(t) \/ finish(t) \/ retry(t)

Edit ==
    /\ edits < MaxEdits
    /\ edits' = edits + 1
    /\ \E r \in Rows :
           \/ forget(r)
           \/ \E f \in Facts :
                  \/ create(r, f)
                  \/ \E old \in Rows : replace_user_fact(r, old, f) \/ update(r, old, f)

Next ==
    \/ \E t \in Tasks : Work(t) \/ Crash(t)
    \/ Edit

MemorySpec == Init /\ [][Next]_vars

-------------------------------------------------------------------------------
SourcesOf(r) == {o \in observations : o[1] = r}

\* Rows that tasks have made and committed.
Extracted == Stored \ manual

\* Every variable has its type.
MemoryTypeOK ==
    /\ fact \in [Rows -> Facts \cup {None}]
    /\ status \in [Rows -> Statuses]
    /\ support_count \in [Rows -> Nat]
    /\ gone \subseteq Rows /\ manual \subseteq Rows
    /\ observations \subseteq Rows \X (Sources \cup {"manual"})
    /\ pc \in [Tasks -> {"writing", "reporting", "ended"}]
    /\ attempt \in [Tasks -> 0 .. max_retries]
    /\ candidates \in [Tasks -> Nat] /\ crashes \in Nat /\ edits \in Nat
    /\ open \in [Tasks -> Reads \cup {None}]
    /\ draft \in [Tasks -> SUBSET Rows]
    /\ saved \in [Tasks -> [Rows -> Updates \cup {None}]]
    /\ observed \in [Tasks -> SUBSET (Rows \X Sources)]
    /\ raced \subseteq Facts

\* A fact of a tenant and a term are confirmed, and so shown to agents, only
\* on distinct sources as many as the reconcilers ask for: a task that is
\* retried, delivered again or overtaken never counts a source twice.
ConfirmedIsSupported ==
    \A r \in Extracted :
        status[r] = "confirmed" /\ fact[r][1] \notin Immediate
            => Cardinality(SourcesOf(r)) >= Support

\* The support of a row is the number of its sources.  It is less only where
\* two tasks worked on the fact at the same time, and the update of one is
\* lost (support_count += added).
SupportCountsSources ==
    \A r \in Extracted :
        /\ support_count[r] <= Cardinality(SourcesOf(r))
        /\ fact[r] \notin raced => support_count[r] = Cardinality(SourcesOf(r))

\* A fact has one active row of the tasks, unless two tasks worked on it at
\* the same time: an index forbids a second row for terms of a user's scope
\* only, and the model does not count on it (_find_same).
OneRowPerFact ==
    \A r, q \in Extracted \ gone : r # q /\ fact[r] = fact[q] => fact[r] \in raced

\* What is stored is kept: no retry, lost worker or edit takes back a committed
\* row, that it is gone, its sources or the decision on it, and its support
\* never falls, unless two tasks worked on the fact at the same time.
FactsAreKept ==
    [][\A r \in Stored :
           /\ r \in Stored' /\ fact'[r] = fact[r]
           /\ r \in gone => r \in gone'
           /\ SourcesOf(r) \subseteq SourcesOf(r)'
           /\ status[r] # "pending" => status'[r] # "pending"
           /\ r \in Extracted /\ fact[r] \notin raced' =>
                  support_count[r] <= support_count'[r]]_vars
===============================================================================
