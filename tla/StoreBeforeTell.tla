--------------------------- MODULE StoreBeforeTell ---------------------------
(***************************************************************************)
(* What a streaming endpoint promises its client: a message or a pause     *)
(* that the client is told of has been stored, by a committed transaction, *)
(* in an earlier step.  The client comes back with what it was told in a   *)
(* new request, which only sees what is stored.                            *)
(***************************************************************************)

VARIABLES
    stored,     \* what transactions have committed so far
    told        \* what events have named to a client so far

Init == stored = {} /\ told = {}

\* A transaction commits.
Store == stored \subseteq stored' /\ told' = told

\* An event names things that are stored already.
Tell == told \subseteq told' /\ told' \subseteq stored /\ stored' = stored

Next == Store \/ Tell

Spec == Init /\ [][Next]_<<stored, told>>
===============================================================================
