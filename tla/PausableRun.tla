----------------------------- MODULE PausableRun -----------------------------
(***************************************************************************)
(* A run that pauses for its user and is taken up again by a later         *)
(* request: how its stored state moves, and who may work on it.  It has    *)
(* one holder at a time, which opens it or finds it paused, works on it    *)
(* alone, may hand it over, and lets go in the step that stores the next   *)
(* pause or the end.  A holder that is lost leaves the state as it is.     *)
(*                                                                         *)
(* The promise is off once the run was disturbed: the implementations      *)
(* record which of their unlocked checks have failed it.                   *)
(***************************************************************************)

CONSTANT Holders    \* requests and tasks that may hold the run

VARIABLES
    state,          \* stored: "none", "working", "paused" or "over"
    holders,        \* who works on the run, or has decided to
    disturbed       \* the promise is off

Init == state = "none" /\ holders = {} /\ disturbed = FALSE

Open(h) ==
    /\ state = "none" /\ state' = "working"
    /\ holders = {} /\ holders' = {h}

\* The holder has read the pause, and nobody else has.
Claim(h) ==
    /\ state = "paused" /\ UNCHANGED state
    /\ holders = {} /\ holders' = {h}

Resume(h) ==
    /\ state = "paused" /\ state' = "working"
    /\ holders = {h} /\ UNCHANGED holders

HandOver(h, g) ==
    /\ state = "working" /\ UNCHANGED state
    /\ holders = {h} /\ holders' = {g}

\* The holder stores a pause or the end; what is paused can only be dropped.
Settle(h) ==
    /\ \/ state = "working" /\ state' \in {"paused", "over"}
       \/ state = "paused" /\ state' = "over"
    /\ holders = {h} /\ holders' = {}

Lose(h) == holders = {h} /\ holders' = {} /\ UNCHANGED state

Quiet ==
    \E h \in Holders :
        \/ Open(h) \/ Claim(h) \/ Resume(h) \/ Settle(h) \/ Lose(h)
        \/ \E g \in Holders : HandOver(h, g)

Next == disturbed' = TRUE \/ (disturbed' = disturbed /\ Quiet)

Step == [Next]_<<state, holders, disturbed>>

Spec == Init /\ [][Next]_<<state, holders, disturbed>>
===============================================================================
