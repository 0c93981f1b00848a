---------------------------- MODULE MCPlanStore ----------------------------
(* PlanStore with its unbounded counters capped for TLC. *)
EXTENDS PlanStore

CONSTANTS
    MaxRevision,  \* patches applied to the plan
    MaxClaims     \* claims of one task

ASSUME BoundsAssumption == MaxRevision \in Nat /\ MaxClaims \in Nat

MCNext ==
    \/ revision < MaxRevision /\ Patching
    \/ mark_failed
    \/ Working /\ \A t \in Tasks : attempts'[t] <= MaxClaims
    \/ Resuming

MCSpec == Init /\ [][MCNext]_storeVars
=============================================================================
