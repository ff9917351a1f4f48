----------------------------- MODULE MCStorage ------------------------------
(* Params and Updated: what a loss of power may do to parameters and to the   *)
(* software. The two share no state here, so each behaviour is one of the     *)
(* two. Release 1 is installed; 2 and 3 need another operating system.        *)
EXTENDS Params, Updated

VARIABLE part

MCOs(v) == IF v = 1 THEN 1 ELSE 2

MCInit ==
  /\ ParamsInit /\ UpdatedInit
  /\ \/ part = "params" /\ slot = Partial
     \/ part = "updated" /\ dir = [k \in Keys |-> Missing]

MCNext ==
  \/ part = "params" /\ ParamsNext /\ UNCHANGED <<updatedVars, part>>
  \/ part = "updated" /\ UpdatedNext /\ UNCHANGED <<paramsVars, part>>

MCSpec ==
  /\ MCInit /\ [][MCNext]_<<paramsVars, updatedVars, part>>
  /\ (part = "updated" => UpdatedFairness)
=============================================================================
