-------------------------- MODULE PipelineContract --------------------------
(***************************************************************************)
(* What the rest of the server relies on when it invokes the accounting    *)
(* pipeline: it ends, it persists at most once, at its end, and a forced   *)
(* run never asks for another review.                                      *)
(***************************************************************************)
VARIABLES
    forced,  \* force_persist of the run
    phase,   \* "agents", "persist" (db_persist is entered) or "done"
    outcome  \* "none", then "ok", "error" or "review"

contractVars == <<forced, phase, outcome>>

ContractInit ==
    /\ forced \in BOOLEAN
    /\ phase = "agents"
    /\ outcome = "none"

(* A review is an end that a forced run does not have.                     *)
End(res) ==
    /\ res = "review" => ~forced
    /\ phase' = "done"
    /\ outcome' = res
    /\ UNCHANGED forced

ReachPersist ==
    /\ phase = "agents"
    /\ phase' = "persist"
    /\ UNCHANGED <<forced, outcome>>

StopEarly == phase = "agents" /\ \E res \in {"error", "review"} : End(res)

Persist == phase = "persist" /\ \E res \in {"ok", "error", "review"} : End(res)

ContractNext == ReachPersist \/ StopEarly \/ Persist

ContractSpec ==
    ContractInit /\ [][ContractNext]_contractVars /\ WF_contractVars(ContractNext)
=============================================================================
