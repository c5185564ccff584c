---------------------------- MODULE MCProcessLive ----------------------------
(* Two documents, each with one job: "i1" goes through the accounting       *)
(* pipeline, "i2" is of a Via B type.  They share one slot.                   *)
EXTENDS ProcessJob, TLC

CONSTANTS a, c, k, j1, j2, i1, i2

MCJobs == {j1, j2}
MCTxs == {a, c}
MCIngests == {i1, i2}
MCViaB == {i2}
MCNatKey == (a :> k) @@ (c :> NoKey)
MCJobIngest == (j1 :> i1) @@ (j2 :> i2)
MCTxIngest == (a :> i1) @@ (c :> i2)
==============================================================================
