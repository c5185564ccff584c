---------------------------- MODULE MCProcessJob ----------------------------
(* One document with two staged transactions, one of them without a key, and *)
(* two jobs for it: chained, or started after the first failed or was        *)
(* cancelled.                                                                *)
EXTENDS ProcessJob, TLC

CONSTANTS a, b, k, i1

MCTxs == {a, b}
MCIngests == {i1}
MCNatKey == (a :> k) @@ (b :> NoKey)
MCJobIngest == [j \in Jobs |-> i1]
MCTxIngest == [t \in MCTxs |-> i1]

JobSymmetry == Permutations(Jobs)
==============================================================================
