---------------------------- MODULE MCPersistNode ----------------------------
(* Two jobs over three staged transactions: "a" and "b" are one document     *)
(* uploaded twice, "c" has no date and so no natural key.                    *)
EXTENDS PersistNode, TLC

CONSTANTS a, b, c, k

MCTxs == {a, b, c}
MCNatKey == (a :> k) @@ (b :> k) @@ (c :> NoKey)

JobSymmetry == Permutations(Jobs)
==============================================================================
