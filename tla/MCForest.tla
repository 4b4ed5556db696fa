------------------------------ MODULE MCForest ------------------------------
(***************************************************************************)
(* Model-checking instance of Forest: leaf hashes are model values.       *)
(***************************************************************************)
EXTENDS Forest

CONSTANTS v1, v2, v3, v4, v5, v6

MCVals == {v1, v2, v3, v4, v5, v6}
=============================================================================
