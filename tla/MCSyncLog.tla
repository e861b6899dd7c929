------------------------------ MODULE MCSyncLog ------------------------------
(***************************************************************************)
(* Instances of SyncLog for TLC: a client of one scope, a client of two.   *)
(***************************************************************************)
EXTENDS SyncLog, TLC

CONSTANTS a, b, c1

OneClient == c1 :> {a}

BothScopes == c1 :> {a, b}

RowSymmetry == Permutations(Row)
=============================================================================
