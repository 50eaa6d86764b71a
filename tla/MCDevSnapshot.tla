--------------------------- MODULE MCDevSnapshot ---------------------------
(***************************************************************************)
(* Small instance of DevSnapshot for TLC.                                  *)
(***************************************************************************)
EXTENDS DevSnapshot, TLC

CONSTANTS j1, j2, j3, j4

ASSUME InstanceAssumption == OneClient

\* No two recompute jobs are compared with each other.
MCKey == j1 :> "a" @@ j2 :> "b" @@ j3 :> "c" @@ j4 :> "d"

\* Workers are interchangeable.
MCSymmetry == Permutations(Workers)
============================================================================
