--------------------------- MODULE MCControlJobs ---------------------------
(***************************************************************************)
(* Small instances of ControlJobs for TLC.                                 *)
(***************************************************************************)
EXTENDS ControlJobs, TLC

CONSTANTS j1, j2, j3

\* j1 and j2 ask for the same work, j3 for another.
MCKey == j1 :> "a" @@ j2 :> "a" @@ j3 :> "b"

\* Workers are interchangeable.
MCSymmetry == Permutations(Workers)
============================================================================
