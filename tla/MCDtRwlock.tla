----------------------------- MODULE MCDtRwlock -----------------------------
(***************************************************************************)
(* Small instances of DtRwlock for TLC.                                    *)
(***************************************************************************)
EXTENDS DtRwlock, TLC

\* Threads that play the same part are interchangeable.
MCSymmetry == Permutations(Writers) \cup Permutations(Threads \ Writers)
============================================================================
