----------------------------- MODULE MCDtCache -----------------------------
(***************************************************************************)
(* Small instances of DtCache for TLC.                                     *)
(***************************************************************************)
EXTENDS DtCache, TLC

\* Entries, keys and threads are interchangeable: every thread may demote.
MCSymmetry == Permutations(Entries) \cup Permutations(Threads) \cup Permutations(Keys)
============================================================================
