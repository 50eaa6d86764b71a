--------------------------- MODULE MCPixelpipeRun ---------------------------
(***************************************************************************)
(* PixelpipeRun for TLC: a pipe of two modules and two edit histories that *)
(* differ from the first module on.                                        *)
(***************************************************************************)
EXTENDS PixelpipeRun, TLC

\* Addresses are interchangeable.
MCSymmetry == Permutations(Entries)

MCHistories == {<<1, 1>>, <<2, 1>>}
=============================================================================
