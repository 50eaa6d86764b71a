------------------------- MODULE MCPixelcacheMemory -------------------------
(***************************************************************************)
(* Small instances of PixelcacheMemory for TLC.                            *)
(***************************************************************************)
EXTENDS PixelcacheMemory, TLC

\* Pipeline threads are interchangeable.
MCSymmetry == Permutations(Threads)
=============================================================================
