--------------------------- MODULE MCMipmapThumbs ---------------------------
(***************************************************************************)
(* Small instances of MipmapThumbs for TLC.                                *)
(***************************************************************************)
EXTENDS MipmapThumbs, TLC

\* Entries are interchangeable, and so are the threads that request thumbnails.
MCSymmetry == Permutations(Entries) \cup Permutations(Demoters)
============================================================================
