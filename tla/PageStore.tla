----------------------------- MODULE PageStore -----------------------------
(***************************************************************************)
(* What the arena of system/memory_arena.c promises the pixel cache: pages *)
(* are either free or belong to exactly one block of consecutive pages.    *)
(* Where a block is placed, and how the free pages are listed, is open.    *)
(***************************************************************************)
EXTENDS Naturals

CONSTANT NumPages

VARIABLES
    free,      \* the free pages
    blocks     \* the blocks handed out: [first, pages]

Pages == 0 .. NumPages - 1

PagesOf(b) == b.first .. b.first + b.pages - 1

Init ==
    /\ free = Pages
    /\ blocks = {}

\* A block is made of free pages only, and takes all of them from the free ones.
Take ==
    \E first \in Pages : \E pages \in 1 .. NumPages - first :
        LET b == [first |-> first, pages |-> pages]
        IN  /\ PagesOf(b) \subseteq free
            /\ free' = free \ PagesOf(b)
            /\ blocks' = blocks \cup {b}

\* A block that is given back frees its own pages, and no others.
Give ==
    \E b \in blocks :
        /\ free' = free \cup PagesOf(b)
        /\ blocks' = blocks \ {b}

Next == Take \/ Give

Spec == Init /\ [][Next]_<<free, blocks>>
-----------------------------------------------------------------------------
\* Every page is free or in one block, and in no two.
Partition ==
    /\ free = Pages \ UNION {PagesOf(b) : b \in blocks}
    /\ \A a, b \in blocks : a = b \/ PagesOf(a) \cap PagesOf(b) = {}
============================================================================
