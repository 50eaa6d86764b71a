---------------------------- MODULE MemoryArena ----------------------------
(***************************************************************************)
(* system/memory_arena.c: a reserved range of pages and the sorted list of *)
(* its free runs.  The list is changed under arena->lock, one atomic step  *)
(* each; the calls that give memory to the system or take it back          *)
(* (madvise, VirtualAlloc) fall outside the lock, and are steps of their   *)
(* own.  PixelcacheMemory has the callers.                                 *)
(***************************************************************************)
EXTENDS Integers, Sequences, FiniteSets

CONSTANTS
    PageSize,   \* a->page_size, in units of the caller's sizes
    TotalSize,  \* the size the arena is created with
    SizeMax,    \* SIZE_MAX
    Builds      \* the platforms to check: "posix" has madvise, "windows" commits on demand

ASSUME ArenaAssumption ==
    /\ PageSize \in Nat \ {0}
    /\ TotalSize \in Nat \ 0 .. PageSize - 1
    /\ SizeMax \in Nat \ 0 .. TotalSize
    /\ Builds \subseteq {"posix", "windows"}

VARIABLES
    free_runs,  \* a->free_runs: the free runs [start, length]
    lazy,       \* pages under MADV_FREE that still hold something: the kernel may take them
    committed,  \* pages known to be backed by the system: all of them on "posix"; on "windows"
                \* those committed for their owner, as a page that is free may lose its backing
    dirty,      \* pages that hold what their present owner wrote
    build       \* the platform of this behaviour

arenaVars == <<free_runs, lazy, committed, dirty, build>>

num_pages == TotalSize \div PageSize

Pages == 0 .. num_pages - 1

PagesOf(b) == b.first .. b.first + b.pages - 1

RunPages(r) == r.start .. r.start + r.length - 1

FreePages == UNION {RunPages(free_runs[i]) : i \in DOMAIN free_runs}

\* The pages that a size takes, or none when the arena can never hold it.
calc(size) ==
    IF size \in 1 .. SizeMax - (PageSize - 1) /\ (size + PageSize - 1) \div PageSize <= num_pages
    THEN {(size + PageSize - 1) \div PageSize}
    ELSE {}

ArenaInit ==
    /\ free_runs = <<[start |-> 0, length |-> num_pages]>>
    /\ build \in Builds
    /\ lazy = {}
    /\ committed = IF build = "windows" THEN {} ELSE Pages
    /\ dirty = {}

-----------------------------------------------------------------------------
RemoveRun(runs, i) == SubSeq(runs, 1, i - 1) \o SubSeq(runs, i + 1, Len(runs))

Fits(pages) == {i \in DOMAIN free_runs : free_runs[i].length >= pages}

\* The shortest run that fits, the first of equals.
BestFit(pages) ==
    CHOOSE i \in Fits(pages) : \A j \in Fits(pages) :
        \/ free_runs[i].length < free_runs[j].length
        \/ free_runs[i].length = free_runs[j].length /\ i <= j

\* The pages are consumed from the front of the run, so that the list stays sorted.
Carve(pages) ==
    LET i == BestFit(pages)
        r == free_runs[i]
    IN  free_runs' = IF r.length = pages
                     THEN RemoveRun(free_runs, i)
                     ELSE [free_runs EXCEPT ![i] = [start  |-> r.start + pages,
                                                    length |-> r.length - pages]]

\* The runs that start before a block; its place in the list is right after them.
Before(b) == Cardinality({i \in DOMAIN free_runs : free_runs[i].start < b.first})

\* The block overlaps a free run beside its place: dt_cache_arena_free refuses it.
Overlaps(b) ==
    LET i == Before(b)
    IN  \/ i > 0 /\ free_runs[i].start + free_runs[i].length > b.first
        \/ i < Len(free_runs) /\ b.first + b.pages > free_runs[i + 1].start

\* Mutant: the run is not merged with the one before it.
InsertedForward(b) ==
    LET i    == Before(b)
        meet == i < Len(free_runs) /\ free_runs[i + 1].start = b.first + b.pages
    IN  SubSeq(free_runs, 1, i)
          \o <<[start |-> b.first, length |-> b.pages + IF meet THEN free_runs[i + 1].length ELSE 0]>>
          \o SubSeq(free_runs, IF meet THEN i + 2 ELSE i + 1, Len(free_runs))

\* The list with the block in its place, merged with the next and with the previous run.
Inserted(b) ==
    LET i     == Before(b)
        after == i < Len(free_runs) /\ free_runs[i + 1].start = b.first + b.pages
        prior == i > 0 /\ free_runs[i].start + free_runs[i].length = b.first
        start == IF prior THEN free_runs[i].start ELSE b.first
        end   == b.first + b.pages + IF after THEN free_runs[i + 1].length ELSE 0
    IN  SubSeq(free_runs, 1, IF prior THEN i - 1 ELSE i)
          \o <<[start |-> start, length |-> end - start]>>
          \o SubSeq(free_runs, IF after THEN i + 2 ELSE i + 1, Len(free_runs))

\* MADV_FREE, where there is one.
Advise(b) ==
    /\ lazy' = IF build = "posix" THEN lazy \cup (PagesOf(b) \cap dirty) ELSE lazy
    /\ UNCHANGED <<free_runs, committed, dirty, build>>

\* The list is changed under the lock.  An overlapping block is refused, with a message.
Publish(b) ==
    /\ free_runs' = IF Overlaps(b) THEN free_runs ELSE Inserted(b)
    /\ dirty' = dirty \ PagesOf(b)
    /\ lazy' = lazy \ PagesOf(b)
    /\ committed' = IF build = "windows" THEN committed \ PagesOf(b) ELSE committed
    /\ UNCHANGED build

\* Mutant: the pages are published first and handed to the system afterwards.
FreeStepSwapped(b, step) == IF step = "advise" THEN Publish(b) ELSE Advise(b)

\* dt_cache_arena_free in two steps: the pages are handed to the system while they still
\* are the caller's alone, and published afterwards.
FreeStep(b, step) == IF step = "advise" THEN Advise(b) ELSE Publish(b)

\* dt_cache_arena_stats.
LargestRun ==
    IF free_runs = <<>> THEN 0
    ELSE CHOOSE n \in {free_runs[i].length : i \in DOMAIN free_runs} :
             \A i \in DOMAIN free_runs : free_runs[i].length <= n

\* Mutant: the walk takes one page beyond each run.
TrimBeyond ==
    LET gone == FreePages \cup {free_runs[i].start + free_runs[i].length : i \in DOMAIN free_runs}
    IN  /\ dirty' = dirty \ gone
        /\ lazy' = lazy \ gone
        /\ committed' = IF build = "windows" THEN committed \ gone ELSE committed
        /\ UNCHANGED <<free_runs, build>>

\* dt_cache_arena_trim: the pages of every free run go back to the system at once.
Trim ==
    /\ dirty' = dirty \ FreePages
    /\ lazy' = lazy \ FreePages
    /\ committed' = IF build = "windows" THEN committed \ FreePages ELSE committed
    /\ UNCHANGED <<free_runs, build>>

\* VirtualAlloc(MEM_COMMIT) of a block that was carved out.
Commit(b) ==
    /\ committed' = committed \cup PagesOf(b)
    /\ UNCHANGED <<free_runs, lazy, dirty, build>>

\* The owner of a block writes it.  Writing takes a page out of the kernel's hands.
Write(b) ==
    /\ dirty' = dirty \cup PagesOf(b)
    /\ lazy' = lazy \ PagesOf(b)
    /\ UNCHANGED <<free_runs, committed, build>>

\* The kernel takes a page under MADV_FREE, whoever owns it by now.
Reclaim ==
    \E p \in lazy :
        /\ lazy' = lazy \ {p}
        /\ dirty' = dirty \ {p}
        /\ UNCHANGED <<free_runs, committed, build>>

============================================================================
