-------------------------- MODULE PixelcacheMemory --------------------------
(***************************************************************************)
(* The memory side of caches/pixelpipe_cache.c on top of the arena: the    *)
(* budget, the pressure valve, eviction of the oldest unused line, the     *)
(* defragmenting allocation, temporary buffers, and the two timers of the  *)
(* GUI thread.  Every critical section of cache->lock keeps the lock over  *)
(* several steps; what happens between two of them interleaves.  Leases    *)
(* and locks of single lines are in PixelpipeCache.                        *)
(***************************************************************************)
EXTENDS MemoryArena, FiniteSetsExt

CONSTANTS
    Threads,       \* pipeline threads: they write lines and use temporary buffers
    Gui,           \* the thread of the timers, or none
    LineSizes,     \* bound: the sizes of lines
    TempSizes,     \* bound: the sizes of temporary buffers
    Floor,         \* dt_get_memory_pressure_floor
    ExemptSize,    \* DT_PIXELPIPE_CACHE_PRESSURE_EXEMPT_SIZE
    Probes,        \* bound: what dt_get_system_available_mem may answer; 0: unknown
    NULL

ASSUME MemoryAssumption ==
    /\ LineSizes \cup TempSizes \cup Probes \subseteq Nat
    /\ Floor \in Nat \ {0} /\ ExemptSize \in Nat
    /\ IsFiniteSet(Threads)
    /\ NULL \notin Threads /\ Gui \notin Threads
    /\ NULL \notin [first : Nat, pages : Nat]

VARIABLES
    lines,           \* cache->entries from the oldest on: [size, buf, user]
    current_memory,  \* cache->current_memory
    lock,            \* the thread in a critical section of cache->lock
    sys,             \* [est, probed, granted]: cache->sys_available_est; history: the last
                     \* probe, 0 while cache->sys_probe_valid is unset, and the large
                     \* requests let through since
    pc,              \* where each thread is
    ctx              \* its call: [kind, req, blk, victim, back, want, freed, retry]

lineVars == <<lines, current_memory>>
threadVars == <<pc, ctx>>
vars == <<arenaVars, lineVars, lock, sys, threadVars>>

Everyone == Threads \cup ({Gui} \ {NULL})

max_memory == TotalSize

Idle == [kind |-> "none", req |-> 0, blk |-> NULL, victim |-> NULL,
         back |-> "idle", want |-> 0, freed |-> 0, retry |-> FALSE]

\* The state of the valve after a probe of the system's available memory.
Probed(answer) == [est |-> answer, probed |-> answer, granted |-> 0]

Init ==
    /\ ArenaInit
    /\ lines = <<>>
    /\ current_memory = 0
    /\ lock = NULL
    /\ sys = Probed(0)
    /\ pc = [t \in Everyone |-> "idle"]
    /\ ctx = [t \in Everyone |-> Idle]

-----------------------------------------------------------------------------
Goto(t, label) == pc' = [pc EXCEPT ![t] = label]

Call(t, c, label) ==
    /\ ctx' = [ctx EXCEPT ![t] = c]
    /\ Goto(t, label)

Return(t) == Call(t, Idle, "idle")

\* The thread is, or can get, in its critical section of cache->lock.
InLock(t, label) == pc[t] = label /\ lock \in {NULL, t}

Rounded(size) == PageSize * (CHOOSE n \in calc(size) : TRUE)

BlockSize(b) == PageSize * b.pages

\* The call with the counters of an eviction loop put away.
AfterShed(t) == [ctx[t] EXCEPT !.want = 0, !.freed = 0]

\* The allocation of the caller fails: a temporary buffer is NULL, a line is taken out of
\* the table by the error path of its writer.
Fail(t) ==
    IF ctx[t].kind = "line" THEN Call(t, AfterShed(t), "undo") ELSE Return(t)

-----------------------------------------------------------------------------
\* The lines nobody uses: not locked, no reference.
Evictable == {i \in DOMAIN lines : lines[i].user = NULL}

\* Mutant: the memory of an evicted line stays on the account.
EvictUncounted(t, i, back) ==
    /\ lines' = SubSeq(lines, 1, i - 1) \o SubSeq(lines, i + 1, Len(lines))
    /\ UNCHANGED current_memory
    /\ lock' = t
    /\ Call(t, [ctx[t] EXCEPT !.victim = lines[i].buf, !.back = back,
                              !.freed = IF back = "shed" THEN @ + lines[i].size ELSE @], "advise")
    /\ UNCHANGED <<arenaVars, sys>>

\* _free_cache_entry of line i, under cache->lock: its pages go back to the arena.
Evict(t, i, back) ==
    /\ lines' = SubSeq(lines, 1, i - 1) \o SubSeq(lines, i + 1, Len(lines))
    /\ current_memory' = current_memory - lines[i].size
    /\ lock' = t
    /\ Call(t, [ctx[t] EXCEPT !.victim = lines[i].buf, !.back = back,
                              !.freed = IF back = "shed" THEN @ + lines[i].size ELSE @], "advise")
    /\ UNCHANGED <<arenaVars, sys>>

\* _non_thread_safe_pixel_pipe_cache_remove_lru: the oldest of them.
RemoveLru(t, back) ==
    \E i \in Evictable :
        /\ \A j \in Evictable : i <= j
        /\ Evict(t, i, back)

\* dt_cache_arena_free of the block that the thread gives back.
AdvisePages(t) ==
    /\ pc[t] = "advise"
    /\ FreeStep(ctx[t].victim, "advise")
    /\ Goto(t, "publish")
    /\ UNCHANGED <<lineVars, lock, sys, ctx>>

PublishPages(t) ==
    /\ pc[t] = "publish"
    /\ FreeStep(ctx[t].victim, "publish")
    /\ Call(t, [ctx[t] EXCEPT !.victim = NULL, !.back = "idle"], ctx[t].back)
    /\ UNCHANGED <<lineVars, lock, sys>>

-----------------------------------------------------------------------------
\* dt_pixelpipe_cache_alloc_align_cache_impl.
AllocAlign(t, size) ==
    /\ pc[t] = "idle"
    /\ Call(t, [Idle EXCEPT !.kind = "temp", !.req = size], "space")
    /\ UNCHANGED <<arenaVars, lineVars, lock, sys>>

\* _pixelpipe_cache_create_entry_locked, for a size the arena can hold.
CreateEntry(t, size) ==
    /\ pc[t] = "idle" /\ calc(size) # {}
    /\ Call(t, [Idle EXCEPT !.kind = "line", !.req = Rounded(size)], "space")
    /\ UNCHANGED <<arenaVars, lineVars, lock, sys>>

\* Mutant: the request itself is left out of the sum.
OverBudgetAlready(size) == current_memory > max_memory /\ lines # <<>>

\* The test of the eviction loop of _free_space_to_alloc.
OverBudget(size) == current_memory + size > max_memory /\ lines # <<>>

MakeSpace(t) ==
    /\ InLock(t, "space") /\ OverBudget(ctx[t].req)
    /\ RemoveLru(t, "space")

\* All entries are locked or in use: no entry is made.
NoSpace(t) ==
    /\ InLock(t, "space") /\ OverBudget(ctx[t].req) /\ Evictable = {}
    /\ lock' = NULL
    /\ Return(t)
    /\ UNCHANGED <<arenaVars, lineVars, sys>>

\* The entry of a line is inserted in the same critical section, and its memory counted
\* before there is any; a temporary buffer is allocated first.
SpaceMade(t) ==
    /\ InLock(t, "space") /\ ~OverBudget(ctx[t].req)
    /\ lock' = NULL
    /\ IF ctx[t].kind = "line"
       THEN /\ lines' = Append(lines, [size |-> ctx[t].req, buf |-> NULL, user |-> t])
            /\ current_memory' = current_memory + ctx[t].req
       ELSE UNCHANGED lineVars
    /\ Goto(t, "valve")
    /\ UNCHANGED <<arenaVars, sys, ctx>>

-----------------------------------------------------------------------------
\* A request is let through when it is negligible, when the platform does not answer, or
\* when it leaves the floor to the system.
Allowed(size, s) == size <= ExemptSize \/ s.probed = 0 \/ s.est >= size + Floor

\* Mutant: requests that are let through are not taken off the estimate.
DebitedNothing(size, s) ==
    [s EXCEPT !.granted = IF size <= ExemptSize \/ s.probed = 0 THEN @ ELSE @ + size]

\* What is let through is taken off the estimate until the next probe.
Debited(size, s) ==
    [s EXCEPT !.est = IF @ > size THEN @ - size ELSE 0,
              !.granted = IF size <= ExemptSize \/ s.probed = 0 THEN @ ELSE @ + size]

\* The verdict of the valve, which ends its critical section.
Decide(t, s) ==
    /\ lock' = NULL
    /\ IF Allowed(ctx[t].req, s)
       THEN sys' = Debited(ctx[t].req, s) /\ Call(t, AfterShed(t), "carve")
       ELSE sys' = s /\ Fail(t)

\* _system_memory_pressure_valve up to the eviction loop.  The probe is taken again when the
\* last one is old enough; without an answer nothing is refused.
Valve(t) ==
    /\ InLock(t, "valve")
    /\ \E s \in {Probed(answer) : answer \in Probes} \cup {sys : p \in {sys.probed} \ {0}} :
           IF s.probed > 0 /\ s.est < ctx[t].req + Floor
           THEN /\ Call(t, [ctx[t] EXCEPT !.want = ctx[t].req + Floor - s.est], "shed")
                /\ sys' = s
                /\ lock' = t
           ELSE Decide(t, s)
    /\ UNCHANGED <<arenaVars, lineVars>>

\* The loop of the valve, and of the timer _memory_pressure_shedder.
Shed(t) ==
    /\ InLock(t, "shed") /\ ctx[t].freed < ctx[t].want
    /\ RemoveLru(t, "shed")

\* Enough was shed, or nothing is left to shed.
ShedDone(t) == ctx[t].freed >= ctx[t].want \/ Evictable = {}

\* What the valve shed is handed to the system for real, and the system asked again.
ShedTrim(t) ==
    /\ InLock(t, "shed") /\ ShedDone(t) /\ ctx[t].kind # "timer"
    /\ ctx[t].freed > 0
    /\ Trim
    /\ \E answer \in Probes : Decide(t, Probed(answer))
    /\ UNCHANGED lineVars

ShedNothing(t) ==
    /\ InLock(t, "shed") /\ ShedDone(t) /\ ctx[t].kind # "timer"
    /\ ctx[t].freed = 0
    /\ Decide(t, sys)
    /\ UNCHANGED <<arenaVars, lineVars>>

-----------------------------------------------------------------------------
\* Where an allocation returns to.
Got(t) == IF ctx[t].kind = "temp" THEN "enter" ELSE "got"

\* dt_cache_arena_alloc, called by _arena_alloc_with_defrag before and after defragmenting.
ArenaAlloc(t) ==
    /\ pc[t] = "carve"
    /\ \E n \in calc(ctx[t].req) :
           /\ Fits(n) # {}
           /\ Carve(n)
           /\ Call(t, [ctx[t] EXCEPT !.blk = [first |-> free_runs[BestFit(n)].start, pages |-> n]],
                   IF build = "windows" THEN "commit" ELSE Got(t))
    /\ UNCHANGED <<lazy, committed, dirty, build, lineVars, lock, sys>>

\* NULL: defragment and try again, once.
AllocFailed(t) ==
    IF ctx[t].retry \/ calc(ctx[t].req) = {}
    THEN Fail(t)
    ELSE Call(t, [ctx[t] EXCEPT !.retry = TRUE], "defrag")

ArenaFull(t) ==
    /\ pc[t] = "carve"
    /\ \A n \in calc(ctx[t].req) : Fits(n) = {}
    /\ AllocFailed(t)
    /\ UNCHANGED <<arenaVars, lineVars, lock, sys>>

CommitBlock(t) ==
    /\ pc[t] = "commit"
    /\ Commit(ctx[t].blk)
    /\ Goto(t, Got(t))
    /\ UNCHANGED <<lineVars, lock, sys, ctx>>

\* The pages are handed back before the allocation fails.
CommitFails(t) ==
    /\ pc[t] = "commit"
    /\ Call(t, [ctx[t] EXCEPT !.blk = NULL, !.victim = ctx[t].blk, !.back = "failed"], "advise")
    /\ UNCHANGED <<arenaVars, lineVars, lock, sys>>

CommitFailed(t) ==
    /\ pc[t] = "failed"
    /\ AllocFailed(t)
    /\ UNCHANGED <<arenaVars, lineVars, lock, sys>>

Defrag(t) ==
    /\ InLock(t, "defrag")
    /\ \A n \in calc(ctx[t].req) : LargestRun < n
    /\ RemoveLru(t, "defrag")

DefragDone(t) ==
    /\ InLock(t, "defrag")
    /\ Evictable = {} \/ \A n \in calc(ctx[t].req) : LargestRun >= n
    /\ lock' = NULL
    /\ Goto(t, "carve")
    /\ UNCHANGED <<arenaVars, lineVars, sys, ctx>>

-----------------------------------------------------------------------------
\* dt_pixel_cache_alloc: the line gets its buffer.
LineGot(t) ==
    /\ pc[t] = "got"
    /\ lines' = [i \in DOMAIN lines |->
                     IF lines[i].user = t THEN [lines[i] EXCEPT !.buf = ctx[t].blk] ELSE lines[i]]
    /\ Call(t, [ctx[t] EXCEPT !.blk = NULL], "fill")
    /\ UNCHANGED <<arenaVars, current_memory, lock, sys>>

\* The writer fills the line and gives it up, its lock and its reference.
FillLine(t) ==
    /\ pc[t] = "fill"
    /\ \E i \in DOMAIN lines :
           /\ lines[i].user = t
           /\ Write(lines[i].buf)
           /\ lines' = [lines EXCEPT ![i].user = NULL]
    /\ Return(t)
    /\ UNCHANGED <<current_memory, lock, sys>>

\* The writer failed: the line without a buffer leaves the table.
UndoLine(t) ==
    /\ InLock(t, "undo")
    /\ \E i \in DOMAIN lines :
           /\ lines[i].user = t
           /\ lines' = SubSeq(lines, 1, i - 1) \o SubSeq(lines, i + 1, Len(lines))
           /\ current_memory' = current_memory - lines[i].size
    /\ Return(t)
    /\ UNCHANGED <<arenaVars, lock, sys>>

\* A temporary buffer is entered in the table of external entries: space is made again.
EnterMakeSpace(t) ==
    /\ InLock(t, "enter") /\ OverBudget(BlockSize(ctx[t].blk))
    /\ RemoveLru(t, "enter")

\* No entry: the buffer goes back to the arena, outside the lock.
EnterFails(t) ==
    /\ InLock(t, "enter") /\ OverBudget(BlockSize(ctx[t].blk)) /\ Evictable = {}
    /\ lock' = NULL
    /\ Call(t, [Idle EXCEPT !.victim = ctx[t].blk, !.back = "idle"], "advise")
    /\ UNCHANGED <<arenaVars, lineVars, sys>>

Enter(t) ==
    /\ InLock(t, "enter") /\ ~OverBudget(BlockSize(ctx[t].blk))
    /\ current_memory' = current_memory + BlockSize(ctx[t].blk)
    /\ lock' = NULL
    /\ Goto(t, "hold")
    /\ UNCHANGED <<arenaVars, lines, sys, ctx>>

UseTemp(t) ==
    /\ pc[t] = "hold"
    /\ Write(ctx[t].blk)
    /\ Goto(t, "used")
    /\ UNCHANGED <<lineVars, lock, sys, ctx>>

\* dt_pixelpipe_cache_free_align_cache.
FreeAlign(t) ==
    /\ InLock(t, "used")
    /\ lock' = t
    /\ current_memory' = current_memory - BlockSize(ctx[t].blk)
    /\ Call(t, [Idle EXCEPT !.victim = ctx[t].blk, !.back = "unlock"], "advise")
    /\ UNCHANGED <<arenaVars, lines, sys>>

Unlock(t) ==
    /\ pc[t] = "unlock"
    /\ lock' = NULL
    /\ Return(t)
    /\ UNCHANGED <<arenaVars, lineVars, sys>>

-----------------------------------------------------------------------------
\* _memory_pressure_shedder, when the system has less than the floor left; it gives up
\* when the cache is locked.
Shedder(t) ==
    /\ pc[t] = "idle" /\ lock = NULL
    /\ \E available \in Probes \ {0} :
           /\ available < Floor
           /\ Call(t, [Idle EXCEPT !.kind = "timer", !.want = Floor - available], "shed")
    /\ lock' = t
    /\ UNCHANGED <<arenaVars, lineVars, sys>>

ShedderDone(t) ==
    /\ InLock(t, "shed") /\ ShedDone(t) /\ ctx[t].kind = "timer"
    /\ Trim
    /\ \E answer \in Probes : sys' = Probed(answer)
    /\ lock' = NULL
    /\ Return(t)
    /\ UNCHANGED lineVars

\* dt_dev_pixelpipe_cache_flush_old; it gives up when the cache is locked.
FlushOld(t) ==
    /\ pc[t] = "idle" /\ lock = NULL
    /\ lock' = t
    /\ Call(t, [Idle EXCEPT !.kind = "timer"], "sweep")
    /\ UNCHANGED <<arenaVars, lineVars, sys>>

\* Any unused line that is old enough goes; the newest never is.
Sweep(t) ==
    /\ InLock(t, "sweep")
    /\ \E i \in Evictable : i # Len(lines) /\ Evict(t, i, "sweep")

\* The sweep ends, and the free pages may be trimmed after the unlock.
SweepDone(t) ==
    /\ InLock(t, "sweep")
    /\ lock' = NULL
    /\ \E label \in {"idle", "trim"} : Call(t, Idle, label)
    /\ UNCHANGED <<arenaVars, lineVars, sys>>

TrimAlone(t) ==
    /\ pc[t] = "trim"
    /\ Trim
    /\ Return(t)
    /\ UNCHANGED <<lineVars, lock, sys>>

-----------------------------------------------------------------------------
AllocStep(t) ==
    \/ ArenaAlloc(t) \/ ArenaFull(t) \/ CommitBlock(t) \/ CommitFails(t) \/ CommitFailed(t)
    \/ Defrag(t) \/ DefragDone(t)

PipeStep(t) ==
    \/ \E size \in TempSizes : AllocAlign(t, size)
    \/ \E size \in LineSizes : CreateEntry(t, size)
    \/ MakeSpace(t) \/ NoSpace(t) \/ SpaceMade(t)
    \/ Valve(t) \/ ShedTrim(t) \/ ShedNothing(t) \/ AllocStep(t)
    \/ LineGot(t) \/ FillLine(t) \/ UndoLine(t)
    \/ EnterMakeSpace(t) \/ EnterFails(t) \/ Enter(t)
    \/ UseTemp(t) \/ FreeAlign(t) \/ Unlock(t)

TimerStep(t) ==
    Shedder(t) \/ ShedderDone(t) \/ FlushOld(t) \/ Sweep(t) \/ SweepDone(t) \/ TrimAlone(t)

AnyStep(t) == Shed(t) \/ AdvisePages(t) \/ PublishPages(t)

Next ==
    \/ \E t \in Threads : PipeStep(t)
    \/ \E t \in Everyone : AnyStep(t)
    \/ Gui # NULL /\ TimerStep(Gui)
    \/ Reclaim /\ UNCHANGED <<lineVars, lock, sys, threadVars>>

Spec == Init /\ [][Next]_vars

-----------------------------------------------------------------------------
\* The blocks of temporary buffers, of lines, and those on their way to or from the arena.
Blocks ==
    (UNION {{ctx[t].blk : t \in Everyone}, {ctx[t].victim : t \in Everyone},
            {lines[i].buf : i \in DOMAIN lines}}) \ {NULL}

\* The blocks whose pixels somebody relies on.
WrittenBlocks ==
    {ctx[t].blk : t \in {u \in Threads : pc[u] = "used"}}
        \cup {lines[i].buf : i \in Evictable}

\* Type correctness.
MemoryTypeOK ==
    /\ free_runs \in Seq([start : Pages, length : 1 .. num_pages])
    /\ UNION {lazy, committed, dirty} \subseteq Pages
    /\ current_memory \in Nat
    /\ sys \in [est : Nat, probed : Probes \cup {0}, granted : Nat]
    /\ lock \in Everyone \cup {NULL}
    /\ \A i \in DOMAIN lines : lines[i].user \in Threads \cup {NULL} /\ lines[i].size \in Nat

\* The arena hands out blocks of free pages and takes each back whole, whoever frees what
\* meanwhile: the abstract store.  A page is never lost or handed out twice (EveryPageHasOneOwner),
\* and the overlap test of dt_cache_arena_free never has to refuse, and so leak, a block.
Store == INSTANCE PageStore WITH NumPages <- num_pages, free <- FreePages, blocks <- Blocks

ImplementsPageStore == Store!Spec

\* The arena refuses a request only if no hole is large enough: the free runs are non-empty,
\* in order, and never touch.
HolesWhole ==
    \A n \in 1 .. num_pages :
        Fits(n) = {} => \A p \in Pages : ~ (p .. p + n - 1 \subseteq FreePages)

\* Pixels that were written stay until their owner gives the pages up, whatever the kernel
\* takes and the timers trim; on "windows" they are backed.
PixelsSurvive ==
    \A b \in WrittenBlocks : PagesOf(b) \subseteq dirty \cap committed

\* What the values of a function add up to.
Total(f) == MapThenSumSet(LAMBDA x : f[x], DOMAIN f)

\* What the lines take, and the temporary buffers that their threads have entered.
LineSize == [i \in DOMAIN lines |-> lines[i].size]

TempSize == [t \in {u \in Threads : pc[u] \in {"hold", "used"}} |-> BlockSize(ctx[t].blk)]

\* The account is exact: lines, with or without their buffer, and temporary buffers.
AccountExact == current_memory = Total(LineSize) + Total(TempSize)

\* The budget is kept, but for one line: when no line is left to evict the loop ends without
\* an error and the entry is made over the budget.  It then is alone and has no buffer.
BudgetKept ==
    \/ current_memory <= max_memory
    \/ Len(lines) = 1 /\ lines[1].buf = NULL

\* The large requests let through since the last probe leave the floor to the system.
FloorKept == sys.granted > 0 => sys.probed >= sys.granted + Floor
============================================================================
