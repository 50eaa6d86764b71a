# A formal model of Ansel's concurrency core

Ansel is a raw photo editor: a library of images (lighttable), an editor that runs each
image through a pipeline of modules (darkroom), background jobs that import, export and
render, and several caches between them. Its pixel arithmetic is sequential and well
covered by image tests. What tests hardly reach is the state that threads share: the job
queues, the read-write lock every cache entry carries, the LRU cache under the image and
thumbnail caches, the thumbnails with their copies on disk, the pixel cache with its
references and its memory, the loop that turns an edit into a frame, and the snapshots that
run on the job system. That part is modelled here.

The modules are translated from the C sources; `PROJECT.json` names, for every definition,
the lines it stands for. TLC checks the modules on small instances and TLAPS proves the
main invariants for every number of jobs, threads, keys and entries.

    tlc -workers 2 -config MCJobsQueues.cfg MCControlJobs      # one run
    tlapm ControlJobsProofs.tla                                # one module of proofs

## 1. Inventory

Paths are relative to `src/src/`.

| Part | State | Operations | Talks to | What is hard | Correct when |
|---|---|---|---|---|---|
| **Jobs** `control/jobs.c`, `control/control.c` | five queues and their lengths, the job each worker has scheduled, `export_scheduled`, the reserved slot, `running`; per job state, priority, queue | `add_job`, `add_job_res`, schedule, execute, cancel, flush, dispose; kicker; quit, shutdown, drain, cleanup | every client; workers call `execute`; progress bars | cancel against start; a wake-up lost between the look at the queues and the wait; shutdown against a worker that falls asleep; a bounded stack that frees its last job | a job is owned once, runs at most once, is not lost; exports do not overlap; every queued job is served; shutdown returns |
| **Read-write lock** `system/dtpthread.h` | pthread rwlock, `writer`, `writer_depth` | rdlock, wrlock, try variants, unlock | everything | the writer may lock again; one `unlock` call for inner and outer levels; the record is cleared after the lock is free | a writer is alone until its last unlock; unlocks balance |
| **LRU cache** `caches/cache.c` | hash table, LRU list, cost, entries with lock and `_lock_demoting` | get, testget, release, remove, seed, gc, cleanup; w -> r demotion in its users | image cache, thumbnail cache | entries are freed while others hold pointers; release takes no cache lock; demotion is release + get | no entry is freed under a holder; index, list and cost agree; gc takes the oldest, and no more than needed |
| **Thumbnails** `caches/mipmap_cache.c` | flags GENERATE and INVALIDATE, pixels, files on disk | get with rendering, shutdown of a request, demotion, swap by the darkroom, flush, evict | LRU cache, pipeline, disk | a render interrupted midway; a flush in three steps; pointers read before a lock is given up | what is handed out is rendered, is newest, and is locked; no empty memory reaches the disk |
| **Image cache** `caches/image_cache.c` | image records over the database | get, reload, write_release, remove | LRU cache, database, sidecars, signals | fields read after release | records written once, readers see the newest |
| **Pixelpipe cache** `caches/pixelpipe_cache.c` | lines by hash, reference counts, locks, buffers; memory account and system estimate | get_writable, peek, ref/unref, rekey, flush, auto-destroy; eviction, pressure valve, shedder, sweep | pipelines, GUI consumers, memory arena | lookup and lock in two critical sections; references given back by hash; eviction between two sections of one allocation | a referenced line is not freed; a published line shows its hash; account exact, budget and floor kept |
| **Cache wait** `caches/pixelpipe_cache_wait.c` | queue of consumers waiting for a hash or a node | enqueue, take_matching, cancel | pipelines, GUI | publication between a miss and the registration; a request consumed by a run that is then killed | a consumer is woken or asks again |
| **Progress bars** `control/progress.c` | list of progress objects, callbacks | create, destroy, attach job, cancel | jobs, GUI | cancel calls back under the object's mutex | no callback on a destroyed object |
| **Signals** `control/signal.c` | pending emissions | raise, connect | all | synchronous emission from a worker | the GUI thread never waits for its own emitter |
| **History and undo** `develop/dev_history.c`, `history/`, `common/undo.c` | history list, `history_end`, undo stack | add, pop, truncate, undo, redo | pipelines, database | truncation against a running pipeline | the end index stays in the list |
| **One run of a pipe** `develop/pixelpipe_hb.c`, `pixelpipe_cpu.c`, `dev_backbuf.c` | recursion over modules, leases on input and output, backbuffer | look up, acquire, process, publish, abort, swap the backbuffer | pixelpipe cache, GUI | the kill switch between any two steps; error paths that give a reference back twice or not at all | references balance; aborted pixels are not published |
| **Darkroom loop** `develop/develop.c`, `dev_pixelpipe.c`, `dev_history.c`, `dev_roi_request.c` | change flags, kill switch, request slot, history hashes, latched region, backbuffer | commit, zoom, latch, resync, plan, reset, process, continue | one run, pixelpipe cache, GUI | an edit between any two accesses of the loop; flag and switch are two atomics | the newest edit is eventually shown, and stays |
| **Snapshots** `develop/dev_snapshot.c` | reference-counted engine, its job, wanted and rendered region | capture, draw, schedule, recompute, clear | jobs | a job pointer used after the unlock; a view that moves during a job | one writer per pipe; the engine is freed once, after both users; it catches up with the view |
| **Memory arena** `system/memory_arena.c` | sorted free page runs; what the kernel backs | alloc, free, trim, stats | pixelpipe cache | split and merge; advice to the kernel outside the lock | pages in one block or free; runs maximal; pixels stay |

Not control-heavy, and left out for good: `iop/`, `pixel/`, `math/`, `colorprofiles/`
(floating-point kernels), `imageio/`, `metadata/` (file formats), `database/` (SQL),
`gui/`, `views/`, `libs/`, `widgets/` (GTK callbacks on one thread; what they start appears
as the clients of the modules), OpenCL, `apps/`, `win/`, `osx/`.

### Not modelled, and seen while reading

The parts still without a module keep these open questions for the plan of section 5:

* `caches/image_cache.c:573` reads `img->id` after the release, when the entry may be gone.
* `caches/mipmap_cache.c:1411`: `_init_f` returns early without releasing the full-size
  buffer it holds locked; `:610` takes an image-cache lock under the thumbnail cache's lock.
* `control/progress.c:354`: cancelling a queued job from its bar destroys the progress object
  whose mutex the caller holds.
* `control/control.c:490`: the shutdown drains five queues and not the reserved slot.
* `control/signal.c:460`: a synchronous emission makes the emitting thread wait for the GUI.
* `develop/masks/group.c:735` gives lines back along a path of its own.

## 2. Modules

| Module | Models | Built on |
|---|---|---|
| `ControlJobs`, `ControlJobsProofs`, `MCControlJobs` | jobs (the proofs are also those of `DevSnapshot`) | |
| `DtRwlock`, `DtRwlockProofs`, `MCDtRwlock` | read-write lock | |
| `CacheContract`, `CacheContractProofs` | what the LRU cache promises (abstract) | |
| `DtCache`, `DtCacheProofs`, `MCDtCache` | LRU cache (detailed) | implements `CacheContract` |
| `MipmapThumbs`, `MipmapThumbsProofs`, `MCMipmapThumbs` | thumbnails of one image | extends `CacheContract` |
| `PageStore` | what the arena promises (abstract) | |
| `MemoryArena` | memory arena | |
| `PixelcacheMemory`, `PixelcacheMemoryProofs`, `MCPixelcacheMemory` | budget, valve, eviction, timers of the pixel cache | extends `MemoryArena`, implements `PageStore` |
| `PixelpipeCache` | lines of the pixel cache: references, locks, marks | |
| `PixelpipeRun`, `PixelpipeRunProofs`, `MCPixelpipeRun` | runs of a pipe and GUI consumers on these lines | extends `PixelpipeCache` |
| `DarkroomPipeline`, `DarkroomPipelineProofs`, `MCDarkroomPipeline` | loop of the darkroom, region requests, cache waits | |
| `DevSnapshot`, `MCDevSnapshot` | snapshots on the job system | extends `ControlJobs` |

Because `MipmapThumbs` stands on the contract and not on `DtCache`, what it shows holds
whatever the collector chooses to evict, and whenever.

Definitions whose comment begins "Mutant:" (`...Ignored`, `...Unbounded` and the like) are
deliberately wrong variants of the definition that follows them. They are used by no
specification: substituting one for its original must make TLC report the property that
`PROJECT.json` lists with it, which shows that the property can fail.

### ControlJobs

One step is one critical section of `queue_mutex`, `res_mutex`, `cond_mutex`, `run_mutex` or
of a job's `state_mutex`. `dt_control_add_job` is therefore several actions: `AddJob` (reads
`running`, without its mutex), `AddLocked` (the section of `queue_mutex`: duplicate check,
stack or FIFO), `Notify` (the broadcast), `Discard` and `Dispose`; when the system is not
running the client executes the job itself (`SyncStart`, `SyncFinish`). A worker goes
through `CheckRunning`, `Schedule` or `NothingToSchedule`, `TestQueued`, `Start`, `Finish`,
`Clear`, `Dispose`, or `Sleep`. `pthread_cond_broadcast` moves every thread in "wait" to
"check". `TestQueued` and `Start` are two steps since the code tests the state and stores
RUNNING in two sections. The reserved worker takes from `job_res`. `Quit`, `ShutdownStop`,
`ShutdownBroadcast`, `JoinKicker`, `JoinWorkers`, `Drain` and `DrainDispose` are
`dt_control_quit`, `dt_control_shutdown` and the second drain of `dt_control_cleanup`.

A job is a model value, allocated at most once, so a pointer to a disposed job stays
recognisable. `Key` stands for what `dt_control_job_equal` compares. `priority` is an
unsigned char: it wraps at `PriorityMod`. `executed`, `refused` and `drained` are history
variables. Left out: `wait_mutex` (only `dt_control_job_wait`, which nothing calls, contends
for it), and the start of threads (all run from the beginning).

### DtRwlock

One step per access to the pthread lock or to a field that another thread may write
meanwhile. `owed` records the modes a thread has locked and not yet unlocked. Unlocking a
pthread lock one does not hold is undefined; the model lets it change nothing. `Writers` are
the threads that lock for writing: with one of them the lock keeps its promise, with two it
does not (run rwlock_writers).

### CacheContract and DtCache

Everything done under `cache->lock` is one step. Entry locks are only tried under that
lock, so a caller that fails starts again: its step waits. The release takes no cache lock,
and a writer's unlock writes the entry once more after the pthread unlock (`ReleaseTail`,
`DemoteTail`). The demotion, which `image_cache.c` and `mipmap_cache.c` both spell out, is
`Demote`, `DemoteTail`, `DemoteGet`.

`DtCache` has the LRU list, the costs and the collector (`GcVictims`); in `CacheContract`
any set of unused entries may vanish with a miss, a removal or a seed. `DtCache` refines it
under the identity mapping: `KeepsContract == Contract!Spec`.

Every thread may demote. `_lock_demoting` is one flag per entry, which the end of any demotion
clears; so `DemotionProtected` does not promise that the entry of a demotion survives, but says
what alone can take its protection: the end of another thread's demotion of the same entry, and
no collection, removal, seed or request.

### MipmapThumbs

A key is a mip size of one image. Pixels are told apart by the edit they show, or are BLANK
(memory without a picture) or SKULL. A request is `GetThumb`, `CheckThumb`, `Rendered` or
`Aborted`, `DemoteThumb`, `RefetchThumb`, `ReleaseThumb`; the darkroom's store is `SwapGet`,
`SwapStore`; an edit is `Commit` followed, for every size, by `FlushTest`, `FlushRelease`,
`FlushRemove`, `Unlink`. `Saved` gives what a deallocation may leave on disk: the pixels,
nothing (a failed write is deleted), or the old file (it could not be opened). SKULL is the
8 by 8 picture of a missing image, which is never written.

Every thread may do all of this, in any order, also while another one flushes. Five history
variables record what the code cannot repair; no guard reads them. `spoilt` has the entries
that a shutdown left marked (`Aborted`), and those that a refetch without protection allocated
anew and nobody renders (`RefetchThumb`). `exposed` has the requests whose flag another
request's refetch has cleared. `calm` has the flushes that have met nobody so far (`Calm`),
`flushed` the newest edit whose flush returned calm, `asked` its value when a request began.

Abstractions: thumbnails are rendered from the development (`embedded_jpg` = 0) and the
disk backend stays on; reading a larger thumbnail in `_init_8` is one step; float and
full-size buffers, `dt_mipmap_cache_copy_thumbnails` and the prefetch are not in the model.

### MemoryArena, PageStore and PixelcacheMemory

The list of free runs changes under `arena->lock`, one step each: `Carve` is the best fit of
`dt_cache_arena_alloc`, `FreeStep` with `Inserted` the free (advice to the kernel first, then
the sorted insertion with its overlap test and its merges), `Trim` and `LargestRun` the rest.
What falls outside the lock are steps of their own: committing pages on "windows" (`Commit`,
which may fail), `MADV_FREE` on "posix", and the kernel, which takes such pages at any time
(`Reclaim`).

`PixelcacheMemory` has the callers. A thread keeps `cache->lock` over several steps and gives
it up exactly where the code does; between two sections the others run. An allocation goes
through `CreateEntry` or `AllocAlign`, `MakeSpace` (evict until the budget has room), `Valve`
(probe, debit, shed), `ArenaAlloc`, `CommitBlock`, on failure `Defrag`, then `LineGot` and
`FillLine`; the error paths are `NoSpace`, `AllocFailed`, `UndoLine`. The two timers of the GUI
thread are `Shedder` and `FlushOld` with `Sweep`, `TrimAlone`; both only try the lock. Sizes are
small numbers; leases of single lines are in `PixelpipeCache`, here a line has a user or not.

`PageStore` knows a set of free pages and a set of blocks. The arena implements it under the
mapping that forgets the order and the cutting of the runs (`ImplementsPageStore`).

### PixelpipeCache and PixelpipeRun

A hash stands for what it is computed from, the parameters of the modules up to it. A line
that is not in `DOMAIN lines` has been freed; a thread that then touches it sets `fault`, and
the behaviour ends. Two fields have no counterpart in the code: `pixels` (what the buffer
really shows) and `drift` (references nobody will give back, less those given back by somebody
who had none).

One worker stands for all pipes, since `dt_pipeline_threadsafe_mutex` lets one recursion run at
a time. The probe for an exact hit and its swap (`Look`, `Check`) come before that mutex is taken
(pixelpipe_hb.c:1591-1621, :1639); of what the recursion of another pipe may do meanwhile,
collecting lines is in the model (`Collect`), rekeying one is not. The branch of
`_update_backbuf_cache_reference` for a line whose hash has changed (:1361-1369) is there
(`NewLineOrNone`), and lemma `SwapKeepsLine` shows that the model never takes it: in a pipe only
outputs that are not the last are rekeyed.
A run is `Start`, for each module from the last one down `Look`, `Check`, `EnterHit` or
`EnterMiss`, and on the way back `ReopenInput`, an acquisition (`AcquireExactHit`,
`AcquireRekey`, `AcquireCreate`), `Begin`, `Compute` or `Interrupted` or `ProcessFails`,
`Publish`, `ReleaseInput`, `Reap`, `Recheck`; an aborted module goes through `DropInput`,
`DropOutput`, `RemoveOutput` or `MarkOutput`. `Finish`, `Swap`, `SwapOld`, `SwapNew` exchange the
backbuffer. Each lookup and each use of what it found are two steps when the code gives the
lock up between them. The GUI takes references (`Retain`), reads (`ReadLock`, `ReadUnlock`),
gives them back by line or by hash (`ReleaseLine`, `ReleaseLookup`, `ReleaseHash`), and borrows
the backbuffer without one (`Borrow`, `BorrowCheck`, `Painted`). `Kill`, `FlushAll` and `Collect`
come at any time.

Left out: device payloads, raster masks, mask display, the OpenCL retry,
`dt_dev_pixelpipe_cache_get` and the public rekey, which single modules use for buffers of
their own. The invalidation of hashes and the sweep differ from an eviction only in what they
choose, and are `Collect`.

### DarkroomPipeline

Two threads share atomics and no lock, so a step is one access. The worker's iteration is
`Latch` (the region record and its generation), `Check` (take the flags), `Sync`, `Plan`,
`Resynced`, `Stale` (a newer generation: start again), `Reset` (the kill switch), `LoopKind`,
`GetKind`, `GetModule`, `ClearKind`, `ClearModule` (the request slot), `Exact` (the backbuffer is
already right), `Module` and `Kept` per module, `Publish`, `Finish`, and `TestSlot` to
`FlagContinuation` for a run that stopped at a requested module and must go on. `Module` ends in
one of three ways: the switch stops it; it fails without the switch (no input, no output line,
or an error of its own: pixelpipe_hb.c:1069, :1119, :1203), which ends the run with an error that
develop.c:779 answers with nothing; or its output is published. `Kept` is the test after the
publication, which takes the output of a stopped run out of the cache again. A GUI call is a list of accesses,
`todo`, that `GuiStep` works off: `Commit` (history, then the flag, then the switch of every
pipe), `Zoom` (record, generation, flags), `Pause` (a stroke begins or ends: the main pipe is
flagged, the preview paused and switched off without a flag, or resumed), `Poll` with `Peek` and
`RequestLine` (`_peek_gui`), `Cancel`; `Ready` is the callback of CACHELINE_READY. A consumer in
`Bypassing` samples a module whose outputs are not cached: `Poll` leaves it without a wait
(dev_pixelpipe.c:729). `MaxEvents` bounds evictions, failures, pauses and cancels together.

A plan is the history the nodes were synced to with the region asked for; a line is a
position in the pipe under a plan. The test of the flags and their exchange are one step (a
flag raised between them is taken along by the exchange). SYNCH stands for every flag that
demands a resync with the history: the history of the model only grows, so that syncing its top
and syncing all of it give the same nodes. A consumer may also listen to a pipe's end
(`Listeners`): the runs leave that set empty, which is the harder case for the consumer.
`unread`, `lost`, `late` and `failed` are history variables that mark the ways in which the
code leaves a request or a frame behind (section 3).

Left out: transient parameters, the in-place sync of the focused module and the other effects of
the realtime mode on the main pipe; the one retry after a missing raster mask; the nap until the
sizes of image and window are known.

### DevSnapshot

The GUI thread of `ControlJobs` gets a life: `Move` (the view changes), `Capture`, `Draw` with
`ScheduleCheck` and `ScheduleJob`, `SnapClear` with `ClearRead`, `ClearCancel`, `ClearUnref`,
`Flushing` (it enters the darkroom again), and the shutdown. `ClearCancel` is
`dt_control_job_cancel` through the remembered pointer (`CancelJob` of `ControlJobs`). A worker that executes the job goes
through `BodyEnter`, `BodyLock`, `BodyProcess`, `BodyPublish`, `BodyRedraw`. The steps of the
job system are those of `ControlJobs`, unchanged; `DisposeJob` adds what the parameters'
destructor does to the engine. A step is one section of `engine->lock` or one atomic access. A
region of interest is the view it shows. Left out: the preview tier, which the GUI thread
renders for itself, the painting and the copy of the history at capture.

## 3. Runs

| Run | Instance | States | Result |
|---|---|---|---|
| jobs_queues | 3 jobs, two of them equal; stack of capacity 1 and export queue; 2 workers; cancels | 1 746 812 | holds |
| jobs_shutdown | 2 jobs; stack, export FIFO, invalid id, reserved slot; worker and reserved worker; flush, quit, shutdown, cleanup; fairness | 416 522 | holds |
| rwlock_nested | one writer four levels deep, three readers | 262 | holds |
| rwlock_writers | two writers, two levels | | violated |
| cache_alloc | 3 threads (all demote), 3 keys, 4 entries, costs 1 and 2, quota 3 | 192 960 | holds |
| thumbs | 2 sizes, 2 entries, 2 threads, each of which requests, is shut down, stores, edits and evicts; 1 edit | 1 598 190 | holds |
| arena | 3 pages, lines and temporary buffers of 1 or 2 pages; 2 pipeline threads, timers; both platforms | 1 743 685 | holds |
| pipecache | 2 modules, 4 lines, 2 runs, GUI, 1 flush | 665 698 | holds |
| snapshot | 4 jobs, 1 worker, 2 engines, 2 views, 2 moves, 1 failure, flush, shutdown; fairness | 1 214 944 | holds |
| darkroom_frames | both pipes, 1 module, 1 edit (commit with or without new geometry, zoom), 2 events; fairness | 1 536 007 | holds |
| darkroom_waiters | main pipe, 2 modules, colour picker on the first, scope on the backbuffer, 1 event; fairness | 1 379 029 | holds |
| darkroom_switch | both pipes, 2 modules, 1 edit, a consumer whose module bypasses the cache | | violated |

The type invariants (`TypeOK` of every module) were checked on the same instances; jobs_queues
keeps its own as the invariant of a proved theorem.

What the passing runs show:

* **jobs_queues**: `OneOwner` (a live job is in exactly one queue, slot or thread; a
  disposed one in none, nor has it a bar), `OneExport`, `NoDuplicateThumbnail` (no two equal
  thumbnails on the stack or scheduled), `LengthIsExact`, `ExecuteOnce`.
* **jobs_shutdown**: `NoSilentLoss` (whatever is disposed of was executed, refused or
  drained) while the system stops under a client that still submits; `EveryJobServed`: while
  the system runs, a queued job is disposed of eventually. The lost wake-up is real (a worker
  decides to sleep, the client broadcasts, the worker waits) and only the kicker repairs it.
* **rwlock_nested**: `HoldsMatchOwed`: one re-entering writer gives back what it took, through
  every mix of levels.
* **cache_alloc**: `IndexConsistent`, `CostExact`, `HeldIsLocked`, `DemotionProtected`,
  `EvictsOldestUntilBelow` (the collector's promise in cache.h) and `KeepsContract`.
* **thumbs**: with every thread in every role, `OneRenderer`, `NoPoisonOnDisk`,
  `HandedOutIsReady` and `FreshAfterFlush` fail only after the event that each of them names
  (below), failing disk writes included, and every step is one of the contract
  (`UsesContract`).
* **arena**: `ImplementsPageStore` (no page is lost or handed out twice, so the overlap test of
  the free never has to refuse a block), `HolesWhole` (a request fails only if no hole is large
  enough), `PixelsSurvive` (neither the kernel nor a trim touches pixels in use),
  `AccountExact`, `FloorKept` (large requests let through since the last probe leave the floor
  to the system), and `BudgetKept` up to one line: `_free_space_to_alloc` ends without an error
  when the table is empty, and the one line then made may exceed the budget, without a buffer.
* **pipecache**: `RefcountExact` up to the references that `drift` records, `HeldIsAlive` for
  lines that lost none, `LinesTrue` (a published line shows its hash), `ReadersSeeLine`,
  `BorrowedNotFreed` (the backbuffer's own reference covers the painter as long as the backbuffer
  keeps the hash). The exceptions are in the definitions and explained below.
* **snapshot**: `EngineFreedLast`, `OneWriter`, `JobFieldLive` (what a clear would cancel still
  exists), `NoRenderAfterClear`, and `CatchesUp`: a snapshot that is kept shows the
  current view eventually, across moves, failures and jobs that end meanwhile.
* **darkroom_frames**: `SettledIsNewest` (a pipe at rest shows the newest history in the newest
  region) and `NewestShown` (it comes to rest there once the user stops), each unless the last
  run of the pipe failed, or met a switch whose flag had been consumed or that came without
  one, or the pipe stays paused.
* **darkroom_waiters**: `WaiterServed`: a consumer of a module or of the backbuffer gets its
  buffer, or is switched off, unless its request was lost in the slot or with the run that read
  it, or its pipe met a switch without a flag.

**The violated runs.** Both are findings in `PROJECT.json`, which quote the comment that says
otherwise.

* *darkroom_switch*. `_change_pipe` (dev_pixelpipe.c:213) raises the changed flag and then the
  kill switch. If the worker takes the flag, resyncs, plans and resets the switch in between,
  the switch stops the run that already shows the change; the flags are empty and the history
  hashes agree, so no iteration runs the pipe again and the old frame stays until the next edit.
  develop.c:683-688 relies on the opposite.
* *rwlock_writers*. The unlock gives the pthread lock up and stores `writer_depth = 0` after it
  (dtpthread.h:238). A second writer that has locked and re-entered meanwhile loses its depth; its
  inner unlock releases the pthread lock, and the first thread reads beside it. dtpthread.h:165-167
  says that re-entry "is safe for data validity". With one writer, or without re-entry, it is
  (`SafeUseExcludes`).

**Further counterexamples.** Each is reproduced with the constants of a kept configuration,
changed as given here, and the formula given here as an invariant or property. They are why the
properties say what they say and no more.

| Where | Instance | Formula that fails | What happens |
|---|---|---|---|
| jobs.c, flush | MCJobsQueues with `Jobs = {j1, j2}`, `UserActions = {"flush"}` | `[][EnterDarkroom => \A j \in Jobs : queue[j] # DT_JOB_QUEUE_SYSTEM_FG => state'[j] = state[j]]_vars` | `dt_control_flush_jobs_queue` ignores its queue and cancels what the workers have *scheduled*; jobs.h promises to flush the queued, non-running jobs of one queue. Entering the darkroom cancels a scheduled export |
| jobs.c:334, cancel | MCJobsQueues with one job, one worker, `Requests = {2}` | `refused \cap executed = {}` as an invariant | a cancel between the test for QUEUED and the store of RUNNING is lost |
| control.c:480, stop | MCJobsShutdown with one job, one worker, no reserved one, `UserActions = {"stop"}` | `ShutdownReturns` | after the only broadcast of the shutdown a worker can still fall asleep; if the kicker has left its loop nobody wakes it, and the join waits for ever |
| image_cache.c:406 | MCCacheAlloc | `\A t \in Threads : Demotes(t) => ptr[t] \in alive` | `_lock_demoting` is one flag for all demoting threads; the first to finish clears it, and the entry of the second can be freed |
| mipmap_cache.c:1187 | MCThumbs | `OneRenderer` without `\/ ptr[t] \in spoilt` | after a shutdown the entry is unlocked and still marked: two requests that hit it render under their read locks |
| mipmap_cache.c:737 | MCThumbs | `\A k \in Keys : disk[k] # BLANK` | an entry whose render was shut down keeps GENERATE but is written to disk when evicted, and is read back as a finished thumbnail |
| mipmap_cache.c:1200 | MCThumbs | `HandedOutIsReady` without `t \notin exposed` | the pointer into the entry is kept over the demotion, in which the entry can be freed once another request has cleared the flag |
| mipmap_cache.c:1309 | MCThumbs, with `flushed` set at the end of every flush and not only of a calm one | `FreshAfterFlush` | the flush only tries the lock and leaves an entry that somebody uses, which later requests show |
| develop.c:779 | MCDarkroomFrames | `Settled(p) => Shown(p) \/ p \in late` for every pipe | a run that a module ended with an error is not asked for again: the older frame stays until the next change |
| pixelpipe_cache.c:2466 | MCPipecache | `MarkedNeverReused` | a line marked for destruction while a consumer holds it is taken for an exact hit by the next run; the comment says it "must never exact-hit" |

**Exceptions inside the properties**, each a behaviour of the code that TLC shows to happen:

* *References of lines* (`drift`). A line loses a reference that its holder has not given back
  in three ways: the second test of the switch comes after the input was released and releases
  it again (pixelpipe_hb.c:1282); a release by hash meets another line after a flush or a
  rekey (pixelpipe_cache.c:3013); a flush ignores the counts. Two references are forgotten,
  and their lines never evicted: pixelpipe_hb.c:966 and :1746. `_cache_get_oldest` itself
  remarks that "more things [are] decreasing refcount than increasing it".
* *Other windows on a freed line*: a probe, a reap after the release, the lookups of an exact
  hit, removal or marking after the last unref, the swap, the painter. In the model they set
  `fault` only when the line is really gone.
* *A rekey under a reference* (pixelpipe_cache.c:2323) leaves the holder with complete pixels
  of another state; `ReadersSeeLine` therefore speaks of the line's hash and not of the
  holder's.
* *Thumbnails* (`spoilt`, `exposed`, `calm`). They are those of the table: a shutdown leaves an
  entry marked and unlocked, and `_generate_blocking` promises "a clean state" that the
  deallocation does not know of; a demotion loses its flag to another one; a flush passes over
  what somebody uses, and a request in between may render a size already flushed from a larger
  one that is not. Each property is about everything else: a thumbnail may be blank only if an
  entry of its size or of a larger one was spoilt, and what one flush that met nobody has removed
  is not brought back by any later request, store, eviction or disturbed flush.
* *A failed run* (`failed` in `SettledIsNewest`, `NewestShown`). develop.c:779 treats an error as it
  treats a stop, and asks for nothing more; the next run of the pipe ends the exception.
* *A switch without a flag* (`late`). Besides the finding, a stroke that pauses the preview sets
  its switch alone (layers.c:466): the run it kills is not asked for again when the stroke ends.
  The exception ends with the next change that flags the pipe.
* *A lost request* (`lost` in `WaiterServed`). The slot is read and cleared in four accesses
  and stored in two (pixelpipe_hb.c:1558-1560, pixelpipe_hb.h:583-597, develop.c:830-831); a
  request consumed by a run that is then killed, or that fails, is not reinstated; the next run finds its
  backbuffer right and stops; polls are deduplicated (dev_pixelpipe.c:863-880). The consumer
  then waits until the next edit. The slot has room for one request: a second one overwrites it.
* *Snapshots and the flush* (`flushed` in `JobFieldLive`, `CatchesUp`). Entering the darkroom
  cancels the scheduled job of a snapshot kept from before (darkroom.c:1995); its slot is
  "deliberately left alone" (snapshots.c:545), nobody resets `engine->job`, and the snapshot is
  never rendered again, although dev_snapshot.c:45-47 says otherwise. The same pointer is
  cancelled by a later clear, and by the clear at exit, which comes after the drain
  (darktable.c:1926): both touch a freed job, as does the race at dev_snapshot.c:139.

Comments that do not say what the code does: cache.h:105 says that both lookups "will block
and wait", while `dt_cache_testget` returns at once; pixelpipe_cache.c:1655 speaks of "HALF the
floor" and of shedding everything evictable, while the code takes the whole floor and sheds
until the deficit is met; dev_snapshot.c:291 says that an active job "just records the latest
target", and nothing is recorded (the next redraw makes up for it). A resync after a mere zoom
stores the history hash although the nodes were not synced (dev_pixelpipe.c:1876); the flag
that is still raised repairs it.

### Bounds, and why they are enough

* Two equal jobs and a third one are needed for a duplicate to meet a full stack; two
  workers for two exports to meet; capacity 1 puts the stack at its limit at once.
  `PriorityMod = 2` makes the priority wrap within one run. Requests uses one FIFO that
  excludes (export); the other FIFOs differ only in their initial priority.
* In jobs_shutdown one worker and the reserved one suffice: each can be awake, asleep or
  between look and wait at every step of the shutdown. The reserved worker shares the
  condition but not the queues.
* Four nesting levels contain every mix of inner read and write; three readers are
  interchangeable. The violation needs two writers and two levels.
* Three keys and four entries at a quota of 3 with costs 1 and 2 let a miss evict none, one
  or two entries, with or without a locked one in between. `Entries` bounds how many
  allocations a behaviour has, since an entry is not reused.
* Two mip sizes give the dependence of a small thumbnail on a larger one; two threads in every
  role give every pair of operations on one entry. Two entries are one per size; an entry is not
  reused, so `Entries` also bounds the allocations. The same run with two edits, and one with three
  threads and one size, pass as well.
* Three pages, and lines and temporary buffers of one or two pages, let a hole split, merge
  on either side, and be too small although enough pages are free. The probes {0, 1, 6} are
  unknown, below and above the floor.
* Two modules give a line that is both output and input; two runs let the second meet what
  the first one left, a third one adds no kind of meeting (an instance with 3 lines, 3 runs and
  no flush, 4 060 000 states, also passes).
* A draw that read the old region before a publication schedules a redundant job: with two
  moves and one failure four jobs suffice for the snapshot to catch up. With two workers the
  safety properties hold for 2 jobs, 1 move, flush and shutdown (1 140 000 states) and for 3
  jobs and 2 moves (774 000).
* One edit on two pipes reaches every order of flag, switch, latch, resync and reset; two events
  let a failure meet an eviction or a pause, and a pause its resumption. One module suffices
  there: it is both the first to fail and the one that writes the backbuffer.
* The picker samples the first of two modules, so that its run stops early and must be
  continued; the scope waits for the backbuffer, so that both compete for the one slot. `MaxEdits
  = 0` leaves the pause as the event that flags and stops the pipe. Larger instances pass with
  one consumer: the scope with a commit that keeps the geometry, or a zoom, and one event;
  the picker with any edit and no event. Both consumers with an edit exceed what TLC
  finishes in minutes.
* No passing run has a consumer whose module bypasses the cache: it never waits, and
  `WaiterServed` does not speak of it. darkroom_switch has one.
* Symmetry is used on threads of the same role, on keys and on entries, which are only
  compared; never in a run with a liveness property.
* CHECK_DEADLOCK is off where behaviours really end: all jobs were used, the system is
  down, or the bounded entries are used up. The lock, the arena, the pixel cache and the
  darkroom loop have it on.

### Fairness

`FairSpec` is weak fairness of every client once it is inside a call, of every worker, of
the kicker and of a shutdown that has begun: these are operating-system threads that run
whenever they are not blocked. Nothing obliges a client to submit, or a user to cancel,
flush or quit. No strong fairness is needed. The kicker's `sleep(2)` is not timed: only its
return matters.

`SnapFairSpec` adds the GUI thread once it is inside a call, a pending redraw (the main loop
serves it) and the body of a job. A pipe that fails for ever is retried for ever, so failures
are bounded. In `DarkroomPipeline` the worker is a thread that never ends while the darkroom is
open, and the main loop finishes the call it is in and serves pending redraws and signals;
edits, cancels, evictions, failures and pauses are never obliged to happen.

## 4. Proofs

| Theorem | Statement |
|---|---|
| `ControlJobsProofs!TypeCorrect` | `Spec => []TypeOK` |
| `ControlJobsProofs!ExportsNeverOverlap` | `Spec => []OneExport` |
| `ControlJobsProofs!LengthsExact` | `Spec => []LengthIsExact` |
| `ControlJobsProofs!EveryJobHasOneOwner` | `Spec => []OneOwner` |
| `ControlJobsProofs!NoJobLostSilently` | `Spec => []NoSilentLoss` |
| `ControlJobsProofs!NoCopyOfAThumbnail` | `Spec => []NoDuplicateThumbnail` |
| `ControlJobsProofs!NoJobRunsTwice` | `Spec => ExecuteOnce` |
| `DtRwlockProofs!SafeUseExcludes` | `SafeUse => (Spec => []Exclusion)` |
| `DtRwlockProofs!SafeUseBalances` | `SafeUse => (Spec => []HoldsMatchOwed)` |
| `CacheContractProofs!HeldStaysLocked` | `Spec => []HeldIsLocked` |
| `CacheContractProofs!TableStaysSound` | `Spec => []TableSound` |
| `CacheContractProofs!DemotionStaysProtected` | `Spec => DemotionProtected` |
| `DtCacheProofs!ImplementsContract` | `Spec => KeepsContract` |
| `DtCacheProofs!CacheHoldsLocks` | `Spec => []HeldIsLocked` |
| `DtCacheProofs!IndexStaysConsistent` | `Spec => []IndexConsistent` |
| `DtCacheProofs!CostStaysExact` | `Spec => []CostExact` |
| `DtCacheProofs!DemotionStaysProtected` | `Spec => DemotionProtected` |
| `DtCacheProofs!MissEvictsOldest` | `Spec => EvictsOldestUntilBelow` |
| `MipmapThumbsProofs!ThumbsUseContract` | `ThumbSpec => UsesContract` |
| `MipmapThumbsProofs!OneThreadRenders` | `ThumbSpec => []OneRenderer` |
| `MipmapThumbsProofs!NoPoisonIsStored` | `ThumbSpec => []NoPoisonOnDisk` |
| `MipmapThumbsProofs!RequestsGetPictures` | `ThumbSpec => []HandedOutIsReady` |
| `MipmapThumbsProofs!RequestsShowNewest` | `ThumbSpec => []FreshAfterFlush` |
| `PixelcacheMemoryProofs!ArenaNeverSplitsHoles` | `Spec => []HolesWhole` |
| `PixelcacheMemoryProofs!WrittenPixelsSurvive` | `Spec => []PixelsSurvive` |
| `PixelcacheMemoryProofs!ValveKeepsFloor` | `Spec => []FloorKept` |
| `PixelcacheMemoryProofs!ArenaImplementsStore` | `Spec => ImplementsPageStore` |
| `PixelcacheMemoryProofs!EveryPageHasOneOwner` | `Spec => []Store!Partition` |
| `PixelcacheMemoryProofs!AccountStaysExact` | `Spec => []AccountExact` |
| `PixelcacheMemoryProofs!BudgetStaysKept` | `Spec => []BudgetKept` |
| `PixelpipeRunProofs!TypesHold` | `Spec => []TypeOK` |
| `PixelpipeRunProofs!RefcountStaysExact` | `Spec => []RefcountExact` |
| `PixelpipeRunProofs!HeldStaysAlive` | `Spec => []HeldIsAlive` |
| `PixelpipeRunProofs!LinesStayTrue` | `Spec => []LinesTrue` |
| `PixelpipeRunProofs!ReadersSeeWhole` | `Spec => []ReadersSeeLine` |
| `PixelpipeRunProofs!BorrowedStays` | `Spec => BorrowedNotFreed` |
| `ControlJobsProofs!SnapTypeCorrect` | `OneClient`: `SnapSpec => []SnapTypeOK` |
| `ControlJobsProofs!EnginesFreedLast` | `OneClient`: `SnapSpec => []EngineFreedLast` |
| `ControlJobsProofs!OneWriterPerPipe` | `OneClient`: `SnapSpec => []OneWriter` |
| `ControlJobsProofs!RememberedJobLive` | `OneClient`: `SnapSpec => []JobFieldLive` |
| `ControlJobsProofs!ClearedIsNotRendered` | `OneClient`: `SnapSpec => NoRenderAfterClear` |
| `ControlJobsProofs!SnapshotsKeepTheJobs` | `OneClient`: `SnapSpec => [](OneOwner /\ NoSilentLoss)` |
| `DarkroomPipelineProofs!RestIsNewest` | `Spec => []SettledIsNewest` |

Two conditions are left, both hypotheses on the constants. `OneClient` says which instances of
the job system `DevSnapshot` is about: those whose only client is the GUI thread. `SafeUse` says
how far the read-write lock can be used safely: the run rwlock_writers has the counterexample
when it is dropped. All other theorems hold of every instance.

**Jobs.** `OneExport` is not inductive. That no worker holds an export must follow from
`export_scheduled` being false (`FlagOK`). For a scheduling step to keep this, a queued job
must carry the number of the queue it is in (`QueuesOK`), which `add_job` sets before it
takes the lock (`AddCallOK`) and no later call changes, as only unborn jobs are given a
queue. What a worker has scheduled must be what it is busy with (`HeldOK`), so that it
clears the flag of its own job; and the drain resets the flag only after all workers have
left (`StoppedOK`). `CurOK` says that no thread goes on with a NULL job. `IInv` is their
conjunction. Each action has
a lemma; most are instances of `FrameStep`. The lemmas on sequences (`FirstEqualPosition`,
`RemoveAtElements`, `FrontElements`, `PushElements`) say what the stack contains after the
push. Assumption: `JobsAssumption`, that is, the kinds of threads are disjoint and the
capacity and the priority range are positive.

*Ownership.* `OneOwner` counts places. The proof says it without counting: the queues have no
repetitions and share no job (`DistinctOK`), a job is in at most one of queue, hand, slot and
drain, and lives exactly when it is in one (`PlacesOK`, together `OwnInv`); the count follows
at the end (`OwnersCounted`). `FateInv` adds what has become of a job that is in somebody's
hand (`HandsOK`), waits (`WaitingOK`), or was executed (`ExecutedOK`), which gives `NoSilentLoss`
and, since a job that was executed is never QUEUED again, `ExecuteOnce`.
`NoDuplicateThumbnail` follows step by step: the push removes the first equal job of the stack,
so it needs that there was no second one.

**Lock.** `SafeUse` is "no thread nests, or there is one writer", which the run rwlock_writers
shows to be needed. The invariant ties the position of a thread inside a call to what it holds,
and the depth to the number of locks the writer owes.

**Cache.** The contract's `IInv` adds to the promised facts that living entries were
allocated, that an entry keeps its key, and that a thread in a call points to an entry that has
one. Every operation is an instance of four
lemmas: getting an entry (`FetchKeeps`), leaving it (`LeaveKeeps`), the tail of an unlock
(`TailKeeps`), and changing the table under nobody (`TableStepKeeps`). For the refinement,
each action of `DtCache` is matched with one of the contract; the essential step is that
the collector's victims are unused (`VictimsUnused`), whatever the quota and the costs. A
removal needs in addition that the table leads to living entries (`InTable`). The
contract's theorem then gives `CacheHoldsLocks`. `DemotionProtected` is an action property: each
step of the contract is shown to keep the protection of a demotion or to end another one
(`StepProtects`; most steps are `LeftAlone`, as they delete unused entries only and clear no
flag), and `DtCache` inherits it through the refinement.

*Books.* `ListOK` (the list names every living entry once), `TableOK` and `AccountOK` (the cost
is the sum of the costs of the living) are inductive together with what the contract's
invariant says of pointers and keys (`Given`). The sum and the walk that drops the victims from
the list are folds of the community modules, recursive functions underneath. The first
part of `DtCacheProofs` proves what they compute for every finite set and every list. The library's induction theorems
cannot be used, as they take an operator as a parameter; the lemmas take instead the smallest
size at which the claim fails (`Smallest`) and derive a contradiction from one unfolding. This
is why `DtCache!Without` is a `FoldLeft`. That the collector goes on until it is below 80 % and
takes the oldest first (`MissEvictsOldest`) follows from the position of an entry in the list:
what was taken before it is a set of older ones (`TakenBefore`), which only grows along the
list.

**Thumbnails.** `MipmapThumbs` extends `CacheContract`, so a first lemma shows that each of its
steps is a step of the contract (`StepIsContract`); the contract's invariant then comes for
free. `ThumbInv` adds types, where an operation is inside the cache (`Calls`), that every living
entry is found under its key (`Indexed`), what the history variables range over (`Ghosts`), and
`Shielded`: the demotion of a request that is not exposed has its entry protected, so its
refetch finds the same one (`RefetchFindsSame`).

`Ready` is the invariant about pictures. An entry that is marked and not spoilt is held for
writing by the thread that will fill it; one that is not marked shows a picture unless it is
not `Clean`, that is, unless it may have been made from a spoilt entry of its size or of a
larger one; the same of what is being rendered or stored, and of the files. Cleanness is what makes
it inductive: thumbnails are scaled down from larger ones only, and a file is of its entry's
size. `OneRenderer`, `NoPoisonOnDisk` and `HandedOutIsReady` follow.

`AllRecent` is the invariant about edits: no picture, in an entry, on disk, in a render or a
store, or in the hands of a request, is older than `flushed`. It is kept by every step but the
end of a calm flush, which raises `flushed`; there `CalmFlush` is needed: a flush that has met
nobody has left nothing of the sizes it has passed in memory or on disk, as it finds every lock
free (`FlushFindsFree`), and the steps of threads outside an operation bring nothing back
(`OutsideKeepsPassed`). `FreshAfterFlush` follows, since `asked` never exceeds `flushed`. Assumption: `ThumbAssumption`, the mip
sizes are 0, 1, ..., the special pixel values differ from each other and from edits, and the
cache has an allocate callback.

**Page store and arena.** `Partition` is inductive once every block is a non-empty run inside
the arena (`BlocksInside`, lemma `StoreKeepsPartition`). `PixelcacheMemoryProofs` shows that the arena and its callers
implement the store. Its invariant `MemInv` has five parts. `Sorted`: the free runs are
in order, inside the arena, and never touch; the insertion with its merges is
compared with the set of pages it should cover. `ThreadsOK`:
where a thread is says what it holds. `LinesOK`: every writer has exactly one line, which has
its buffer exactly while it is being filled, and a line without a user has one. `Apart`: free
pages, blocks in threads' hands and buffers of lines share no page, from which the overlap
test of the free can be seen never to refuse a block. `Backed`: the kernel takes only pages that
are being given back. `HolesWhole` is a consequence of `Sorted` alone, `PixelsSurvive` of
`Backed`; each step is then either a stutter or a step of the store (`StepIsStoreStep`), and
`Partition` carries over. `FloorKept` is
inductive with the estimate: what was let through and what is left of it are together no more
than the last probe (`WithinProbe`).

*Account and budget.* Every step is of one of five kinds (`Counted`): a line leaves, a line
comes, a temporary buffer comes or goes, or nothing changes; each keeps the sum, with sums
over lines and over threads whose laws (`SumTakes`, `SumWithout`, `SumBounded` and others) the
first part of the module proves in the same way. A line or a buffer comes only when the test of
`_free_space_to_alloc` was passed, which is when there is room or no line is left. In the
second case the account may exceed the budget; once every line has its buffer
it cannot, because the buffers are disjoint sets of pages of an arena no larger than the
budget (`BufferedFits`). Assumptions: `ArenaAssumption` (at least one page), `MemoryAssumption`
(sizes and probes are naturals, the floor is positive, finitely many pipeline threads).

**Lines of the pixel cache.** The invariant `Inv` of `PixelpipeRunProofs` has two parts; TLC
checks it on the instance of the run `pipecache` (as an invariant, 665 698 states).

`Content` says what lines show and who has them locked. No two lines have the same hash
(`TableOK`), which needs that a line about to be rekeyed is one of the same module and that its
new hash is not taken (`RekeyOK`); this holds because the worker waits for the line with the
cache lock held. The worker has the write lock of its output and no other, and a line it writes
has no GUI reader (`WriterOK`). A computed output is right because the input is the output of
the module before, shows it, and is still there when it is read (`InputOK`, `InputLive`): the
last follows from the read lock, which eviction and flush respect. What is published and not
being withdrawn shows its hash (`TrueOK`, `ShownOK`). The backbuffer's line keeps its hash, as
only lines of modules before the last are rekeyed (`BackbufOK`, with `HintOK`: the hint of a
module is a line of that module), and the line in `ptr` is one of the last module when it is
swapped in (`FinalOK`).

`References` counts: the references of a line less its drift are the number of places that hold
it (`Count`, a sum over the six kinds of holders; `CountIsCard` shows that it is the cardinality
the property speaks of). Every step gives one reference up and takes one (`Moves`), loses none
unless it sets `over` (`NoLoss`), and frees only lines without references unless it is the
flush (`Unheld`); `ReferencesStep` draws the conclusion once, and each of the 70 step lemmas
instantiates it. What a step that only counts or frees keeps of `Content` is `KeepWorker` and
`KeepOthers`.

`Content` holds also after a use of freed memory, since the model stops there; `References` is
claimed up to that point. For `BorrowedNotFreed` the painter's line is seen to be the
backbuffer's (their hashes agree, and hashes are unique), which therefore has a reference, and
a step that is not the flush frees only lines without one (`OnlyUnheldGo`). Assumptions:
`ModulesAssumption` (at least one module), `HistoriesAssumption` (a history gives each module a
positive parameter), `EntriesAssumption` (NULL is no address), `BoundsAssumption` (the bounds
are naturals).

**Snapshots.** Every step of `DevSnapshot` is a step of the job system, cancels one job, or leaves
the job system alone (`JobSteps`), so the invariant of the jobs carries over as it is
(`JobsKept`): what the GUI thread does through the pointer that an engine remembers is no more
than what any holder of a pointer may do. `SInv` adds what the snapshots know; TLC checks it on
the instance of the run `snapshot` and on one with two workers and a reserved thread. Its parts:

* `ParamsOK` and `RefsOK`: exactly the jobs that have not been disposed of refer to an engine, and
  the count of an engine is the number of its jobs and of the one owner on the GUI thread.
  `EngineFreedLast` is a consequence, with `NobodyLeft`: after the second drain no job is in any
  place, which needs that the GUI thread has left its calls (`ShutdownOK`) and that the workers
  have been joined.
* `FieldHeld`: a body that processes or publishes holds the job in its engine's field. As a job
  is in one hand (`DistinctOK` of the jobs), this is `OneWriter`. It is kept because a job is
  scheduled only while the field is empty (`GuiOK`), and only its own body empties it.
* `FieldOwn`, `CancelledOK`, `PastOK`, `FieldOK`: a remembered job is one of the engine's own; only
  a clear or entering the darkroom cancels; so a body that is past its use of the pipe and
  is still remembered was cancelled, and a remembered job that was disposed of was flushed or
  drained (`JobFieldLive`).
* `CaughtOK`: a body that is about to look at an engine which is being destroyed, and is still
  remembered, is already cancelled, or the clear is on its way to cancel just this job.
  The clear marks the engine before it reads the job, which closes the window; this is
  `NoRenderAfterClear`.

The GUI thread's steps that leave jobs alone are instances of `GuiFrame`, those of the body of
`BodyFrame`, disposals of `ReleaseFrame`, cancels of `CancelFrame`, and the other steps of the job
system of `JobFrame`. Assumptions: `JobsAssumption`; `SnapshotAssumption` (there is a viewport; NULL is
neither an engine nor a viewport); and the hypothesis `OneClient` of these theorems: the GUI thread
is the only client and submits to the queue USER_FG, as `dev_snapshot.c` does. It says which
instances of the job system `DevSnapshot` is about; `MCDevSnapshot` has TLC evaluate it. The proofs
stand in one module with those of the jobs, whose theorems use neither.

**The darkroom's loop.** `SettledIsNewest` speaks of the rest only, and is not inductive. `DInv`
follows a change on its way to the screen: a difference between two neighbours of the chain
history, nodes, plan, frame (and between viewport and plan) is at every moment owed by somebody.
`Owed(p)`: the pipe is flagged, or the GUI call in progress has a flag for it among its accesses
still to come. The parts:

* `CallsBacked`: every access of a call that changes something (items, hash, a record, a half of a
  request, a switch without a flag) is followed in the same call by the flag that announces it.
  It is shown for the calls as they are put together (`CommitFacts`, `ZoomFacts`, `PauseFacts`,
  `LineFacts`) and
  kept by each access made (`BackedTail`).
* `SyncedOK`, `PlanOK`, `RoiOK`: the nodes are those of the history, or SYNCH is owed, or the worker
  has taken the flag and is about to sync; the plan is that of the nodes, unless the worker is
  between the two; its region is that of the viewport, or the pipe is owed, or the worker has
  still to come to the test for a stale plan and the generation it latched is old. `Bounds` adds
  that a latched record with the current generation is the current record.
* `FrameOK`: the frame is the plan's, or the pipe is owed, excused (`failed` or `late`), still to be
  run in this iteration (`Coming`), or in its run (`InRun`).
* `SwitchOK`, `StopOK`: a running pipe whose switch is up, and a run that was stopped, are owed or
  excused. Here the order of `_change_pipe` matters: the flag is raised before the switch, so only
  a flag already consumed by the resync leaves a switch without one, which is the finding, and so
  does the pause, whose switch never had one (`PauseFacts`, `SwitchMade`). A module that fails
  excuses its pipe until the next run (`ModuleKeeps`).
* `RequestOK`: the loop reads the requested target twice; if the second read finds a module where the
  first did not, a flag for the new request is raised or to come. So a run that stops short of the
  frame is either continued or repeated.

A valid backbuffer is the pipe's own frame because the hashes of frame, pipe and history follow
each other (`Bounds`). The steps inside a run are instances of `RunStepKeeps`, those that leave a
pipe of `LeaveKeeps`, the accesses of the GUI thread of `GuiFrame`. TLC checks `DInv` on both
darkroom instances. Assumption: `DarkroomAssumption` (a nonempty sequence of the two pipes, at
least one module, each consumer samples a module of a pipe); nothing is assumed of the order, of
the consumers or of the bounds.

**Only model-checked**: liveness (`EveryJobServed`, `NewestShown`, `WaiterServed`, `CatchesUp`),
which is out of this prover's reach.

## 5. Plan

Modules, in this order, most important first:

1. `ImageCache` on `CacheContract`: fill, reload, write_release, lock order between the image
   cache and the thumbnail cache; then the float and full sizes of the thumbnails.
2. `JobProgress` composed with `ControlJobs`: bars, their mutexes and the cancel callback.
3. `DevHistory`: history list, `history_end`, truncation, undo and redo, with
   `dev->history_mutex`; the commit of `DarkroomPipeline` then becomes one of its steps.
4. Message rings and signals.
