---------------------------- MODULE PixelpipeRun ----------------------------
(***************************************************************************)
(* A pixel pipeline and its GUI on the pixelpipe cache.                    *)
(*                                                                         *)
(* The worker runs the pipe: dt_dev_pixelpipe_process() and the recursion  *)
(* dt_dev_pixelpipe_process_rec() of src/src/develop/pixelpipe_hb.c, which *)
(* descends from the wanted module until it meets a cached output and then *)
(* processes the modules on the way back.  A frame that waits for its      *)
(* child holds nothing, so the stack is one module number.  The recursion  *)
(* runs under a mutex that all pipes share; one worker stands for them.    *)
(* The probe for an exact hit runs before that mutex is taken: of what the *)
(* recursion of another pipe may do meanwhile, collecting lines is here    *)
(* and rekeying one is not.  So the line of the backbuffer never changes   *)
(* its hash, which the code is prepared for: in a pipe, only outputs that  *)
(* are not the last are rekeyed.                                           *)
(*                                                                         *)
(* The GUI takes references on published lines (colour picker, scopes) or  *)
(* paints the published backbuffer without one, may ask the run to stop at *)
(* any time, and may flush the cache.  Lines are collected at any time.    *)
(*                                                                         *)
(* Between two critical sections of cache->lock every interleaving is      *)
(* allowed; a step is one critical section.  Pixels stay in host memory.   *)
(***************************************************************************)
EXTENDS PixelpipeCache

CONSTANTS MaxRuns,     \* how often the pipe runs
          MaxFlushes   \* how often the whole cache is flushed

ASSUME BoundsAssumption == MaxRuns \in Nat /\ MaxFlushes \in Nat

VARIABLES w,           \* the worker: its program counter and local variables
          shutdown,    \* pipe->shutdown
          backbuf,     \* pipe->backbuf: its hash, and the line referenced for it
          gui,         \* the GUI consumer
          runs, flushes,
          over,        \* a line lost a reference its holder had not given back
          reused       \* get_writable() answered exact hit for a marked line

runVars == <<w, shutdown, backbuf, gui, runs, flushes, over, reused>>
vars == <<lines, hint, fault, w, shutdown, backbuf, gui, runs, flushes, over, reused>>

Idle == [pc |-> "idle", node |-> 1, history |-> NoHash, target |-> 1, bypass |-> FALSE,
         in |-> None, out |-> None, ptr |-> None, old |-> None, ret |-> NoLease, after |-> None]

Init ==
    /\ CacheInit
    /\ w = Idle /\ shutdown = FALSE /\ backbuf = NoLease
    /\ gui = [pc |-> "idle", hash |-> NoHash, entry |-> None]
    /\ runs = 0 /\ flushes = 0 /\ over = FALSE /\ reused = FALSE

\* The worker's steps leave these alone unless they say otherwise.
Only(S) == UNCHANGED <<gui, runs, flushes>> /\ UNCHANGED S

hash == Hash(w.history, w.node)
FinalHash == Hash(w.history, Modules)
IsFinal == w.node = Modules                       \* keep_final_output
At(pc) == w.pc = pc
Goto(pc) == w' = [w EXCEPT !.pc = pc]
\* process_rec() returns 1 in this frame, and in every frame above it.
ReturnError == w' = [w EXCEPT !.pc = "finish", !.in = None, !.out = None, !.ptr = None,
                              !.ret = NoLease]

-----------------------------------------------------------------------------
(* dt_dev_pixelpipe_process() before the recursion.                        *)

\* The loop of develop.c starts a run for a history; the wanted output is the
\* backbuffer or one module's; an edit mode may bypass the cache.
Start(history, target, bypass) ==
    /\ At("idle") /\ runs < MaxRuns
    /\ runs' = runs + 1
    /\ w' = [Idle EXCEPT !.pc = "look", !.history = history, !.target = target,
                         !.node = target, !.bypass = bypass]
    /\ shutdown' = FALSE
    /\ UNCHANGED <<lines, hint, fault, backbuf, gui, flushes, over, reused>>

\* The exact-hit probe, dt_dev_pixelpipe_cache_peek(): it looks the line up
\* under the cache lock ...
Look ==
    /\ At("look")
    /\ IF w.bypass \/ Found(hash) = {}
         THEN Goto("enter")
         ELSE w' = [w EXCEPT !.pc = "check", !.ptr = FoundOrNone(hash)]
    /\ Only(<<lines, hint, fault, shutdown, backbuf, over, reused>>)

Published(e) == ~lines[e].writer /\ ~lines[e].auto_destroy

\* ... and inspects its lock and its mark after giving the cache lock up.
Check ==
    /\ At("check")
    /\ Touch(w.ptr, "probe")
    /\ IF Exists(w.ptr) /\ Published(w.ptr)
         THEN IF w.target = Modules
                THEN w' = [w EXCEPT !.pc = "swap", !.after = "idle"]
                ELSE w' = Idle
         ELSE w' = [w EXCEPT !.pc = "enter", !.ptr = None]
    /\ Only(<<lines, hint, shutdown, backbuf, over, reused>>)

-----------------------------------------------------------------------------
(* dt_dev_pixelpipe_process_rec(): on the way down.                        *)

EnterAborted ==
    /\ At("enter") /\ shutdown
    /\ ReturnError
    /\ Only(<<lines, hint, fault, shutdown, backbuf, over, reused>>)

\* Mutant: the output is found but not referenced.
EnterHitUnreferenced(e) ==
    /\ At("enter") /\ ~shutdown /\ ~w.bypass
    /\ e \in DirectHit(hash)
    /\ w' = [w EXCEPT !.pc = "return", !.ret = [hash |-> hash, entry |-> e]]
    /\ Only(<<lines, hint, fault, shutdown, backbuf, over, reused>>)
\* Fast track: the output is cached; its reference belongs to the caller.
EnterHit(e) ==
    /\ At("enter") /\ ~shutdown /\ ~w.bypass
    /\ e \in DirectHit(hash)
    /\ lines' = RefCount(lines, e, 1)
    /\ w' = [w EXCEPT !.pc = "return", !.ret = [hash |-> hash, entry |-> e]]
    /\ Only(<<hint, fault, shutdown, backbuf, over, reused>>)

EnterMiss ==
    /\ At("enter") /\ ~shutdown
    /\ w.bypass \/ DirectHit(hash) = {}
    /\ IF w.node = 1 THEN Goto("acquire") ELSE w' = [w EXCEPT !.node = @ - 1]
    /\ Only(<<lines, hint, fault, shutdown, backbuf, over, reused>>)

-----------------------------------------------------------------------------
(* On the way up: module w.node takes the output of its child as input.    *)

\* The switch between the child's return and the use of its output gives the
\* reference that was reserved for this module up without releasing it.
ReturnAborted ==
    /\ At("return") /\ w.node # w.target /\ shutdown
    /\ lines' = Drifts(lines, w.ret.entry, 1)
    /\ ReturnError
    /\ Only(<<hint, fault, shutdown, backbuf, over, reused>>)

\* The reserved reference was taken on lease.entry; the release goes to the
\* line that is found under lease.hash now.
Reattributed(L, lease) ==
    LET e == FoundOrNone(lease.hash)
    IN  IF e = lease.entry THEN L ELSE Drifts(Drifts(L, lease.entry, 1), e, -1)
Stray(lease) == over' = (over \/ FoundOrNone(lease.hash) \notin {lease.entry, None})

\* dt_dev_pixelpipe_cache_get_entry(input_hash)
ReopenInput ==
    /\ At("return") /\ w.node # w.target /\ ~shutdown
    /\ lines' = Reattributed(lines, w.ret) /\ Stray(w.ret)
    /\ IF Found(w.ret.hash) = {}
         THEN ReturnError
         ELSE w' = [w EXCEPT !.pc = "acquire", !.node = @ + 1, !.ret = NoLease,
                             !.in = FoundOrNone(w.ret.hash)]
    /\ Only(<<hint, fault, shutdown, backbuf, reused>>)

ReturnToProcess ==
    /\ At("return") /\ w.node = w.target
    /\ Goto("finish")
    /\ Only(<<lines, hint, fault, shutdown, backbuf, over, reused>>)

\* dt_dev_pixelpipe_cache_get_writable(): the hash is taken already.
AcquireExactHit(e) ==
    /\ At("acquire")
    /\ e \in ExactHit(hash)
    /\ reused' = (reused \/ lines[e].auto_destroy)
    /\ Goto("exact")
    /\ Only(<<lines, hint, fault, shutdown, backbuf, over>>)

\* Reuse is allowed for outputs that need not stay in memory.
MayRekey == ~IsFinal /\ Rekeyable(w.node, hash) # {}
\* cache_ram_output: the final output always; others unless the cache is
\* bypassed, and only if something samples them.
MayCreate == IsFinal \/ ~w.bypass \/ ~MayRekey

AcquireRekey(e) ==
    /\ At("acquire") /\ ExactHit(hash) = {}
    /\ ~IsFinal /\ e \in Rekeyable(w.node, hash)
    /\ lines' = RefCount(Without(Stale(hash)), e, 1)
    /\ Forget(Stale(hash))
    /\ w' = [w EXCEPT !.pc = "rekey", !.out = e]
    /\ Only(<<fault, shutdown, backbuf, over, reused>>)

\* Mutant: the line changes its hash while somebody reads it.
RekeyUnlocked ==
    /\ At("rekey")
    /\ lines' = [lines EXCEPT ![w.out].writer = TRUE, ![w.out].hash = hash]
    /\ Goto("begin")
    /\ Only(<<hint, fault, shutdown, backbuf, over, reused>>)
\* It waits for the line's write lock with the cache lock held.
Rekey ==
    /\ At("rekey")
    /\ ~Locked(w.out)
    /\ lines' = [lines EXCEPT ![w.out].writer = TRUE, ![w.out].hash = hash]
    /\ Goto("begin")
    /\ Only(<<hint, fault, shutdown, backbuf, over, reused>>)

\* Addresses a thread or a hash still remembers are not given out again, so
\* that a stale pointer never passes for a new line.
Pointed == {w.in, w.out, w.ptr, w.old, w.ret.entry, gui.entry, backbuf.entry}

AcquireCreate(e) ==
    /\ At("acquire") /\ ExactHit(hash) = {} /\ MayCreate
    /\ e \in Entries \ ((Live \ Stale(hash)) \cup Pointed)
    /\ lines' = [x \in (Live \ Stale(hash)) \cup {e} |->
                    IF x = e THEN NewLine(hash) ELSE lines[x]]
    /\ Forget(Stale(hash))
    /\ w' = [w EXCEPT !.pc = "begin", !.out = e]
    /\ Only(<<fault, shutdown, backbuf, over, reused>>)

\* The first module has no input.
TouchInput(place) == fault' = IF w.in = None \/ Exists(w.in) THEN fault ELSE place

\* No memory for the line: the module gives its input back.
AcquireFails ==
    /\ At("acquire") /\ ExactHit(hash) = {} /\ MayCreate
    /\ TouchInput("input")
    /\ lines' = RefCount(Without(Stale(hash)), w.in, -1)
    /\ Forget(Stale(hash))
    /\ ReturnError
    /\ Only(<<shutdown, backbuf, over, reused>>)

-----------------------------------------------------------------------------
(* The exact hit of get_writable(): look the line up again, take a         *)
(* reference, wait for its publication, exchange the reference.            *)

ExactLookup ==
    /\ At("exact") /\ Found(hash) # {}
    /\ w' = [w EXCEPT !.pc = "exactref", !.ptr = FoundOrNone(hash)]
    /\ Only(<<lines, hint, fault, shutdown, backbuf, over, reused>>)

ExactMissing ==
    /\ At("exact") /\ Found(hash) = {}
    /\ lines' = RefCount(lines, w.in, -1)
    /\ TouchInput("input")
    /\ ReturnError
    /\ Only(<<hint, shutdown, backbuf, over, reused>>)

ExactStep(from, d, to) ==
    /\ At(from)
    /\ Touch(w.ptr, "exact hit")
    /\ lines' = RefCount(lines, w.ptr, d)
    /\ Goto(to)
    /\ Only(<<hint, shutdown, backbuf, over, reused>>)
ExactRef == ExactStep("exactref", 1, "exactdrop")
ExactDrop == ExactStep("exactdrop", -1, "exactagain")
ExactAgain == ExactStep("exactagain", 1, "exactin")

\* The input is released, without a look at its auto-destroy mark.
ExactReturn ==
    /\ At("exactin")
    /\ TouchInput("input")
    /\ lines' = RefCount(lines, w.in, -1)
    /\ w' = [w EXCEPT !.pc = "return", !.ret = [hash |-> hash, entry |-> w.ptr],
                      !.in = None, !.ptr = None]
    /\ Only(<<hint, shutdown, backbuf, over, reused>>)

-----------------------------------------------------------------------------
(* Processing a module, with its output locked for writing.                *)

ReadLocked(L, e, on) ==
    IF e \notin DOMAIN L THEN L
    ELSE [L EXCEPT ![e].readers = IF on THEN @ \cup {"worker"} ELSE @ \ {"worker"}]

Begin ==
    /\ At("begin")
    /\ TouchInput("input")
    /\ lines' = ReadLocked(lines, w.in, TRUE)
    /\ Goto("process")
    /\ Only(<<hint, shutdown, backbuf, over, reused>>)

InputRight == w.in = None \/ lines[w.in].pixels = Hash(w.history, w.node - 1)

\* The module has run: its output is right if its input was.
Compute ==
    /\ At("process")
    /\ lines' = [ReadLocked(lines, w.in, FALSE) EXCEPT
                    ![w.out].pixels = IF InputRight THEN hash ELSE Garbled]
    /\ Goto("publish")
    /\ Only(<<hint, fault, shutdown, backbuf, over, reused>>)

\* A module that sees the switch stops where it is and reports no error.
Interrupted ==
    /\ At("process") /\ shutdown
    /\ lines' = [ReadLocked(lines, w.in, FALSE) EXCEPT ![w.out].pixels = Garbled]
    /\ Goto("publish")
    /\ Only(<<hint, fault, shutdown, backbuf, over, reused>>)

ProcessFails ==
    /\ At("process")
    /\ lines' = [ReadLocked(lines, w.in, FALSE) EXCEPT ![w.out].pixels = Garbled]
    /\ Goto("failing")
    /\ Only(<<hint, fault, shutdown, backbuf, over, reused>>)

\* piece->cache_entry; that of the last module is written, too, but the final
\* output is never reused for another hash.
SetHint(lease) == hint' = IF IsFinal THEN hint ELSE [hint EXCEPT ![w.node] = lease]
ResetHint == SetHint(NoLease)                     \* _reset_piece_cache_entry()

\* The error path gives the write lock up before anything else.
FailingUnlock ==
    /\ At("failing")
    /\ ResetHint
    /\ lines' = [lines EXCEPT ![w.out].writer = FALSE]
    /\ Goto("dropin")
    /\ Only(<<fault, shutdown, backbuf, over, reused>>)

\* The output is published: transient if the cache is bypassed.
Publish ==
    /\ At("publish")
    /\ SetHint([hash |-> hash, entry |-> w.out])
    /\ lines' = [lines EXCEPT ![w.out].writer = FALSE,
                              ![w.out].auto_destroy = @ \/ (w.bypass /\ ~IsFinal)]
    /\ Goto("published")
    /\ Only(<<fault, shutdown, backbuf, over, reused>>)

\* The switch after the publication: undo it.
PublishedAborted ==
    /\ At("published") /\ shutdown
    /\ ResetHint
    /\ Goto("dropin")
    /\ Only(<<lines, fault, shutdown, backbuf, over, reused>>)

\* The input is released, and reaped in a second critical section.
ReleaseInput ==
    /\ At("published") /\ ~shutdown
    /\ TouchInput("input")
    /\ lines' = RefCount(lines, w.in, -1)
    /\ Goto("reap")
    /\ Only(<<hint, shutdown, backbuf, over, reused>>)

ReapInput(from, to) ==
    /\ At(from)
    /\ TouchInput("reap")
    /\ Drop(Reaped(w.in))
    /\ Goto(to)
    /\ Only(<<shutdown, backbuf, over, reused>>)
Reap == ReapInput("reap", "recheck")
ReapAborted == ReapInput("reapin", "dropout")

\* The switch is tested again; the input has been released already.
Recheck ==
    /\ At("recheck")
    /\ IF shutdown
         THEN /\ ResetHint
              /\ Goto("dropagain")
         ELSE /\ w' = [w EXCEPT !.pc = "return", !.ret = [hash |-> hash, entry |-> w.out],
                                !.in = None, !.out = None]
              /\ UNCHANGED hint
    /\ Only(<<lines, fault, shutdown, backbuf, over, reused>>)

-----------------------------------------------------------------------------
(* _abort_module_shutdown_cleanup(), and the same steps of the error path. *)

DropInput ==
    /\ At("dropin")
    /\ TouchInput("input")
    /\ lines' = RefCount(lines, w.in, -1)
    /\ Goto("reapin")
    /\ Only(<<hint, shutdown, backbuf, over, reused>>)

\* After the second test the module holds no reference on its input any more.
DropInputAgain ==
    /\ At("dropagain")
    /\ TouchInput("twice")
    /\ lines' = Drifts(RefCount(lines, w.in, -1), w.in, -1)
    /\ over' = (over \/ w.in # None)
    /\ Goto("reapin")
    /\ Only(<<hint, shutdown, backbuf, reused>>)

DropOutput ==
    /\ At("dropout")
    /\ Touch(w.out, "output")
    /\ lines' = RefCount(lines, w.out, -1)
    /\ Goto("remove")
    /\ Only(<<hint, shutdown, backbuf, over, reused>>)

\* dt_dev_pixelpipe_cache_remove(TRUE, output): the line may be gone by now.
RemoveOutput ==
    /\ At("remove")
    /\ Touch(w.out, "remove")
    /\ IF Exists(w.out) /\ Removable(w.out, TRUE)
         THEN Drop({w.out}) /\ ReturnError
         ELSE Goto("mark") /\ UNCHANGED <<lines, hint>>
    /\ Only(<<shutdown, backbuf, over, reused>>)

\* Mutant: a line that could not be removed is left as it is.
MarkNothing ==
    /\ At("mark")
    /\ Touch(w.out, "mark")
    /\ UNCHANGED lines
    /\ ReturnError
    /\ Only(<<hint, shutdown, backbuf, over, reused>>)
\* It could not be removed: it is marked instead.
MarkOutput ==
    /\ At("mark")
    /\ Touch(w.out, "mark")
    /\ lines' = IF Exists(w.out) THEN [lines EXCEPT ![w.out].auto_destroy = TRUE] ELSE lines
    /\ ReturnError
    /\ Only(<<hint, shutdown, backbuf, over, reused>>)

-----------------------------------------------------------------------------
(* dt_dev_pixelpipe_process() after the recursion.                         *)

\* The switch was turned after the last test of the recursion: the reference
\* the recursion returned is given up without a release.
FinishAborted ==
    /\ At("finish") /\ shutdown
    /\ lines' = Drifts(lines, w.ret.entry, 1)
    /\ w' = Idle
    /\ Only(<<hint, fault, shutdown, backbuf, over, reused>>)

\* Probe for the final output; a module's output is not displayed.
Finish ==
    /\ At("finish") /\ ~shutdown
    /\ IF w.target = Modules /\ Found(FinalHash) # {}
         THEN w' = [w EXCEPT !.pc = "finalcheck", !.ptr = FoundOrNone(FinalHash)]
         ELSE Goto("unref")
    /\ Only(<<lines, hint, fault, shutdown, backbuf, over, reused>>)

FinalCheck ==
    /\ At("finalcheck")
    /\ Touch(w.ptr, "probe")
    /\ IF Exists(w.ptr) /\ Published(w.ptr)
         THEN w' = [w EXCEPT !.pc = "swap", !.after = "unref"]
         ELSE w' = [w EXCEPT !.pc = "unref", !.ptr = None]
    /\ Only(<<lines, hint, shutdown, backbuf, over, reused>>)

AfterSwap == IF w.after = "idle" THEN Idle
             ELSE [w EXCEPT !.pc = "unref", !.ptr = None, !.old = None]

\* The line for the backbuffer, unless it changed its hash since it was probed.
NewLineOrNone == IF Exists(w.ptr) /\ lines[w.ptr].hash # FinalHash THEN None ELSE w.ptr

\* _update_backbuf_cache_reference(): nothing to do if the backbuffer has this
\* hash already; otherwise look the old line up by its hash, ...
Swap ==
    /\ At("swap")
    /\ Touch(w.ptr, "swap")
    /\ IF backbuf.hash = FinalHash /\ NewLineOrNone # None
         THEN w' = AfterSwap /\ UNCHANGED <<lines, backbuf, over>>
         ELSE /\ w' = [w EXCEPT !.pc = IF Found(backbuf.hash) = {} THEN "swapnew" ELSE "swapold",
                                !.old = FoundOrNone(backbuf.hash), !.ptr = NewLineOrNone]
              /\ lines' = Reattributed(lines, backbuf) /\ Stray(backbuf)
              /\ backbuf' = [backbuf EXCEPT !.entry = FoundOrNone(backbuf.hash)]
    /\ Only(<<hint, shutdown, reused>>)

\* ... release it, ...
SwapOld ==
    /\ At("swapold")
    /\ Touch(w.old, "unref")
    /\ lines' = RefCount(lines, w.old, -1)
    /\ backbuf' = [backbuf EXCEPT !.entry = None]
    /\ Goto("swapnew")
    /\ Only(<<hint, shutdown, over, reused>>)

\* Mutant: the switch is obeyed before the new hash is published.
SwapNewAborted ==
    /\ At("swapnew")
    /\ Touch(w.ptr, "swap")
    /\ lines' = IF shutdown THEN lines ELSE RefCount(lines, w.ptr, 1)
    /\ backbuf' = IF shutdown THEN backbuf ELSE [hash |-> FinalHash, entry |-> w.ptr]
    /\ w' = AfterSwap
    /\ Only(<<hint, shutdown, over, reused>>)
\* ... reference the new one and publish its hash to the GUI, or the invalid hash if
\* the line is another's by now.
SwapNew ==
    /\ At("swapnew")
    /\ IF w.ptr = None THEN UNCHANGED fault ELSE Touch(w.ptr, "swap")
    /\ lines' = RefCount(lines, w.ptr, 1)
    /\ backbuf' = IF w.ptr = None THEN NoLease ELSE [hash |-> FinalHash, entry |-> w.ptr]
    /\ w' = AfterSwap
    /\ Only(<<hint, shutdown, over, reused>>)

\* unref_hash(final_hash): the reference of the recursion is found by hash and
\* given back in a second critical section.
UnrefLookup ==
    /\ At("unref")
    /\ lines' = Reattributed(lines, w.ret) /\ Stray(w.ret)
    /\ w' = IF Found(w.ret.hash) = {} THEN Idle
            ELSE [w EXCEPT !.pc = "unrefdone", !.ret = [@ EXCEPT !.entry = FoundOrNone(w.ret.hash)]]
    /\ Only(<<hint, fault, shutdown, backbuf, reused>>)

Unref ==
    /\ At("unrefdone")
    /\ Touch(w.ret.entry, "unref")
    /\ lines' = RefCount(lines, w.ret.entry, -1)
    /\ w' = Idle
    /\ Only(<<hint, shutdown, backbuf, over, reused>>)

-----------------------------------------------------------------------------
(* The GUI.  Whoever needs the cache lock waits while the worker holds it  *)
(* for a line it is about to rekey.                                        *)

CacheLockFree == ~At("rekey")
GuiAt(pc) == gui.pc = pc
GuiGoto(pc) == gui' = [gui EXCEPT !.pc = pc]
GuiIdle == gui' = [pc |-> "idle", hash |-> NoHash, entry |-> None]
GuiOnly == UNCHANGED <<w, shutdown, backbuf, runs, flushes, over, reused>>

\* peek_gui_retained(): colour pickers and scopes.
Retain(h, e) ==
    /\ GuiAt("idle") /\ CacheLockFree
    /\ e \in HostHit(h)
    /\ lines' = RefCount(lines, e, 1)
    /\ gui' = [pc |-> "held", hash |-> h, entry |-> e]
    /\ UNCHANGED <<hint, fault>> /\ GuiOnly

GuiReader(e, R) ==
    IF Exists(e) THEN [lines EXCEPT ![e].readers = (@ \ {"gui"}) \cup R] ELSE lines

ReadLock ==
    /\ GuiAt("held")
    /\ Exists(gui.entry) => ~lines[gui.entry].writer
    /\ Touch(gui.entry, "reader")
    /\ lines' = GuiReader(gui.entry, {"gui"})
    /\ GuiGoto("reading")
    /\ UNCHANGED hint /\ GuiOnly

ReadUnlock ==
    /\ GuiAt("reading")
    /\ Touch(gui.entry, "reader")
    /\ lines' = GuiReader(gui.entry, {})
    /\ GuiGoto("read")
    /\ UNCHANGED hint /\ GuiOnly

\* A picker releases the line it holds.
ReleaseLine ==
    /\ GuiAt("read") /\ CacheLockFree
    /\ Touch(gui.entry, "reader")
    /\ lines' = RefCount(lines, gui.entry, -1)
    /\ GuiIdle
    /\ UNCHANGED hint /\ GuiOnly

\* A scope releases the line of the hash it published, in two steps; a line
\* that was rekeyed meanwhile keeps the reference.
ReleaseLookup ==
    /\ GuiAt("read") /\ CacheLockFree
    /\ lines' = Reattributed(lines, gui) /\ Stray(gui)
    /\ gui' = IF Found(gui.hash) = {} THEN [pc |-> "idle", hash |-> NoHash, entry |-> None]
              ELSE [gui EXCEPT !.pc = "releasing", !.entry = FoundOrNone(gui.hash)]
    /\ UNCHANGED <<hint, fault, w, shutdown, backbuf, runs, flushes, reused>>

ReleaseHash ==
    /\ GuiAt("releasing") /\ CacheLockFree
    /\ Touch(gui.entry, "reader")
    /\ lines' = RefCount(lines, gui.entry, -1)
    /\ GuiIdle
    /\ UNCHANGED hint /\ GuiOnly

\* dt_dev_lock_pipe_surface(): a cairo surface on the pixels of the
\* backbuffer, without a lock and without a reference of its own.
Borrow(e) ==
    /\ GuiAt("idle") /\ CacheLockFree
    /\ e \in Found(backbuf.hash)
    /\ gui' = [pc |-> "borrow", hash |-> backbuf.hash, entry |-> e]
    /\ UNCHANGED <<lines, hint, fault>> /\ GuiOnly

BorrowCheck ==
    /\ GuiAt("borrow")
    /\ Touch(gui.entry, "painter")
    /\ IF Exists(gui.entry) /\ Published(gui.entry) THEN GuiGoto("painting") ELSE GuiIdle
    /\ UNCHANGED <<lines, hint>> /\ GuiOnly

Painted ==
    /\ GuiAt("painting")
    /\ Touch(gui.entry, "painter")
    /\ GuiIdle
    /\ UNCHANGED <<lines, hint>> /\ GuiOnly

\* An edit, a zoom or leaving the view turns the switch.
Kill ==
    /\ ~At("idle") /\ ~shutdown
    /\ shutdown' = TRUE
    /\ UNCHANGED <<lines, hint, fault, w, backbuf, gui, runs, flushes, over, reused>>

\* dt_dev_pixelpipe_reset_all()
FlushAll ==
    /\ CacheLockFree /\ flushes < MaxFlushes
    /\ Flush
    /\ flushes' = flushes + 1
    /\ UNCHANGED <<w, shutdown, backbuf, gui, runs, over, reused>>

Collect(e) ==
    /\ CacheLockFree
    /\ Evict(e)
    /\ UNCHANGED runVars

\* After a use of freed memory anything may happen: the model stops there, and
\* when the last run has ended.
Stopped ==
    /\ fault # None \/ (At("idle") /\ GuiAt("idle") /\ runs = MaxRuns)
    /\ UNCHANGED vars

Run ==
    \/ \E h \in Histories, t \in 1..Modules, b \in BOOLEAN : Start(h, t, b)
    \/ Look \/ Check \/ EnterAborted \/ EnterMiss \/ ReturnAborted \/ ReopenInput \/ ReturnToProcess
    \/ \E e \in Entries : EnterHit(e) \/ AcquireExactHit(e) \/ AcquireRekey(e) \/ AcquireCreate(e)
    \/ Rekey \/ AcquireFails \/ ExactLookup \/ ExactMissing \/ ExactRef \/ ExactDrop \/ ExactAgain
    \/ ExactReturn \/ Begin \/ Compute \/ Interrupted \/ ProcessFails \/ FailingUnlock \/ Publish
    \/ PublishedAborted \/ ReleaseInput \/ Reap \/ ReapAborted \/ Recheck \/ DropInput
    \/ DropInputAgain \/ DropOutput \/ RemoveOutput \/ MarkOutput
    \/ FinishAborted \/ Finish \/ FinalCheck \/ Swap \/ SwapOld \/ SwapNew \/ UnrefLookup \/ Unref

Gui ==
    \/ \E h \in Hashes, e \in Entries : Retain(h, e)
    \/ ReadLock \/ ReadUnlock \/ ReleaseLine \/ ReleaseLookup \/ ReleaseHash
    \/ \E e \in Entries : Borrow(e)
    \/ BorrowCheck \/ Painted \/ Kill \/ FlushAll

Next ==
    \/ fault = None /\ (Run \/ Gui \/ \E e \in Entries : Collect(e))
    \/ Stopped

Spec == Init /\ [][Next]_vars

-----------------------------------------------------------------------------
(* Properties.                                                             *)

Pcs == {"idle", "look", "check", "enter", "return", "acquire", "rekey", "exact", "exactref",
        "exactdrop", "exactagain", "exactin", "begin", "process", "publish", "published",
        "failing", "reap", "recheck", "dropin", "dropagain", "reapin", "dropout", "remove",
        "mark", "finish", "finalcheck", "swap", "swapold", "swapnew", "unref", "unrefdone"}
Places == {"probe", "input", "output", "exact hit", "reap", "twice", "remove", "mark", "swap",
           "unref", "reader", "painter"}
EntryOrNone == Entries \cup {None}
Leases == [hash : Hashes \cup {NoHash}, entry : EntryOrNone]

\* Every variable has its type, and no two lines have the same hash: neither
\* creation nor rekeying puts a line over another in the table.
TypeOK ==
    /\ Live \subseteq Entries
    /\ \A e \in Live : lines[e] \in [hash : Hashes, refs : Int, auto_destroy : BOOLEAN,
            writer : BOOLEAN, readers : SUBSET {"worker", "gui"},
            pixels : Hashes \cup {NoHash, Garbled}, drift : Int]
    /\ hint \in [1..(Modules - 1) -> Leases]
    /\ fault \in Places \cup {None}
    /\ w \in [pc : Pcs, node : 1..Modules, history : Histories \cup {NoHash}, target : 1..Modules,
              bypass : BOOLEAN, in : EntryOrNone, out : EntryOrNone, ptr : EntryOrNone,
              old : EntryOrNone, ret : Leases, after : {None, "idle", "unref"}]
    /\ shutdown \in BOOLEAN /\ backbuf \in Leases
    /\ gui \in [pc : {"idle", "held", "reading", "read", "releasing", "borrow", "painting"},
                hash : Hashes \cup {NoHash}, entry : EntryOrNone]
    /\ runs \in 0..MaxRuns /\ flushes \in 0..MaxFlushes
    /\ over \in BOOLEAN /\ reused \in BOOLEAN
    /\ \A e, f \in Live : lines[e].hash = lines[f].hash => e = f

InputHeld == {"acquire", "exact", "exactref", "exactdrop", "exactagain", "exactin", "rekey",
              "begin", "process", "publish", "published", "failing", "dropin"}
OutputHeld == {"rekey", "begin", "process", "publish", "published", "failing", "reap", "recheck",
               "dropin", "dropagain", "reapin", "dropout"}

\* The references the threads believe to hold on e.
Holders(e) ==
    {h \in {"input", "output", "exact", "returned", "backbuf", "gui"} :
        \/ h = "input"    /\ w.in = e /\ w.pc \in InputHeld
        \/ h = "output"   /\ w.out = e /\ w.pc \in OutputHeld
        \/ h = "exact"    /\ w.ptr = e /\ w.pc \in {"exactdrop", "exactin"}
        \/ h = "returned" /\ w.ret.entry = e
        \/ h = "backbuf"  /\ backbuf.entry = e
        \/ h = "gui"      /\ gui.entry = e /\ gui.pc \in {"held", "reading", "read", "releasing"}}

\* The reference count of a line is the number of threads and hashes that hold
\* it, but for the references lost at the four places of the code the drift
\* records: the two tests of the switch that forget a returned reference, the
\* second release of an input, and a release by hash that meets another line.
RefcountExact ==
    fault = None => \A e \in Live : lines[e].refs = Cardinality(Holders(e)) + lines[e].drift

\* A line somebody holds is not freed (pixelpipe_cache.h: the count is there
\* "to avoid freeing it while still in use"), unless the whole cache was
\* flushed, which ignores the count, or a line lost a reference by a second
\* release of an input or by a release that found it under another's hash.
HeldIsAlive ==
    fault = None /\ flushes = 0 /\ ~over =>
        \A e \in Entries : Holders(e) # {} => e \in Live

\* The worker has published pixels it is about to withdraw.
Withdrawing(e) ==
    /\ e = w.out
    /\ w.pc \in {"dropin", "dropagain", "reapin", "dropout", "remove", "mark"}
       \/ (w.pc = "published" /\ shutdown)

\* A published line holds the pixels of its hash, unless the worker is about to
\* withdraw it or once took a line marked for destruction for an exact hit.
LinesTrue ==
    fault = None /\ ~reused =>
        \A e \in Live : Published(e) /\ ~Withdrawing(e) => lines[e].pixels = lines[e].hash

\* The same without that exception: "Those entries must never exact-hit: they
\* belong to the aborted lifecycle and must force a rebuild on the next run."
MarkedNeverReused ==
    fault = None =>
        \A e \in Live : Published(e) /\ ~Withdrawing(e) => lines[e].pixels = lines[e].hash

\* Under its read lock a consumer sees complete pixels: those of the line's
\* hash, or of an output that failed and is being withdrawn or is marked.
ReadersSeeLine ==
    GuiAt("reading") /\ Exists(gui.entry) /\ ~reused =>
        LET line == lines[gui.entry]
        IN  ~line.writer /\ (Withdrawing(gui.entry) \/ line.auto_destroy \/ line.pixels = line.hash)

\* "GUI surfaces only borrow the currently published backbuffer. They rely on
\* the backbuffer keepalive ref": the line of a painter is not freed while the
\* backbuffer has its hash, save between the release of the old line and the
\* publication of the new hash.
BorrowedNotFreed ==
    [][/\ GuiAt("borrow") \/ GuiAt("painting")
       /\ gui.entry \in Live /\ gui.hash = backbuf.hash
       /\ ~At("swapnew") /\ flushes' = 0 /\ ~over
       => gui.entry \in Live']_vars
=============================================================================
