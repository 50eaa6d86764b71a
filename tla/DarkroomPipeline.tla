-------------------------- MODULE DarkroomPipeline --------------------------
(***************************************************************************)
(* How an edit reaches the screen.  The GUI thread commits history items   *)
(* (dev_history.c), publishes the viewport (dev_roi_request.c) and polls   *)
(* for module outputs it wants to sample (dev_pixelpipe.c, _peek_gui, and  *)
(* caches/pixelpipe_cache_wait.c).  One worker runs the loop of develop.c: *)
(* it latches the viewport, resyncs every flagged pipe with the history,   *)
(* plans, and runs the pipes in order.  The two threads share atomics and  *)
(* no lock: change flags, a kill switch, a slot with the requested target, *)
(* and the generation of the viewport record.                              *)
(*                                                                         *)
(* A hash stands for what it is computed from: the plan of a pipe is the   *)
(* history its nodes were synced to and the region it was asked for; a     *)
(* module output is a position in the pipe under a plan.                   *)
(*                                                                         *)
(* Left out: transient parameters and what the realtime mode of a stroke   *)
(* changes in the main pipe (it resyncs the focused module alone, and its  *)
(* outputs bypass the cache); the one retry after a missing raster mask;   *)
(* the nap until the sizes of the image and the window are known.  The     *)
(* history only grows, so that syncing its top and syncing all of it give  *)
(* the same nodes: SYNCH stands for every flag that asks for a resync.     *)
(***************************************************************************)
EXTENDS Integers, Sequences, FiniteSets

CONSTANTS Order,         \* the pipes, in the order the loop serves them
          Depth,         \* modules of a pipe; the last one writes the backbuffer
          Consumers,     \* GUI consumers, each with one wait record
          TargetPipe,    \* the pipe a consumer samples
          TargetPos,     \* the module it samples, or Depth for the backbuffer
          Bypassing,     \* consumers of a module whose outputs bypass the cache
          Listeners,     \* consumers that also sample when a pipe has finished
          Geometry,      \* whether a commit may, and whether it may not, change the geometry
          MaxEdits,      \* bound on the history commits and viewport changes
          MaxEvents      \* bound on evictions, failures, pauses and cancels together

Pipes == {Order[i] : i \in DOMAIN Order}

ASSUME DarkroomAssumption ==
    /\ Order \in Seq({"preview", "main"}) /\ Order # <<>>
    /\ Depth \in Nat \ {0}
    /\ TargetPipe \in [Consumers -> Pipes] /\ TargetPos \in [Consumers -> 1..Depth]
    /\ Bypassing \subseteq {c \in Consumers : TargetPos[c] < Depth}
    /\ Listeners \subseteq Consumers /\ Geometry \subseteq BOOLEAN
    /\ {MaxEdits, MaxEvents} \subseteq Nat

VARIABLES
    items,      \* dev->history: how many commits it contains
    devHash,    \* dev's history hash: the commit it was computed at
    request,    \* dev->roi_request: generation, developed size, zoom
    paused,     \* the pipes with pipe->pause set
    changed,    \* pipe->changed
    shutdown,   \* pipe->shutdown, the kill switch
    slot,       \* pipe->cache_request and pipe->cache_request_module
    pipe,       \* what the nodes were synced to, the history hash, the plan
    backbuf,    \* the plan and the history hash of the published frame
    lines,      \* hashes in the pixelpipe cache
    events,     \* lines evicted, modules failed, pauses and cancels so far
    ready,      \* CACHELINE_READY emissions on their way to the GUI thread
    w,          \* the worker: position in the loop, pipe index, local variables
    todo,       \* what is left of the GUI call in progress
    wait,       \* the hash each consumer is queued for
    subscribed, \* _cache_wait_connected
    mode,       \* "want": a consumer has not got its buffer; "got"; "off"
    redraw,     \* consumers with an expose, idle or restart pending
    unread,     \* requests stored in the slot since it was last cleared
    lost,       \* consumers whose request was cleared unread, or read by a run that did not end
    late,       \* pipes whose run met a switch that no flag went with, or whose flag was consumed
    failed      \* pipes whose last run ended with an error

guiVars == <<todo, wait, subscribed, mode, redraw>>
devVars == <<items, devHash, request, paused>>
ghosts  == <<unread, lost, late, failed>>
vars == <<items, devHash, request, paused, changed, shutdown, slot, pipe, backbuf, lines,
          events, ready, w, todo, wait, subscribed, mode, redraw, unread, lost, late, failed>>

Flags == {"SYNCH", "ZOOMED", "CACHE_REQUEST"}
NULL == 0
NoPlan == [hist |-> -1, roi |-> [size |-> -1, zoom |-> 0]]
NoHash == [pos |-> 0, plan |-> NoPlan]
NoNode == <<"none", 0>>
NoRequest == [gen |-> -1, size |-> 0, zoom |-> 0]

\* The region a pipe asks for: the preview always shows the whole image, so the zoom
\* is the main pipe's alone.
Roi(p, r) == [size |-> r.size, zoom |-> IF p = "preview" THEN 0 ELSE r.zoom]

\* piece->global_hash, as of the last planning of the pipe.
GlobalHash(p, k) == [pos |-> k, plan |-> pipe[p].plan]

\* What the cache keeps for others: the backbuffers, and the input and the output the running
\* recursion has reserved.
Reserved == {[pos |-> Depth, plan |-> backbuf[p].plan] : p \in Pipes}
            \cup {GlobalHash(Order[w.i], k) : k \in CASE w.pc \in {"module", "publish"} -> {w.at}
                                                      [] w.pc = "kept" -> {w.at - 1, w.at}
                                                      [] OTHER -> {}}

\* The pipes as they were made, after enter() of the darkroom has flagged and switched them
\* (dt_dev_pixelpipe_rebuild_all) and before the worker's first iteration.
Init ==
    /\ items = 0 /\ devHash = 0 /\ request = [gen |-> 0, size |-> 0, zoom |-> 0]
    /\ paused = {}
    /\ changed = [p \in Pipes |-> {"SYNCH"}]
    /\ shutdown = [p \in Pipes |-> TRUE]
    /\ slot = [p \in Pipes |-> [kind |-> "NONE", module |-> NULL]]
    /\ pipe = [p \in Pipes |-> [synced |-> -1, hash |-> -1, plan |-> NoPlan]]
    /\ backbuf = [p \in Pipes |-> [plan |-> NoPlan, hash |-> -1]]
    /\ lines = {} /\ events = 0 /\ ready = {}
    /\ w = [pc |-> "latch", i |-> 1, latched |-> NoRequest, need |-> {},
            status |-> {}, loopKind |-> "NONE", kind |-> "NONE", module |-> NULL, at |-> 0,
            ret |-> 0]
    /\ todo = <<>>
    /\ wait = [c \in Consumers |-> NoHash] /\ subscribed = FALSE
    /\ mode = [c \in Consumers |-> "want"] /\ redraw = Consumers
    /\ unread = [p \in Pipes |-> {}] /\ lost = {} /\ late = {}
    /\ failed = {}
-----------------------------------------------------------------------------
(***************************************************************************)
(* The worker.  P is the pipe it is at.                                    *)
(***************************************************************************)
P == Order[w.i]
WorkerAt(pc) == w.pc = pc
Goto(pc) == w' = [w EXCEPT !.pc = pc]

\* The next pipe of a loop over the pipes, or what follows the loop.  The local variables of one
\* pipe's run end with it, those of the iteration when the next one latches.
NextPipe(v, again, after) ==
    LET u == [v EXCEPT !.status = {}, !.loopKind = "NONE", !.kind = "NONE", !.module = NULL,
                       !.at = 0, !.ret = 0]
    IN  IF v.i < Len(Order) THEN [u EXCEPT !.i = @ + 1, !.pc = again]
        ELSE IF after = "latch"
             THEN [u EXCEPT !.i = 1, !.pc = after, !.latched = NoRequest, !.need = {}]
             ELSE [u EXCEPT !.i = 1, !.pc = after]

\* Mutant: the generation is read once, when the loop starts.
LatchOnce ==
    /\ WorkerAt("latch")
    /\ w' = [w EXCEPT !.pc = "check", !.latched = [request EXCEPT !.gen = 0], !.need = {}]
    /\ UNCHANGED <<devVars, changed, shutdown, slot, pipe, backbuf, lines, events, ready,
                   guiVars, ghosts>>

\* One coherent copy of the viewport record serves the whole iteration.
Latch ==
    /\ WorkerAt("latch")
    /\ w' = [w EXCEPT !.pc = "check", !.latched = request, !.need = {}]
    /\ UNCHANGED <<devVars, changed, shutdown, slot, pipe, backbuf, lines, events, ready,
                   guiVars, ghosts>>

\* _resync_pipe_with_history up to its early returns: a paused pipe keeps its flags for later; a
\* history newer than the pipe's raises the flag by itself.  Then dt_dev_pixelpipe_change takes and
\* clears the flags in one exchange; a flag raised between the two is taken with the others.
Check ==
    /\ WorkerAt("check")
    /\ LET flags == changed[P] \cup (IF pipe[P].hash # devHash THEN {"SYNCH"} ELSE {})
       IN  IF P \in paused \/ flags = {}
           THEN w' = NextPipe(w, "check", "resynced") /\ UNCHANGED changed
           ELSE /\ w' = [w EXCEPT !.pc = "sync", !.need = @ \cup {P}, !.status = flags]
                /\ changed' = [changed EXCEPT ![P] = {}]
    /\ UNCHANGED <<devVars, shutdown, slot, pipe, backbuf, lines, events, ready, guiVars,
                   ghosts>>

\* The rest of dt_dev_pixelpipe_change: the nodes follow the history snapshot only if the
\* flags ask for it, the history hash of the pipe follows it in any case.
Sync ==
    /\ WorkerAt("sync")
    /\ pipe' = [pipe EXCEPT ![P].synced = IF "SYNCH" \in w.status THEN items ELSE @,
                            ![P].hash = devHash]
    /\ w' = [w EXCEPT !.pc = "plan", !.status = {}]
    /\ UNCHANGED <<devVars, changed, shutdown, slot, backbuf, lines, events, ready, guiVars,
                   ghosts>>

\* while(changed): flags raised meanwhile are consumed too.  Then the region is planned from
\* the latched record and the hashes are computed.
Plan ==
    /\ WorkerAt("plan")
    /\ IF changed[P] # {}
       THEN /\ w' = [w EXCEPT !.pc = "sync", !.status = changed[P]]
            /\ changed' = [changed EXCEPT ![P] = {}]
            /\ UNCHANGED pipe
       ELSE /\ UNCHANGED changed
            /\ pipe' = [pipe EXCEPT ![P].plan = [hist |-> pipe[P].synced,
                                                 roi |-> Roi(P, w.latched)]]
            /\ w' = NextPipe(w, "check", "resynced")
    /\ UNCHANGED <<devVars, shutdown, slot, backbuf, lines, events, ready, guiVars,
                   ghosts>>

\* The consumers that are on, and those among them that have nothing to show yet.
Wanting == {c \in Consumers : mode[c] = "want"}
Sampling == {c \in Consumers : mode[c] # "off"}

\* HISTORY_RESYNC makes the consumers that are on sample again.
Resynced ==
    /\ WorkerAt("resynced")
    /\ Goto("stale")
    /\ IF w.need # {} THEN /\ mode' = [c \in Consumers |-> IF mode[c] = "got" THEN "want" ELSE mode[c]]
                       /\ redraw' = Sampling
       ELSE UNCHANGED <<mode, redraw>>
    /\ UNCHANGED <<devVars, changed, shutdown, slot, pipe, backbuf, lines, events, ready, todo,
                   wait, subscribed, ghosts>>

\* Mutant: the plan is run although the viewport has moved past the latched record.
StaleIgnored ==
    /\ WorkerAt("stale")
    /\ w' = IF P \in w.need THEN [w EXCEPT !.pc = "reset"] ELSE NextPipe(w, "stale", "latch")
    /\ UNCHANGED <<devVars, changed, shutdown, slot, pipe, backbuf, lines, events, ready,
                   guiVars, ghosts>>

\* A plan made from a record that is no longer current is dropped and the pipe flagged.
Stale ==
    /\ WorkerAt("stale")
    /\ IF P \in w.need /\ request.gen # w.latched.gen
       THEN /\ changed' = [changed EXCEPT ![P] = @ \cup {"ZOOMED"}]
            /\ w' = NextPipe(w, "stale", "latch")
       ELSE /\ w' = IF P \in w.need THEN [w EXCEPT !.pc = "reset"]
                    ELSE NextPipe(w, "stale", "latch")
            /\ UNCHANGED changed
    /\ UNCHANGED <<devVars, shutdown, slot, pipe, backbuf, lines, events, ready, guiVars,
                   ghosts>>

\* The kill switch is reset when the run begins, and the loop takes its own copy of the request.
Reset ==
    /\ WorkerAt("reset")
    /\ shutdown' = [shutdown EXCEPT ![P] = FALSE]
    /\ failed' = failed \ {P}
    /\ Goto("loopKind")
    /\ UNCHANGED <<devVars, changed, slot, pipe, backbuf, lines, events, ready, guiVars, unread,
                   lost, late>>

LoopKind ==
    /\ WorkerAt("loopKind")
    /\ w' = [w EXCEPT !.pc = "getKind", !.loopKind = slot[P].kind]
    /\ UNCHANGED <<devVars, changed, shutdown, slot, pipe, backbuf, lines, events, ready,
                   guiVars, ghosts>>

\* dt_dev_pixelpipe_process reads the two halves of the request and clears them: four
\* accesses, between which the GUI thread may store another one.
GetKind ==
    /\ WorkerAt("getKind")
    /\ w' = [w EXCEPT !.pc = "getModule", !.kind = slot[P].kind]
    /\ UNCHANGED <<devVars, changed, shutdown, slot, pipe, backbuf, lines, events, ready,
                   guiVars, ghosts>>

GetModule ==
    /\ WorkerAt("getModule")
    /\ w' = [w EXCEPT !.pc = "clearKind", !.module = slot[P].module]
    /\ UNCHANGED <<devVars, changed, shutdown, slot, pipe, backbuf, lines, events, ready,
                   guiVars, ghosts>>

ClearKind ==
    /\ WorkerAt("clearKind")
    /\ slot' = [slot EXCEPT ![P].kind = "NONE"]
    /\ Goto("clearModule")
    /\ UNCHANGED <<devVars, changed, shutdown, pipe, backbuf, lines, events, ready, guiVars,
                   ghosts>>

\* requested_pos: the requested module, or the end of the pipe.
Target == IF w.kind = "MODULE" /\ w.module # NULL THEN w.module ELSE Depth

\* What a request of consumer c puts into the slot.
KindOf(c) == IF TargetPos[c] = Depth THEN "BACKBUF" ELSE "MODULE"
ModuleOf(c) == IF TargetPos[c] = Depth THEN NULL ELSE TargetPos[c]

\* The worker has read the request of consumer c.
Reads(c) == TargetPipe[c] = P /\ w.kind = KindOf(c) /\ w.module = ModuleOf(c)

ClearModule ==
    /\ WorkerAt("clearModule")
    /\ slot' = [slot EXCEPT ![P].module = NULL]
    /\ Goto("exact")
    /\ lost' = lost \cup {c \in unread[P] : ~Reads(c)}
    /\ unread' = [unread EXCEPT ![P] = {}]
    /\ UNCHANGED <<devVars, changed, shutdown, pipe, backbuf, lines, events, ready, guiVars,
                   late, failed>>

\* _update_backbuf_cache_reference
Frame(p) == [plan |-> pipe[p].plan, hash |-> pipe[p].hash]
NodeKey(p, k) == IF k = Depth THEN NoNode ELSE <<p, k>>

\* The announcement of an output; one that no consumer can wait for has no receiver.
Announce(hash, node) ==
    IF \E c \in Consumers : TargetPipe[c] = P /\ TargetPos[c] = hash.pos
    THEN ready \cup {[hash |-> hash, node |-> node]} ELSE ready

\* An exact hit ends the run; it is announced if somebody asked for it.  Otherwise the
\* recursion goes back to the last cached output before the target.
Exact ==
    /\ WorkerAt("exact")
    /\ IF GlobalHash(P, Target) \in lines
       THEN /\ backbuf' = IF Target = Depth THEN [backbuf EXCEPT ![P] = Frame(P)] ELSE backbuf
            /\ ready' = IF w.kind = "NONE" THEN ready
                        ELSE Announce(GlobalHash(P, Target), NodeKey(P, Target))
            /\ w' = [w EXCEPT !.pc = "finish", !.ret = 0]
       ELSE /\ w' = [w EXCEPT !.pc = "module",
                     !.at = CHOOSE k \in 0..Target :
                              /\ k = 0 \/ GlobalHash(P, k) \in lines
                              /\ \A j \in (k + 1)..Target : GlobalHash(P, j) \notin lines]
            /\ UNCHANGED <<backbuf, ready>>
    /\ UNCHANGED <<devVars, changed, shutdown, slot, pipe, lines, events, guiVars, ghosts>>

\* The run ends before its target: those who wait for what it was asked for wait on.
Abort ==
    /\ w' = [w EXCEPT !.pc = "finish", !.ret = 1]
    /\ lost' = lost \cup {c \in Consumers : wait[c] # NoHash /\ Reads(c)}

\* One module of the recursion: stopped by the switch; or without an input, without an output line
\* or without success, which ends the run with an error; or its output is published and announced.
Module ==
    /\ WorkerAt("module")
    /\ \/ /\ shutdown[P]
          /\ Abort
          /\ UNCHANGED <<lines, events, ready, failed>>
       \/ /\ ~shutdown[P] /\ events < MaxEvents
          /\ Abort
          /\ failed' = failed \cup {P} /\ events' = events + 1
          /\ UNCHANGED <<lines, ready>>
       \/ /\ ~shutdown[P]
          /\ lines' = lines \cup {GlobalHash(P, w.at + 1)}
          /\ ready' = Announce(GlobalHash(P, w.at + 1), <<P, w.at + 1>>)
          /\ w' = [w EXCEPT !.at = @ + 1, !.pc = "kept"]
          /\ UNCHANGED <<events, lost, failed>>
    /\ UNCHANGED <<devVars, changed, shutdown, slot, pipe, backbuf, guiVars, unread, late>>

\* KILL_SWITCH_AND_FLUSH_CACHE: an output that the switch overtook is taken out of the cache again.
Kept ==
    /\ WorkerAt("kept")
    /\ IF shutdown[P]
       THEN /\ Abort
            /\ lines' = lines \ {GlobalHash(P, w.at)}
       ELSE /\ Goto(IF w.at = Target THEN "publish" ELSE "module")
            /\ UNCHANGED <<lines, lost>>
    /\ UNCHANGED <<devVars, changed, shutdown, slot, pipe, backbuf, events, ready, guiVars, unread,
                   late, failed>>

\* The end of dt_dev_pixelpipe_process: no backbuffer once the switch is set.
Publish ==
    /\ WorkerAt("publish")
    /\ backbuf' = IF ~shutdown[P] /\ Target = Depth THEN [backbuf EXCEPT ![P] = Frame(P)]
                  ELSE backbuf
    /\ w' = [w EXCEPT !.pc = "finish", !.ret = 0]
    /\ UNCHANGED <<devVars, changed, shutdown, slot, pipe, lines, events, ready, guiVars, ghosts>>

\* dt_dev_pixelpipe_is_backbufer_valid
BackbufValid(p) ==
    /\ backbuf[p].plan # NoPlan
    /\ backbuf[p].plan = pipe[p].plan
    /\ backbuf[p].hash = devHash

\* processed: no error, and the switch is still off.
Finish ==
    /\ WorkerAt("finish")
    /\ w' = IF w.ret = 0 /\ ~shutdown[P] THEN [w EXCEPT !.pc = "processed"]
            ELSE NextPipe(w, "stale", "latch")
    /\ UNCHANGED <<devVars, changed, shutdown, slot, pipe, backbuf, lines, events, ready,
                   guiVars, ghosts>>

\* A valid backbuffer is announced, and those who listen sample again.  A run that served a module
\* request and left the backbuffer behind has to be continued.
Processed ==
    /\ WorkerAt("processed")
    /\ redraw' = IF BackbufValid(P) THEN redraw \cup (Listeners \cap Wanting) ELSE redraw
    /\ w' = IF w.loopKind = "MODULE" /\ ~BackbufValid(P) THEN [w EXCEPT !.pc = "testSlot"]
            ELSE NextPipe(w, "stale", "latch")
    /\ UNCHANGED <<devVars, changed, shutdown, slot, pipe, backbuf, lines, events, ready, todo,
                   wait, subscribed, mode, ghosts>>

\* The continuation: test the slot, store the two halves, raise the flag.
TestSlot ==
    /\ WorkerAt("testSlot")
    /\ Goto(IF slot[P].kind = "NONE" THEN "storeModule" ELSE "flag")
    /\ UNCHANGED <<devVars, changed, shutdown, slot, pipe, backbuf, lines, events, ready,
                   guiVars, ghosts>>

StoreModule ==
    /\ WorkerAt("storeModule")
    /\ slot' = [slot EXCEPT ![P].module = NULL]
    /\ Goto("storeKind")
    /\ UNCHANGED <<devVars, changed, shutdown, pipe, backbuf, lines, events, ready, guiVars,
                   ghosts>>

StoreKind ==
    /\ WorkerAt("storeKind")
    /\ slot' = [slot EXCEPT ![P].kind = "BACKBUF"]
    /\ Goto("flag")
    /\ UNCHANGED <<devVars, changed, shutdown, pipe, backbuf, lines, events, ready, guiVars,
                   ghosts>>

FlagContinuation ==
    /\ WorkerAt("flag")
    /\ changed' = [changed EXCEPT ![P] = @ \cup {"CACHE_REQUEST"}]
    /\ w' = NextPipe(w, "stale", "latch")
    /\ UNCHANGED <<devVars, shutdown, slot, pipe, backbuf, lines, events, ready, guiVars, ghosts>>

Worker ==
    \/ Latch \/ Check \/ Sync \/ Plan \/ Resynced \/ Stale
    \/ Reset \/ LoopKind \/ GetKind \/ GetModule \/ ClearKind \/ ClearModule \/ Exact
    \/ Module \/ Kept \/ Publish \/ Finish \/ Processed
    \/ TestSlot \/ StoreModule \/ StoreKind \/ FlagContinuation

\* The cache gives up a line nobody has reserved.
Evict ==
    /\ events < MaxEvents
    /\ \E l \in lines \ Reserved : lines' = lines \ {l}
    /\ events' = events + 1
    /\ UNCHANGED <<devVars, changed, shutdown, slot, pipe, backbuf, ready, w, guiVars, ghosts>>
-----------------------------------------------------------------------------
(***************************************************************************)
(* The GUI thread.  A call is the list of its accesses to what it shares   *)
(* with the worker; it is worked off one access at a time.                 *)
(***************************************************************************)
Idle == todo = <<>>
Edits == items + request.zoom

\* _change_pipe: the flag first, then the switch.
ChangePipe(p, flag) ==
    IF p \in Pipes THEN << <<"flag", p, flag>>, <<"switch", p, flag>> >> ELSE <<>>

\* The switch of a caller that will raise its flag later.
KillSwitch(p) == IF p \in Pipes THEN << <<"switch", p, "none">> >> ELSE <<>>

\* dt_dev_roi_request_publish: the record first, the flags after it.
PublishRequest(part) ==
    << <<"request", part>> >>
    \o (IF part = "size" THEN ChangePipe("preview", "ZOOMED") ELSE <<>>)
    \o ChangePipe("main", "ZOOMED")

\* dt_dev_history_commit_item_now; a module that changes the geometry publishes the new
\* developed size at the end.
Commit ==
    /\ Idle /\ Edits < MaxEdits
    /\ \E geometry \in Geometry :
         todo' = KillSwitch("main") \o KillSwitch("preview") \o << <<"items">>, <<"hash">> >>
                 \o ChangePipe("preview", "SYNCH") \o ChangePipe("main", "SYNCH")
                 \o (IF geometry THEN PublishRequest("size") ELSE <<>>)
    /\ UNCHANGED <<devVars, changed, shutdown, slot, pipe, backbuf, lines, events, ready, w,
                   wait, subscribed, mode, redraw, ghosts>>

\* A setter of the viewport, and dt_dev_pixelpipe_change_zoom_main after it.
Zoom ==
    /\ Idle /\ Edits < MaxEdits
    /\ todo' = PublishRequest("zoom") \o KillSwitch("main") \o ChangePipe("main", "ZOOMED")
    /\ UNCHANGED <<devVars, changed, shutdown, slot, pipe, backbuf, lines, events, ready, w,
                   wait, subscribed, mode, redraw, ghosts>>

\* dt_drawlayer_set_pipeline_realtime_mode: a stroke pauses the preview and stops its run, the end of
\* the stroke resumes it.
Pause ==
    /\ Idle /\ events < MaxEvents
    /\ events' = events + 1
    /\ todo' = ChangePipe("main", "SYNCH") \o << <<"pause">> >>
               \o (IF paused = {} /\ "preview" \in Pipes THEN << <<"switch", "preview", "pause">> >>
                   ELSE <<>>)
    /\ UNCHANGED <<devVars, changed, shutdown, slot, pipe, backbuf, lines, ready, w,
                   wait, subscribed, mode, redraw, ghosts>>

\* _peek_gui begins.  A module whose outputs bypass the cache is not waited for.  The hash of the
\* target is read from the pipe, which the worker may replan.
Poll(c) ==
    /\ Idle /\ c \in redraw
    /\ redraw' = redraw \ {c}
    /\ todo' = IF mode[c] = "want" /\ c \notin Bypassing
               THEN << <<"peek", c, GlobalHash(TargetPipe[c], TargetPos[c])>> >> ELSE <<>>
    /\ UNCHANGED <<devVars, changed, shutdown, slot, pipe, backbuf, lines, events, ready, w,
                   wait, subscribed, mode, ghosts>>

\* dt_pixelpipe_cache_wait_cancel: the subscription goes with the last record.
Cleanup(c) ==
    /\ wait' = [wait EXCEPT ![c] = NoHash]
    /\ subscribed' = (subscribed /\ \E d \in Consumers \ {c} : wait[d] # NoHash)

\* A consumer that is switched off gives up its wait.
Cancel(c) ==
    /\ Idle /\ wait[c] # NoHash /\ events < MaxEvents
    /\ events' = events + 1
    /\ mode' = [mode EXCEPT ![c] = "off"]
    /\ Cleanup(c)
    /\ redraw' = redraw \ {c} /\ lost' = lost \ {c}
    /\ UNCHANGED <<devVars, changed, shutdown, slot, pipe, backbuf, lines, ready, w,
                   todo, unread, late, failed>>

\* The displayed frame is the published one, whatever is planned.
DisplayHash(c, hash) ==
    LET shown == backbuf[TargetPipe[c]].plan
    IN  IF TargetPos[c] = Depth /\ shown # NoPlan THEN [pos |-> Depth, plan |-> shown] ELSE hash

\* Mutant: the request is stored and the pipe is not told.
RequestLineUnflagged(c) == << <<"module", c>>, <<"kind", c>> >>

\* dt_dev_pixelpipe_set_cache_request stores the two halves, then the pipe is flagged.
RequestLine(c) ==
    << <<"module", c>>, <<"kind", c>>, <<"flag", TargetPipe[c], "CACHE_REQUEST">> >>

\* The rest of _peek_gui: a hit ends the wait; a miss queues a new wait and asks for the line,
\* unless the same wait is already queued.
Peek(c, hash) ==
    /\ IF DisplayHash(c, hash) \in lines
       THEN /\ mode' = [mode EXCEPT ![c] = "got"]
            /\ Cleanup(c)
            /\ todo' = Tail(todo)
            /\ lost' = lost \ {c}
       ELSE /\ UNCHANGED <<mode, lost>>
            /\ IF hash.plan # NoPlan /\ wait[c] = hash
               THEN UNCHANGED <<wait, subscribed>> /\ todo' = Tail(todo)
               ELSE /\ wait' = [wait EXCEPT ![c] = IF hash.plan = NoPlan THEN @ ELSE hash]
                    /\ subscribed' = (subscribed \/ hash.plan # NoPlan)
                    /\ todo' = RequestLine(c) \o Tail(todo)
    /\ UNCHANGED <<devVars, changed, shutdown, slot, unread, late, failed>>

\* Pipe p is in the middle of a run.
Running(p) ==
    p = P /\ w.pc \in {"loopKind", "getKind", "getModule", "clearKind", "clearModule", "exact",
                       "module", "kept", "publish", "finish"}

\* The flag that belongs to a switch is gone, or it never had one.
Unflagged(p, flag) == IF flag = "pause" THEN changed[p] = {} ELSE flag \notin changed[p]

\* One access of a GUI call.
GuiStep ==
    /\ ~Idle
    /\ LET op == Head(todo)[1]
           arg == Head(todo)
       IN  \/ /\ op = "flag"
              /\ changed' = [changed EXCEPT ![arg[2]] = @ \cup {arg[3]}]
              /\ late' = IF arg[3] = "CACHE_REQUEST" THEN late ELSE late \ {arg[2]}
              /\ todo' = Tail(todo)
              /\ UNCHANGED <<devVars, shutdown, slot, wait, subscribed, mode, unread, lost, failed>>
           \/ /\ op = "switch"
              /\ shutdown' = [shutdown EXCEPT ![arg[2]] = TRUE]
              /\ late' = IF arg[3] # "none" /\ Unflagged(arg[2], arg[3]) /\ Running(arg[2])
                         THEN late \cup {arg[2]} ELSE late
              /\ todo' = Tail(todo)
              /\ UNCHANGED <<devVars, changed, slot, wait, subscribed, mode, unread, lost, failed>>
           \/ /\ op = "pause"
              /\ paused' = IF paused = {} THEN Pipes \cap {"preview"} ELSE {}
              /\ todo' = Tail(todo)
              /\ UNCHANGED <<items, devHash, request, changed, shutdown, slot, wait, subscribed, mode,
                             ghosts>>
           \/ /\ op = "items"
              /\ items' = items + 1
              /\ todo' = Tail(todo)
              /\ UNCHANGED <<devHash, request, paused, changed, shutdown, slot, wait,
                             subscribed, mode, ghosts>>
           \/ /\ op = "hash"
              /\ devHash' = items
              /\ todo' = Tail(todo)
              /\ UNCHANGED <<items, request, paused, changed, shutdown, slot, wait,
                             subscribed, mode, ghosts>>
           \/ /\ op = "request"
              /\ request' = [gen |-> request.gen + 1,
                             size |-> IF arg[2] = "size" THEN items ELSE request.size,
                             zoom |-> IF arg[2] = "zoom" THEN request.zoom + 1 ELSE request.zoom]
              /\ todo' = Tail(todo)
              /\ UNCHANGED <<items, devHash, paused, changed, shutdown, slot, wait,
                             subscribed, mode, ghosts>>
           \/ /\ op = "peek"
              /\ Peek(arg[2], arg[3])
           \/ /\ op = "module"
              /\ slot' = [slot EXCEPT ![TargetPipe[arg[2]]].module = ModuleOf(arg[2])]
              /\ unread' = [unread EXCEPT ![TargetPipe[arg[2]]] = @ \cup {arg[2]}]
              /\ lost' = lost \ {arg[2]}
              /\ todo' = Tail(todo)
              /\ UNCHANGED <<devVars, changed, shutdown, wait, subscribed, mode, late, failed>>
           \/ /\ op = "kind"
              /\ slot' = [slot EXCEPT ![TargetPipe[arg[2]]].kind = KindOf(arg[2])]
              /\ todo' = Tail(todo)
              /\ UNCHANGED <<devVars, changed, shutdown, wait, subscribed, mode, ghosts>>
    /\ UNCHANGED <<pipe, backbuf, lines, events, ready, w, redraw>>

\* _dt_dev_pixelpipe_cache_wait_ready_callback: every wait for this hash, or for the node that
\* produced it, is taken from the queue and its consumer restarted.
Ready ==
    /\ Idle
    /\ \E e \in ready :
         LET served == {c \in Consumers : /\ subscribed
                                          /\ wait[c] # NoHash
                                          /\ \/ wait[c] = e.hash
                                             \/ /\ e.node # NoNode
                                                /\ NodeKey(TargetPipe[c], TargetPos[c]) = e.node}
         IN  /\ ready' = ready \ {e}
             /\ wait' = [c \in Consumers |-> IF c \in served THEN NoHash ELSE wait[c]]
             /\ subscribed' = (subscribed /\ \E c \in Consumers \ served : wait[c] # NoHash)
             /\ redraw' = redraw \cup served
    /\ UNCHANGED <<devVars, changed, shutdown, slot, pipe, backbuf, lines, events, w, todo,
                   mode, ghosts>>

Gui == Commit \/ Zoom \/ Pause \/ GuiStep \/ Ready \/ \E c \in Consumers : Poll(c) \/ Cancel(c)

Next == Worker \/ Evict \/ Gui

Spec == Init /\ [][Next]_vars

\* The worker is a thread; the main loop of the GUI finishes the call it is in, and serves
\* pending redraws and signals.  Nothing obliges a user to edit, or the cache to evict.
Fairness == WF_vars(Worker) /\ WF_vars(GuiStep \/ Ready \/ \E c \in Consumers : Poll(c))

FairSpec == Spec /\ Fairness
-----------------------------------------------------------------------------
\* Type correctness.
TypeOK ==
    /\ items \in 0..MaxEdits /\ devHash \in 0..items
    /\ changed \in [Pipes -> SUBSET Flags] /\ shutdown \in [Pipes -> BOOLEAN]
    /\ \A p \in Pipes : /\ slot[p].kind \in {"NONE", "MODULE", "BACKBUF"}
                        /\ slot[p].module \in 0..Depth
    /\ subscribed \in BOOLEAN
    /\ mode \in [Consumers -> {"want", "got", "off"}]

\* The frame of pipe p shows the newest history in the newest region.
Shown(p) == BackbufValid(p) /\ backbuf[p].plan = [hist |-> items, roi |-> Roi(p, request)]

\* Nothing more will happen to pipe p by itself.
Settled(p) ==
    Idle /\ WorkerAt("latch") /\ changed[p] = {} /\ pipe[p].hash = devHash

\* Property: when a pipe has come to rest, its frame is the newest: no change of the history or of
\* the viewport was swallowed by a resync, by the reset of the switch, by a pause or by a request for
\* a module (develop.c:683-719).  Two kinds of run leave an older frame and no flag behind: one that
\* a module ended with an error (develop.c:779 asks for nothing more), and one that met a switch
\* whose flag had been consumed or that came without one (NoChangeForgotten below; layers.c:466).
SettledIsNewest == \A p \in Pipes : Settled(p) => Shown(p) \/ p \in failed \cup late

\* Property: "the run below aborts and the next loop iteration resyncs, re-advertises and
\* reprocesses the new state" (develop.c:686): no change is forgotten, however the flag and the
\* switch of _change_pipe fall between the steps of the worker.
NoChangeForgotten == \A p \in Pipes : Settled(p) => Shown(p)

\* Property: once the user stops editing, the newest frame is shown eventually and for good
\* (the loop of dt_dev_darkroom_pipeline neither starves nor leaves a stale frame), unless the pipe
\* stays paused, its last run failed, or its run met a switch without a flag.
NewestShown == \A p \in Pipes : <>[](Shown(p) \/ p \in failed \cup late \cup paused)

\* Property: a consumer that waits for a module output or for the backbuffer gets it or is switched
\* off (_peek_gui and _dt_dev_pixelpipe_cache_wait_ready_callback).  The exceptions are those of the
\* code: its request was overwritten or cleared before the worker read it; the run that read it
\* was stopped or failed, and the wait that is still queued keeps it from asking again
\* (dev_pixelpipe.c:877-881); the pipe stays paused, or met a switch without a flag; the module
\* bypasses the cache and is not waited for at all (dev_pixelpipe.c:729).
WaiterServed ==
    \A c \in Consumers \ Bypassing :
      []<>(mode[c] # "want" \/ c \in lost \/ TargetPipe[c] \in late \cup paused)
=============================================================================
