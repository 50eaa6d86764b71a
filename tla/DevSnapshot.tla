---------------------------- MODULE DevSnapshot ----------------------------
(***************************************************************************)
(* Snapshots of the darkroom (src/src/develop/dev_snapshot.c) on top of    *)
(* the job system.                                                         *)
(*                                                                         *)
(* A snapshot owns an engine: a frozen edit with a pipe of its own, which  *)
(* is rendered again whenever the viewport moves.  The GUI thread draws,   *)
(* schedules at most one recompute job for the engine and may clear the    *)
(* snapshot at any time; a worker runs the job.  The snapshot and each of  *)
(* its jobs hold a reference on the engine, and the last one frees it.     *)
(*                                                                         *)
(* The GUI thread is the client GUI of ControlJobs, and also the thread    *)
(* that shuts down.  A step is one critical section of engine->lock or one *)
(* access to an atomic field.  A region of interest is the view it shows;  *)
(* the cheap preview tier, which the GUI thread renders for itself, and    *)
(* the painting are left out.                                              *)
(***************************************************************************)
EXTENDS ControlJobs

CONSTANTS GUI,          \* the GUI thread
          Engines,      \* the engines that may ever be allocated
          Views,        \* the viewports
          MaxMoves,     \* bound: how often the user pans or zooms
          MaxFailures   \* bound: how often the pipe fails

ASSUME SnapshotAssumption ==
    /\ Views # {}
    /\ NULL \notin Engines \cup Views \cup {"engine", "job"}
    /\ MaxMoves \in Nat /\ MaxFailures \in Nat

\* The instances of the job system that this module is about: the GUI thread is the only client,
\* and submits recompute jobs only.
OneClient == Clients = {GUI} /\ Requests = {DT_JOB_QUEUE_USER_FG}

VARIABLES
    engine,      \* the fields of dt_dev_snapshot_engine_t
    params,      \* the engine of each job, NULL once it has been released
    snap,        \* snap->engine
    gui,         \* the GUI thread's local variables
    body,        \* where each thread is in _recompute_job_run, and its locals
    view,        \* what the darkroom shows
    redraw,      \* a redraw of the centre is pending
    moves, failures,
    flushed,     \* history: the jobs that entering the darkroom has cancelled
    fault        \* history: the first use of freed memory, NULL if none

snapVars == <<engine, params, snap, gui, body, view, redraw, moves, failures, flushed, fault>>
allVars == <<vars, snapVars>>

\* ref_count, destroying, job, pending_roi, last_roi (NULL stands for roi_valid
\* = FALSE), and the region the pipe's backbuffer shows.
NoEngine == [refs |-> 0, destroying |-> FALSE, job |-> NULL,
             pending |-> NULL, last |-> NULL, backbuf |-> NULL]
GuiIdle == [pc |-> "idle", engine |-> NULL, job |-> NULL, capture |-> FALSE]
NoBody == [pc |-> "none", roi |-> NULL, ok |-> FALSE]

SnapInit ==
    /\ Init
    /\ engine = [e \in Engines |-> NoEngine]
    /\ params = [j \in Jobs |-> NULL]
    /\ snap = NULL /\ gui = GuiIdle
    /\ body = [t \in Threads |-> NoBody]
    /\ view = CHOOSE v \in Views : TRUE
    /\ redraw = FALSE
    /\ moves = 0 /\ failures = 0 /\ flushed = {} /\ fault = NULL

\* The engine's references; the last one to go frees it.
Allocated(e) == engine[e].refs > 0
Touch(e) == fault' = IF Allocated(e) THEN fault ELSE "engine"

\* _engine_unref() by the cleanup callback of each disposed job.
Unref(S) ==
    /\ engine' = [e \in Engines |-> [engine[e] EXCEPT
                    !.refs = @ - Cardinality({j \in S : params[j] = e})]]
    /\ params' = [j \in Jobs |-> IF j \in S THEN NULL ELSE params[j]]

----------------------------------------------------------------------------
(* The recompute job, on a worker or, when the system does not run, on the *)
(* thread that submitted it.                                               *)

Engine(t) == params[cur[t]]
BodyAt(t, at) == body[t].pc = at
BodyGoto(t, at) == body' = [body EXCEPT ![t].pc = at]

\* The job system calls the body, and takes over again when it returns.
BodyCall(t) ==
    /\ Start(t) \/ SyncStart(t)
    /\ BodyGoto(t, "enter")
    /\ UNCHANGED <<engine, params, snap, gui, view, redraw, moves, failures, flushed, fault>>

BodyReturn(t) ==
    /\ BodyAt(t, "done")
    /\ Finish(t) \/ SyncFinish(t)
    /\ body' = [body EXCEPT ![t] = NoBody]
    /\ UNCHANGED <<engine, params, snap, gui, view, redraw, moves, failures, flushed, fault>>

BodyEnter(t) ==
    /\ BodyAt(t, "enter")
    /\ Touch(Engine(t))
    /\ BodyGoto(t, IF engine[Engine(t)].destroying THEN "done" ELSE "lock")
    /\ UNCHANGED <<vars, engine, params, snap, gui, view, redraw, moves, failures, flushed>>

\* Mutant: only the engine's job field is looked at.
StaleUncancelled(t) == engine[Engine(t)].job # cur[t]

Stale(t) == engine[Engine(t)].job # cur[t] \/ state[cur[t]] = "CANCELLED"

\* A stale job returns and leaves engine->job as it is.
BodyLock(t) ==
    /\ BodyAt(t, "lock")
    /\ Touch(Engine(t))
    /\ body' = [body EXCEPT ![t] = [pc |-> IF Stale(t) THEN "done" ELSE "process",
                                    roi |-> engine[Engine(t)].pending, ok |-> FALSE]]
    /\ UNCHANGED <<vars, engine, params, snap, gui, view, redraw, moves, failures, flushed>>

\* _process_at_roi(): the pipe publishes its backbuffer, or fails and keeps it.
BodyProcess(t) ==
    /\ BodyAt(t, "process")
    /\ Touch(Engine(t))
    /\ \/ /\ engine' = [engine EXCEPT ![Engine(t)].backbuf = body[t].roi]
          /\ body' = [body EXCEPT ![t].pc = "publish", ![t].ok = TRUE]
          /\ UNCHANGED failures
       \/ /\ failures < MaxFailures
          /\ failures' = failures + 1
          /\ BodyGoto(t, "publish")
          /\ UNCHANGED engine
    /\ UNCHANGED <<vars, params, snap, gui, view, redraw, moves, flushed>>

\* Mutant: the job stays in the engine's field.
PublishedKeepsJob(t) ==
    [engine[Engine(t)] EXCEPT !.last = IF body[t].ok THEN body[t].roi ELSE NULL]

Published(t) ==
    [engine[Engine(t)] EXCEPT !.last = IF body[t].ok THEN body[t].roi ELSE NULL, !.job = NULL]

BodyPublish(t) ==
    /\ BodyAt(t, "publish")
    /\ Touch(Engine(t))
    /\ engine' = IF engine[Engine(t)].job = cur[t]
                 THEN [engine EXCEPT ![Engine(t)] = Published(t)] ELSE engine
    /\ BodyGoto(t, "redraw")
    /\ UNCHANGED <<vars, params, snap, gui, view, redraw, moves, failures, flushed>>

\* Mutant: the redraw is requested only for a run that succeeded.
BodyRedrawIfOk(t) ==
    /\ BodyAt(t, "redraw")
    /\ Touch(Engine(t))
    /\ redraw' = (redraw \/ (body[t].ok /\ ~engine[Engine(t)].destroying))
    /\ BodyGoto(t, "done")
    /\ UNCHANGED <<vars, engine, params, snap, gui, view, moves, failures, flushed>>

BodyRedraw(t) ==
    /\ BodyAt(t, "redraw")
    /\ Touch(Engine(t))
    /\ redraw' = (redraw \/ ~engine[Engine(t)].destroying)
    /\ BodyGoto(t, "done")
    /\ UNCHANGED <<vars, engine, params, snap, gui, view, moves, failures, flushed>>

BodyStep(t) ==
    \/ BodyCall(t) \/ BodyEnter(t) \/ BodyLock(t) \/ BodyProcess(t) \/ BodyPublish(t)
    \/ BodyRedraw(t) \/ BodyReturn(t)

\* Disposing of a job releases its engine; the drain of a shutdown does, too.
DisposeJob(t) ==
    /\ Dispose(t)
    /\ Unref({cur[t]})
    /\ UNCHANGED <<snap, gui, body, view, redraw, moves, failures, flushed, fault>>

DrainJobs ==
    /\ DrainDispose
    /\ Unref(doomed)
    /\ UNCHANGED <<snap, gui, body, view, redraw, moves, failures, flushed, fault>>

----------------------------------------------------------------------------
(* The GUI thread.  It is busy while it submits a job or shuts down.       *)

GuiAt(at) == gui.pc = at /\ pc[GUI] = "idle"
Up == main \in {"up", "quit"}

\* The user pans or zooms; the darkroom redraws its centre.  Moves without a
\* snapshot are of no interest here.
Move ==
    /\ GuiAt("idle") /\ Up /\ snap # NULL /\ moves < MaxMoves
    /\ moves' = moves + 1
    /\ view' \in Views \ {view}
    /\ redraw' = TRUE
    /\ UNCHANGED <<vars, engine, params, snap, gui, body, failures, flushed, fault>>

\* dt_dev_snapshot_capture() clears the snapshot first.
Capture ==
    /\ GuiAt("idle") /\ Up
    /\ \E e \in Engines : engine[e] = NoEngine
    /\ gui' = [GuiIdle EXCEPT !.pc = IF snap = NULL THEN "capture" ELSE "clear", !.capture = TRUE]
    /\ UNCHANGED <<vars, engine, params, snap, body, view, redraw, moves, failures, flushed, fault>>

\* It renders the new engine before anybody else knows of it; a failure frees it.
CaptureRender ==
    /\ GuiAt("capture")
    /\ LET e == CHOOSE e \in Engines : engine[e] = NoEngine
       IN  \/ /\ engine' = [engine EXCEPT ![e] = [NoEngine EXCEPT
                                !.refs = 1, !.last = view, !.backbuf = view]]
              /\ snap' = e
              /\ redraw' = TRUE
              /\ UNCHANGED failures
           \/ /\ failures < MaxFailures
              /\ failures' = failures + 1
              /\ UNCHANGED <<engine, snap, redraw>>
    /\ gui' = GuiIdle
    /\ UNCHANGED <<vars, params, body, view, moves, flushed, fault>>

\* dt_dev_snapshot_clear(): by the user, before a capture, and by the cleanup of
\* the panel, which comes after the shutdown of the job system.
ClearBegin(c) ==
    /\ snap' = NULL
    /\ engine' = [engine EXCEPT ![snap].destroying = TRUE]
    /\ gui' = [gui EXCEPT !.pc = "readjob", !.engine = snap, !.capture = c]
    /\ UNCHANGED <<vars, params, body, view, redraw, moves, failures, flushed, fault>>

CaptureClear == GuiAt("clear") /\ ClearBegin(TRUE)
SnapClear == GuiAt("idle") /\ (Up \/ main = "cleanup") /\ snap # NULL /\ ClearBegin(FALSE)

\* The job is read under the lock ...
ClearRead ==
    /\ GuiAt("readjob")
    /\ gui' = [gui EXCEPT !.job = engine[gui.engine].job,
                          !.pc = IF engine[gui.engine].job = NULL THEN "unref" ELSE "cancel"]
    /\ UNCHANGED <<vars, engine, params, snap, body, view, redraw, moves, failures, flushed, fault>>

\* ... and cancelled without it, when it may have been disposed of.
ClearCancel ==
    /\ GuiAt("cancel")
    /\ \/ CancelJob(gui.job) /\ UNCHANGED fault
       \/ /\ ~Live(gui.job)
          /\ fault' = "job"
          /\ UNCHANGED vars
    /\ gui' = [gui EXCEPT !.pc = "unref", !.job = NULL]
    /\ UNCHANGED <<engine, params, snap, body, view, redraw, moves, failures, flushed>>

ClearUnref ==
    /\ GuiAt("unref")
    /\ engine' = [engine EXCEPT ![gui.engine].refs = @ - 1]
    /\ gui' = [GuiIdle EXCEPT !.pc = IF gui.capture THEN "capture" ELSE "idle",
                              !.capture = gui.capture]
    /\ UNCHANGED <<vars, params, snap, body, view, redraw, moves, failures, flushed, fault>>

\* dt_dev_snapshot_draw(): is the main tier what the viewport wants?
Draw ==
    /\ GuiAt("idle") /\ Up /\ redraw
    /\ redraw' = FALSE
    /\ gui' = IF snap # NULL /\ engine[snap].last # view
              THEN [gui EXCEPT !.pc = "schedule"] ELSE gui
    /\ UNCHANGED <<vars, engine, params, snap, body, view, moves, failures, flushed, fault>>

\* Mutant: a job is scheduled although one is in flight.
JobActiveIgnored == FALSE

JobActive == engine[snap].job # NULL

\* _schedule_main_recompute(): one job at a time, ...
ScheduleCheck ==
    /\ GuiAt("schedule")
    /\ IF JobActive
         THEN gui' = GuiIdle /\ UNCHANGED engine
         ELSE /\ gui' = [gui EXCEPT !.pc = "create"]
              /\ engine' = [engine EXCEPT ![snap].pending = view]
    /\ UNCHANGED <<vars, params, snap, body, view, redraw, moves, failures, flushed, fault>>

\* Mutant: the job borrows the engine without a reference.
JobRefsNone == 0

\* The job's own reference.
JobRefs == 1

\* ... which gets its reference before it is submitted.
ScheduleJob ==
    /\ GuiAt("create")
    /\ AddJob(GUI)
    /\ cur'[GUI] = CHOOSE j \in Jobs : state[j] = "UNBORN"
    /\ engine' = [engine EXCEPT ![snap].refs = @ + JobRefs, ![snap].job = cur'[GUI]]
    /\ params' = [params EXCEPT ![cur'[GUI]] = snap]
    /\ gui' = GuiIdle
    /\ UNCHANGED <<snap, body, view, redraw, moves, failures, flushed, fault>>

\* Bound: the darkroom is entered again once.
EnteredOnce == flushed = {}

\* Entering the darkroom again, with a snapshot kept from before.
Flushing ==
    /\ GuiAt("idle") /\ Up /\ snap # NULL /\ EnteredOnce
    /\ EnterDarkroom
    /\ flushed' = flushed \cup ({job[w] : w \in Workers} \ {NULL})
    /\ UNCHANGED <<engine, params, snap, gui, body, view, redraw, moves, failures, fault>>

GuiStep ==
    \/ CaptureRender \/ CaptureClear \/ ClearRead \/ ClearCancel \/ ClearUnref
    \/ Draw \/ ScheduleCheck \/ ScheduleJob

User == Move \/ Capture \/ Flushing \/ SnapClear

----------------------------------------------------------------------------
\* The steps of the job system that do not concern the snapshot.  The GUI
\* thread shuts down when it is idle, and cleans its panels up before
\* dt_control_cleanup().
JobSystemStep ==
    /\ \/ AddLocked(GUI) \/ Notify(GUI)
       \/ \E w \in Workers : \/ CheckRunning(w) \/ Sleep(w) \/ TestQueued(w)
                             \/ Schedule(w) \/ NothingToSchedule(w) \/ Clear(w)
       \/ KickerStep
       \/ GuiAt("idle") /\ (Quit \/ ShutdownStop)
       \/ ShutdownBroadcast \/ JoinKicker \/ JoinWorkers
       \/ (main = "cleanup" => GuiAt("idle") /\ snap = NULL) /\ Drain
    /\ UNCHANGED snapVars

\* After a use of freed memory the model stops.
SnapNext ==
    /\ fault = NULL
    /\ \/ JobSystemStep
       \/ \E t \in Threads : BodyStep(t) \/ DisposeJob(t)
       \/ DrainJobs
       \/ GuiStep \/ User

SnapSpec == SnapInit /\ [][SnapNext]_allVars

\* Every thread, every started call of the GUI and a started shutdown go on as
\* long as they can, and a pending redraw is carried out.
SnapFairness ==
    /\ WF_allVars(fault = NULL /\ GuiStep)
    /\ \A t \in Threads : WF_allVars(fault = NULL /\ (BodyStep(t) \/ DisposeJob(t)))
    /\ WF_allVars(fault = NULL /\ (AddLocked(GUI) \/ Notify(GUI)) /\ UNCHANGED snapVars)
    /\ \A w \in Workers : WF_allVars(
            /\ fault = NULL
            /\ \/ CheckRunning(w) \/ Sleep(w) \/ TestQueued(w)
               \/ Schedule(w) \/ NothingToSchedule(w) \/ Clear(w)
            /\ UNCHANGED snapVars)
    /\ WF_allVars(fault = NULL /\ KickerStep /\ UNCHANGED snapVars)

SnapFairSpec == SnapSpec /\ SnapFairness

----------------------------------------------------------------------------
(* Properties *)

\* Every variable has the type of the field or local variable it models.
SnapTypeOK ==
    /\ TypeOK
    /\ engine \in [Engines -> [refs : Nat, destroying : BOOLEAN,
                               job : Jobs \cup {NULL}, pending : Views \cup {NULL},
                               last : Views \cup {NULL}, backbuf : Views \cup {NULL}]]
    /\ params \in [Jobs -> Engines \cup {NULL}]
    /\ snap \in Engines \cup {NULL}
    /\ gui \in [pc : {"idle", "clear", "capture", "readjob", "cancel", "unref", "schedule", "create"},
                engine : Engines \cup {NULL}, job : Jobs \cup {NULL}, capture : BOOLEAN]
    /\ body \in [Threads -> [pc : {"none", "enter", "lock", "process", "publish", "redraw", "done"},
                              roi : Views \cup {NULL}, ok : BOOLEAN]]
    /\ view \in Views /\ redraw \in BOOLEAN
    /\ moves \in 0..MaxMoves /\ failures \in 0..MaxFailures
    /\ flushed \subseteq Jobs /\ fault \in {NULL, "engine", "job"}

\* "whichever happens last" frees the engine: its count is that of the snapshot
\* or the clear in progress and of the jobs not disposed of, nobody touches it
\* after it was freed, and none is left when the program has shut down.
EngineFreedLast ==
    /\ fault # "engine"
    /\ \A e \in Engines :
          engine[e].refs = Cardinality({j \in Jobs : params[j] = e /\ Live(j)})
                           + (IF e \in {snap, gui.engine} THEN 1 ELSE 0)
    /\ main = "done" /\ fault = NULL => \A e \in Engines : ~Allocated(e)

\* "never run two jobs concurrently on the same `pipe`": no two threads process
\* the pipe of one engine.
OneWriter ==
    \A s, t \in Threads :
        BodyAt(s, "process") /\ BodyAt(t, "process") /\ Engine(s) = Engine(t) => s = t

\* The job an engine of a snapshot remembers can still be cancelled: it has not
\* been disposed of, unless entering the darkroom cancelled it or the shutdown
\* drained it; then nobody resets the field.
JobFieldLive ==
    snap # NULL /\ engine[snap].job # NULL =>
        Live(engine[snap].job) \/ engine[snap].job \in flushed \cup drained

\* "A cancelled or superseded job must not touch the pipe": once the clear of a
\* snapshot has cancelled its job, no job begins to process its pipe.
NoRenderAfterClear ==
    [][\A t \in Threads : ~BodyAt(t, "process") /\ BodyAt(t, "process")' =>
          \/ ~engine[Engine(t)].destroying
          \/ gui.engine = Engine(t) /\ gui.pc \in {"readjob", "cancel"}]_allVars

\* A snapshot that is kept catches up with the viewport, however the moves, the
\* failures and the jobs interleave, unless the darkroom was entered meanwhile.
CatchesUp ==
    <>[](snap # NULL /\ flushed = {} /\ running /\ fault = NULL) =>
        []<>(snap # NULL /\ engine[snap].last = view)
============================================================================
