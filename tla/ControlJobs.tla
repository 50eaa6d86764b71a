---------------------------- MODULE ControlJobs ----------------------------
(***************************************************************************)
(* The job system of control/jobs.c and its start and stop in              *)
(* control/control.c.                                                      *)
(*                                                                         *)
(* Clients submit jobs to five queues (dt_control_add_job) or to the       *)
(* reserved slot of the darkroom (dt_control_add_job_res).  Workers pick   *)
(* the queue head of highest priority, run it and dispose of it.  A worker *)
(* that finds nothing sleeps on control->cond; the kicker thread wakes all *)
(* sleepers every two seconds.  Any holder of a job pointer may cancel the *)
(* job, and entering the darkroom flushes.                                 *)
(*                                                                         *)
(* One step is one critical section of queue_mutex, res_mutex, cond_mutex, *)
(* run_mutex or of a job's state_mutex.  A job is a model value allocated  *)
(* once: its params, callbacks and description are its Key, what           *)
(* dt_control_job_equal compares.  wait_mutex is left out: only            *)
(* dt_control_job_wait, which nothing calls, contends for it.              *)
(***************************************************************************)
EXTENDS Naturals, Sequences, FiniteSets, SequencesExt

CONSTANTS
    Jobs,          \* the jobs that may ever be allocated
    Key,           \* [Jobs -> anything]: execute, params, description
    WithProgress,  \* the jobs given a progress bar by dt_control_job_add_progress
    Workers,       \* the threads of dt_control_work
    Reserved,      \* the threads of dt_control_work_res (the code starts one)
    Clients,       \* the threads that submit jobs
    UserActions,   \* what this instance lets the user do: "cancel", "flush", "stop"
    Requests,      \* bound: the queue ids that clients submit to
    NULL,          \* no job
    DT_CONTROL_MAX_JOBS,      \* capacity of the SYSTEM_FG stack
    DT_CONTROL_FG_PRIORITY,   \* initial priority of foreground jobs
    PriorityMod    \* priority is an unsigned char: 256 values

ASSUME JobsAssumption ==
    /\ NULL \notin Jobs
    /\ WithProgress \subseteq Jobs
    /\ Workers \cap Clients = {} /\ Workers \cap Reserved = {} /\ Reserved \cap Clients = {}
    /\ Requests \subseteq Nat
    /\ DT_CONTROL_MAX_JOBS \in Nat \ {0}
    /\ PriorityMod \in Nat \ {0}
    /\ DT_CONTROL_FG_PRIORITY \in 0..(PriorityMod - 1)

DT_JOB_QUEUE_USER_FG == 0
DT_JOB_QUEUE_SYSTEM_FG == 1
DT_JOB_QUEUE_USER_BG == 2
DT_JOB_QUEUE_USER_EXPORT == 3
DT_JOB_QUEUE_SYSTEM_BG == 4
DT_JOB_QUEUE_MAX == 5
Queues == 0..(DT_JOB_QUEUE_MAX - 1)

States == {"UNBORN", "INITIALIZED", "QUEUED", "RUNNING", "FINISHED",
           "CANCELLED", "DISCARDED", "DISPOSED"}

\* state >= DT_JOB_STATE_FINISHED, in the order of dt_job_state_t
AtLeastFinished == {"FINISHED", "CANCELLED", "DISCARDED", "DISPOSED"}

VARIABLES
    state, priority, queue,   \* the fields of _dt_job_t
    progress,      \* the jobs whose progress pointer is not NULL
    queues,        \* control->queues
    queue_length,  \* control->queue_length
    job,           \* control->job: what each worker has scheduled
    export_scheduled,
    job_res, new_res,
    running,
    pc,            \* where each client and each worker is
    cur,           \* its local variable job (job_for_disposal in add_job)
    request,       \* a client's queue_id
    kicker,        \* where dt_control_worker_kicker is
    main,          \* where the thread that quits and shuts down is
    doomed,        \* the jobs dt_control_jobs_drain has detached
    executed,      \* history: the jobs whose execute callback was called
    refused,       \* history: cancelled before being started, or dropped by add_job
    drained        \* history: the jobs dt_control_jobs_drain has disposed of

jobVars == <<state, priority, queue, progress>>
queueVars == <<queues, queue_length, job, export_scheduled>>
resVars == <<job_res, new_res>>
threadVars == <<pc, cur, request>>
stopVars == <<running, kicker, main, doomed, drained>>
history == <<executed, refused>>
vars == <<jobVars, queueVars, resVars, threadVars, stopVars, history>>

Threads == Clients \cup Workers \cup Reserved

Init ==
    /\ state = [j \in Jobs |-> "UNBORN"]
    /\ priority = [j \in Jobs |-> 0]
    /\ queue = [j \in Jobs |-> 0]
    /\ progress = {}
    /\ queues = [q \in Queues |-> <<>>]
    /\ queue_length = [q \in Queues |-> 0]
    /\ job = [w \in Workers |-> NULL]
    /\ export_scheduled = FALSE
    /\ job_res = [r \in Reserved |-> NULL]
    /\ new_res = [r \in Reserved |-> FALSE]
    /\ running = TRUE
    /\ pc = [t \in Threads |-> IF t \in Clients THEN "idle" ELSE "check"]
    /\ cur = [t \in Threads |-> NULL]
    /\ request = [c \in Clients |-> 0]
    /\ kicker = "check"
    /\ main = "up"
    /\ doomed = {}
    /\ executed = {}
    /\ refused = {}
    /\ drained = {}

----------------------------------------------------------------------------
(* Helpers *)

dt_control_job_equal(j1, j2) ==
    /\ j1 # NULL
    /\ j2 # NULL
    /\ Key[j1] = Key[j2]
    /\ queue[j1] = queue[j2]

\* dt_control_job_set_state: the bar of a job that was not running goes away.
set_state(j, s) ==
    /\ state' = [state EXCEPT ![j] = s]
    /\ progress' = IF s \in AtLeastFinished /\ state[j] # "RUNNING"
                   THEN progress \ {j} ELSE progress

\* dt_control_job_dispose of every job of a set.
dispose(S) ==
    /\ state' = [j \in Jobs |-> IF j \in S THEN "DISPOSED" ELSE state[j]]
    /\ progress' = progress \ S

\* pthread_cond_broadcast: every thread that waits on control->cond wakes up.
Broadcast == [t \in Threads |-> IF pc[t] = "wait" THEN "check" ELSE pc[t]]

Goto(t, label) == pc' = [pc EXCEPT ![t] = label]

----------------------------------------------------------------------------
(* Clients: dt_control_add_job *)

\* The caller creates a job and calls dt_control_add_job, which reads
\* control->running without its mutex.  An unknown queue drops the job.
AddJob(c) ==
    \E j \in Jobs, q \in Requests :
        /\ pc[c] = "idle"
        /\ state[j] = "UNBORN"
        /\ state' = [state EXCEPT ![j] = "INITIALIZED"]
        /\ progress' = progress \cup ({j} \cap WithProgress)
        /\ cur' = [cur EXCEPT ![c] = j]
        /\ request' = [request EXCEPT ![c] = q]
        /\ Goto(c, CASE q \notin Queues -> "dispose"
                     [] q \in Queues /\ running -> "add"
                     [] OTHER -> "syncstart")
        /\ queue' = IF q \in Queues /\ running
                    THEN [queue EXCEPT ![j] = q] ELSE queue
        /\ refused' = IF q \in Queues THEN refused ELSE refused \cup {j}
        /\ UNCHANGED <<priority, queueVars, resVars, stopVars, executed>>

\* The system is not running: the job is executed by its submitter.
SyncStart(c) ==
    /\ pc[c] = "syncstart"
    /\ set_state(cur[c], "RUNNING")
    /\ executed' = executed \cup {cur[c]}
    /\ Goto(c, "syncexec")
    /\ UNCHANGED <<priority, queue, queueVars, resVars, cur, request, stopVars, refused>>

SyncFinish(c) ==
    /\ pc[c] = "syncexec"
    /\ set_state(cur[c], "FINISHED")
    /\ Goto(c, "dispose")
    /\ UNCHANGED <<priority, queue, queueVars, resVars, cur, request, stopVars, history>>

\* Mutant: a job that runs already is queued again.
AlreadyScheduledIgnored(j) == FALSE

\* An equal job is already scheduled on a worker.
AlreadyScheduled(j) == \E w \in Workers : dt_control_job_equal(j, job[w])

\* The position of the first job of the list that is equal to j, 0 if there is none.
FirstEqual(j, list) == SelectInSeq(list, LAMBDA k : dt_control_job_equal(j, k))

\* Mutant: the length counter also counts a job that was only moved up.
AddToStackMiscount(c, j) ==
    LET q == DT_JOB_QUEUE_SYSTEM_FG
        old == queues[q]
        pos == FirstEqual(j, old)
        dup == pos # 0
        rest == IF dup THEN RemoveAt(old, pos) ELSE old
        top == IF dup THEN old[pos] ELSE j
    IN  /\ queues' = [queues EXCEPT ![q] = <<top>> \o rest]
        /\ queue_length' = [queue_length EXCEPT ![q] = @ + 1]
        /\ state' = [state EXCEPT ![top] = "QUEUED"]
        /\ refused' = (refused \cup (IF dup THEN {j} ELSE {})) \ {top}
        /\ cur' = [cur EXCEPT ![c] = IF dup THEN j ELSE NULL]
        /\ Goto(c, "notify")
        /\ UNCHANGED progress

\* The stack of SYSTEM_FG under queue_mutex: bubble an equal queued job up, else
\* push the new one; then drop the last job if the stack is too long.
AddToStack(c, j) ==
    LET q == DT_JOB_QUEUE_SYSTEM_FG
        old == queues[q]
        pos == FirstEqual(j, old)
        dup == pos # 0
        rest == IF dup THEN RemoveAt(old, pos) ELSE old
        top == IF dup THEN old[pos] ELSE j
        length == queue_length[q] + (IF dup THEN 0 ELSE 1)
        stack == <<top>> \o rest
        full == length > DT_CONTROL_MAX_JOBS
        last == Last(stack)
    IN  /\ queues' = [queues EXCEPT ![q] =
                        IF full THEN Front(stack) ELSE stack]
        /\ queue_length' = [queue_length EXCEPT ![q] = IF full THEN length - 1 ELSE length]
        /\ state' = [i \in Jobs |-> CASE i = top -> "QUEUED"
                                      [] full /\ i = last -> "DISPOSED"
                                      [] OTHER -> state[i]]
        /\ progress' = IF full THEN progress \ {last} ELSE progress
        /\ refused' = (refused \cup (IF full THEN {last} ELSE {})
                               \cup (IF dup THEN {j} ELSE {})) \ {top}
        /\ cur' = [cur EXCEPT ![c] = IF dup THEN j ELSE NULL]
        /\ Goto(c, "notify")

\* The other queues are FIFOs.
AddToFifo(c, j, q) ==
    /\ queues' = [queues EXCEPT ![q] = Append(@, j)]
    /\ queue_length' = [queue_length EXCEPT ![q] = @ + 1]
    /\ set_state(j, "QUEUED")
    /\ cur' = [cur EXCEPT ![c] = NULL]
    /\ Goto(c, "notify")
    /\ UNCHANGED refused

InitialPriority(q) ==
    IF q \in {DT_JOB_QUEUE_USER_BG, DT_JOB_QUEUE_USER_EXPORT, DT_JOB_QUEUE_SYSTEM_BG}
    THEN 0 ELSE DT_CONTROL_FG_PRIORITY

\* The critical section of queue_mutex in dt_control_add_job.
AddLocked(c) ==
    LET j == cur[c]
        q == request[c]
    IN  /\ pc[c] = "add"
        /\ priority' = [priority EXCEPT ![j] = InitialPriority(q)]
        /\ \/ /\ q = DT_JOB_QUEUE_SYSTEM_FG /\ AlreadyScheduled(j)
              /\ refused' = refused \cup {j}
              /\ Goto(c, "discard")
              /\ UNCHANGED <<state, progress, queues, queue_length, cur>>
           \/ /\ q = DT_JOB_QUEUE_SYSTEM_FG /\ ~AlreadyScheduled(j)
              /\ AddToStack(c, j)
           \/ /\ q # DT_JOB_QUEUE_SYSTEM_FG
              /\ AddToFifo(c, j, q)
        /\ UNCHANGED <<queue, job, export_scheduled, resVars, request, stopVars, executed>>

\* Wake the workers, then get rid of the dropped job if there is one.
Notify(c) ==
    /\ pc[c] = "notify"
    /\ pc' = [Broadcast EXCEPT ![c] = IF cur[c] = NULL THEN "idle" ELSE "discard"]
    /\ UNCHANGED <<jobVars, queueVars, resVars, cur, request, stopVars, history>>

Discard(c) ==
    /\ pc[c] = "discard"
    /\ set_state(cur[c], "DISCARDED")
    /\ Goto(c, "dispose")
    /\ UNCHANGED <<priority, queue, queueVars, resVars, cur, request, stopVars, history>>

\* Mutant: the caller keeps its pointer to the job it disposed of.
DisposeKeepsPointer(t) ==
    /\ pc[t] = "dispose"
    /\ dispose({cur[t]})
    /\ Goto(t, IF t \in Clients THEN "idle" ELSE "check")
    /\ UNCHANGED <<priority, queue, queueVars, resVars, cur, request, stopVars, history>>

\* dt_control_job_dispose, by a client and at the end of dt_control_run_job(_res).
Dispose(t) ==
    /\ pc[t] = "dispose"
    /\ dispose({cur[t]})
    /\ cur' = [cur EXCEPT ![t] = NULL]
    /\ Goto(t, IF t \in Clients THEN "idle" ELSE "check")
    /\ UNCHANGED <<priority, queue, queueVars, resVars, request, stopVars, history>>

\* dt_control_add_job_res: the job still in the slot is discarded and replaced.
AddJobRes(c) ==
    \E j \in Jobs, r \in Reserved :
        LET old == {job_res[r]} \ {NULL}
        IN  /\ pc[c] = "idle"
            /\ state[j] = "UNBORN"
            /\ state' = [i \in Jobs |-> CASE i = j -> "QUEUED"
                                          [] i \in old -> "DISPOSED"
                                          [] OTHER -> state[i]]
            /\ progress' = progress \ old
            /\ refused' = refused \cup old
            /\ job_res' = [job_res EXCEPT ![r] = j]
            /\ new_res' = [new_res EXCEPT ![r] = TRUE]
            /\ Goto(c, "notify")
            /\ UNCHANGED <<priority, queue, queueVars, cur, request, stopVars, executed>>

----------------------------------------------------------------------------
(* Cancelling and flushing *)

Live(j) == state[j] \notin {"UNBORN", "DISPOSED"}

\* dt_control_job_cancel ...
CancelJob(j) ==
    /\ Live(j)
    /\ set_state(j, "CANCELLED")
    /\ refused' = IF state[j] = "QUEUED" THEN refused \cup {j} ELSE refused
    /\ UNCHANGED <<priority, queue, queueVars, resVars, threadVars, stopVars, executed>>

\* ... by any holder of a valid pointer.
Cancel == "cancel" \in UserActions /\ \E j \in Jobs : CancelJob(j)

\* dt_control_flush_jobs_queue: cancels what the workers have scheduled.
Flush(queue_id) ==
    LET hit == {job[w] : w \in Workers} \ {NULL}
    IN  /\ hit # {}
        /\ state' = [j \in Jobs |-> IF j \in hit THEN "CANCELLED" ELSE state[j]]
        /\ progress' = progress \ {j \in hit : state[j] # "RUNNING"}
        /\ refused' = refused \cup {j \in hit : state[j] = "QUEUED"}
        /\ UNCHANGED <<priority, queue, queueVars, resVars, threadVars, stopVars, executed>>

\* views/darkroom.c enter() flushes the thumbnails' queue.
EnterDarkroom == "flush" \in UserActions /\ Flush(DT_JOB_QUEUE_SYSTEM_FG)
----------------------------------------------------------------------------
(* Workers: dt_control_work and dt_control_work_res *)

WorkerThreads == Workers \cup Reserved

\* while(dt_control_running())
CheckRunning(t) ==
    /\ pc[t] = "check"
    /\ Goto(t, IF running THEN "pick" ELSE "exit")
    /\ UNCHANGED <<jobVars, queueVars, resVars, cur, request, stopVars, history>>

\* Mutant: an export is scheduled next to another one.
CandidatesAnyExport == {q \in Queues : queues[q] # <<>>}

\* The queues whose head may be scheduled: one export at a time.
Candidates ==
    {q \in Queues : /\ queues[q] # <<>>
                    /\ ~(export_scheduled /\ q = DT_JOB_QUEUE_USER_EXPORT)}

\* The first queue, in the order of the enum, whose head has the highest priority.
IsWinner(q) ==
    /\ q \in Candidates
    /\ \A r \in Candidates \ {q} :
         LET pq == priority[Head(queues[q])]
             pr == priority[Head(queues[r])]
         IN  pr < pq \/ (pr = pq /\ q < r)

\* Mutant: the priority is wider than an unsigned char.
AgedUnbounded(p) == p + 1

\* priority++ on an unsigned char
Aged(p) == (p + 1) % PriorityMod

\* dt_control_schedule_job: take the winner; every other queue head ages by one.
Schedule(w) ==
    /\ pc[w] = "pick"
    /\ \E q \in Queues :
        /\ IsWinner(q)
        /\ LET j == Head(queues[q])
               aged == {Head(queues[r]) : r \in {r \in Queues \ {q} : queues[r] # <<>>}}
           IN  /\ queues' = [queues EXCEPT ![q] = Tail(@)]
               /\ queue_length' = [queue_length EXCEPT ![q] = @ - 1]
               /\ export_scheduled' = (export_scheduled \/ q = DT_JOB_QUEUE_USER_EXPORT)
               /\ job' = [job EXCEPT ![w] = j]
               /\ priority' = [i \in Jobs |-> IF i \in aged
                                              THEN Aged(priority[i])
                                              ELSE priority[i]]
               /\ cur' = [cur EXCEPT ![w] = j]
               /\ Goto(w, "test")
    /\ UNCHANGED <<state, queue, progress, resVars, request, stopVars, history>>

\* Nothing to schedule: dt_control_run_job returns -1.
NothingToSchedule(w) ==
    /\ pc[w] = "pick"
    /\ Candidates = {}
    /\ Goto(w, "sleep")
    /\ UNCHANGED <<jobVars, queueVars, resVars, cur, request, stopVars, history>>

\* dt_control_run_job_res takes the job out of the reserved slot, if it is new.
TakeReserved(r) ==
    /\ pc[r] = "pick"
    /\ cur' = [cur EXCEPT ![r] = IF new_res[r] THEN job_res[r] ELSE NULL]
    /\ job_res' = [job_res EXCEPT ![r] = IF new_res[r] THEN NULL ELSE @]
    /\ new_res' = [new_res EXCEPT ![r] = FALSE]
    /\ Goto(r, IF cur'[r] = NULL THEN "sleep" ELSE "test")
    /\ UNCHANGED <<jobVars, queueVars, request, stopVars, history>>

\* The worker takes cond_mutex and waits, whatever was queued since it looked.
Sleep(t) ==
    /\ pc[t] = "sleep"
    /\ Goto(t, "wait")
    /\ UNCHANGED <<jobVars, queueVars, resVars, cur, request, stopVars, history>>

\* Mutant: a job is taken to be cancelled whenever a shutdown has begun.
TestQueuedWhileRunning(t) ==
    /\ pc[t] = "test"
    /\ Goto(t, IF state[cur[t]] = "QUEUED" /\ running THEN "start"
               ELSE IF t \in Reserved THEN "dispose" ELSE "clear")
    /\ UNCHANGED <<jobVars, queueVars, resVars, cur, request, stopVars, history>>

\* The state is read, and only then set to RUNNING: two critical sections.
TestQueued(t) ==
    /\ pc[t] = "test"
    /\ Goto(t, IF state[cur[t]] = "QUEUED" THEN "start"
               ELSE IF t \in Reserved THEN "dispose" ELSE "clear")
    /\ UNCHANGED <<jobVars, queueVars, resVars, cur, request, stopVars, history>>

Start(t) ==
    /\ pc[t] = "start"
    /\ set_state(cur[t], "RUNNING")
    /\ executed' = executed \cup {cur[t]}
    /\ Goto(t, "exec")
    /\ UNCHANGED <<priority, queue, queueVars, resVars, cur, request, stopVars, refused>>

\* Mutant: an execution that was cancelled midway is tried again.
FinishRequeues(t) ==
    /\ pc[t] = "exec"
    /\ set_state(cur[t], "FINISHED")
    /\ Goto(t, IF state[cur[t]] = "CANCELLED" THEN "start" ELSE "clear")
    /\ UNCHANGED <<priority, queue, queueVars, resVars, cur, request, stopVars, history>>

Finish(t) ==
    /\ pc[t] = "exec"
    /\ set_state(cur[t], "FINISHED")
    /\ Goto(t, IF t \in Reserved THEN "dispose" ELSE "clear")
    /\ UNCHANGED <<priority, queue, queueVars, resVars, cur, request, stopVars, history>>

\* The job leaves the scheduled array, and an export lets the next one in.
Clear(w) ==
    /\ pc[w] = "clear"
    /\ job' = [job EXCEPT ![w] = NULL]
    /\ export_scheduled' = (export_scheduled /\ queue[cur[w]] # DT_JOB_QUEUE_USER_EXPORT)
    /\ Goto(w, "dispose")
    /\ UNCHANGED <<jobVars, queues, queue_length, resVars, cur, request, stopVars, history>>

\* dt_control_worker_kicker: sleep(2), then wake everyone, while running.
KickerCheck ==
    /\ kicker = "check"
    /\ kicker' = IF running THEN "kick" ELSE "exit"
    /\ UNCHANGED <<jobVars, queueVars, resVars, threadVars, running, main, doomed, drained, history>>

\* Mutant: the kicker only signals its own queue, no worker wakes up.
KickNobody ==
    /\ kicker = "kick"
    /\ kicker' = "check"
    /\ UNCHANGED <<jobVars, queueVars, resVars, threadVars, running, main, doomed, drained, history>>

Kick ==
    /\ kicker = "kick"
    /\ kicker' = "check"
    /\ pc' = Broadcast
    /\ UNCHANGED <<jobVars, queueVars, resVars, cur, request, running, main, doomed, drained, history>>

----------------------------------------------------------------------------
(* Quit, shutdown and cleanup (control/control.c) *)

\* dt_control_quit stops the system without waking anyone.
Quit ==
    /\ "stop" \in UserActions
    /\ main = "up"
    /\ running' = FALSE
    /\ main' = "quit"
    /\ UNCHANGED <<jobVars, queueVars, resVars, threadVars, kicker, doomed, drained, history>>

\* dt_control_shutdown, one thread join after the other.
ShutdownStop ==
    /\ "stop" \in UserActions
    /\ main \in {"up", "quit"}
    /\ running' = FALSE
    /\ main' = "broadcast"
    /\ UNCHANGED <<jobVars, queueVars, resVars, threadVars, kicker, doomed, drained, history>>

ShutdownBroadcast ==
    /\ main = "broadcast"
    /\ pc' = Broadcast
    /\ main' = "joinKicker"
    /\ UNCHANGED <<jobVars, queueVars, resVars, cur, request, running, kicker, doomed, drained, history>>

JoinKicker ==
    /\ main = "joinKicker"
    /\ kicker = "exit"
    /\ main' = "joinWorkers"
    /\ UNCHANGED <<jobVars, queueVars, resVars, threadVars, running, kicker, doomed, drained, history>>

JoinWorkers ==
    /\ main = "joinWorkers"
    /\ \A t \in WorkerThreads : pc[t] = "exit"
    /\ main' = "drain"
    /\ UNCHANGED <<jobVars, queueVars, resVars, threadVars, running, kicker, doomed, drained, history>>

QueuedJobs == UNION {ToSet(queues[q]) : q \in Queues}

\* dt_control_jobs_drain: detach under queue_mutex, by shutdown and again by
\* dt_control_cleanup, then dispose of what was detached with no lock held.
Drain ==
    /\ main \in {"drain", "cleanup"}
    /\ doomed' = QueuedJobs
    /\ queues' = [q \in Queues |-> <<>>]
    /\ queue_length' = [q \in Queues |-> 0]
    /\ export_scheduled' = FALSE
    /\ main' = IF main = "drain" THEN "dispose" ELSE "disposeAgain"
    /\ UNCHANGED <<jobVars, job, resVars, threadVars, running, kicker, drained, history>>

DrainDispose ==
    /\ main \in {"dispose", "disposeAgain"}
    /\ dispose(doomed)
    /\ drained' = drained \cup doomed
    /\ doomed' = {}
    /\ main' = IF main = "dispose" THEN "cleanup" ELSE "done"
    /\ UNCHANGED <<priority, queue, queueVars, resVars, threadVars, running, kicker, history>>

----------------------------------------------------------------------------
Submit(c) == AddJob(c) \/ AddJobRes(c)

ClientStep(c) ==
    SyncStart(c) \/ SyncFinish(c) \/ AddLocked(c) \/ Notify(c) \/ Discard(c) \/ Dispose(c)

WorkerStep(t) ==
    \/ CheckRunning(t) \/ Sleep(t) \/ TestQueued(t) \/ Start(t) \/ Finish(t) \/ Dispose(t)
    \/ t \in Workers /\ (Schedule(t) \/ NothingToSchedule(t) \/ Clear(t))
    \/ t \in Reserved /\ TakeReserved(t)

KickerStep == KickerCheck \/ Kick

Shutdown ==
    ShutdownBroadcast \/ JoinKicker \/ JoinWorkers \/ Drain \/ DrainDispose

Next ==
    \/ \E c \in Clients : Submit(c) \/ ClientStep(c)
    \/ \E t \in WorkerThreads : WorkerStep(t)
    \/ KickerStep
    \/ Cancel
    \/ EnterDarkroom
    \/ Quit
    \/ ShutdownStop
    \/ Shutdown

Spec == Init /\ [][Next]_vars

\* Every started call, every thread and a started shutdown go on as long as they
\* can; whether anything is submitted, cancelled or stopped is up to the user.
Fairness ==
    /\ \A c \in Clients : WF_vars(ClientStep(c))
    /\ \A t \in WorkerThreads : WF_vars(WorkerStep(t))
    /\ WF_vars(KickerStep)
    /\ WF_vars(Shutdown)

FairSpec == Spec /\ Fairness

----------------------------------------------------------------------------
(* Properties *)

\* Every variable has the type of the field or local variable it models.
TypeOK ==
    /\ state \in [Jobs -> States]
    /\ priority \in [Jobs -> 0..(PriorityMod - 1)]
    /\ queue \in [Jobs -> Queues]
    /\ progress \subseteq Jobs
    /\ queues \in [Queues -> Seq(Jobs)]
    /\ queue_length \in [Queues -> Nat]
    /\ job \in [Workers -> Jobs \cup {NULL}]
    /\ export_scheduled \in BOOLEAN
    /\ job_res \in [Reserved -> Jobs \cup {NULL}]
    /\ new_res \in [Reserved -> BOOLEAN]
    /\ running \in BOOLEAN
    /\ pc \in [Threads -> {"idle", "add", "syncstart", "syncexec", "notify", "discard",
                           "dispose", "check", "pick", "sleep", "wait", "test", "start",
                           "exec", "clear", "exit"}]
    /\ cur \in [Threads -> Jobs \cup {NULL}]
    /\ request \in [Clients -> Nat]
    /\ kicker \in {"check", "kick", "exit"}
    /\ main \in {"up", "quit", "broadcast", "joinKicker", "joinWorkers", "drain",
                 "dispose", "cleanup", "disposeAgain", "done"}
    /\ doomed \subseteq Jobs
    /\ executed \subseteq Jobs
    /\ refused \subseteq Jobs
    /\ drained \subseteq Jobs

\* The number of places that hold a pointer they will run or dispose of.
Owners(j) ==
    Cardinality(UNION {{<<q, i>> : i \in {i \in DOMAIN queues[q] : queues[q][i] = j}} : q \in Queues})
    + Cardinality({t \in Threads : cur[t] = j})
    + Cardinality({r \in Reserved : job_res[r] = j})
    + (IF j \in doomed THEN 1 ELSE 0)

\* jobs.c frees each job exactly once and never loses one: a live job is in one
\* queue, or in the reserved slot, or held by one thread; a disposed job is held
\* by nobody, nor does it leave a progress bar.
OneOwner ==
    /\ \A j \in Jobs : Owners(j) = IF Live(j) THEN 1 ELSE 0
    /\ progress \subseteq {j \in Jobs : Live(j)}

\* "only one of these jobs will ever be scheduled at a time" (jobs.h, the export
\* queue): no two workers hold an export.
OneExport ==
    \A v, w \in Workers :
        /\ job[v] # NULL /\ queue[job[v]] = DT_JOB_QUEUE_USER_EXPORT
        /\ job[w] # NULL /\ queue[job[w]] = DT_JOB_QUEUE_USER_EXPORT
        => v = w

\* "there can't be any further copy" (dt_control_add_job): among the jobs on the
\* SYSTEM_FG stack and those scheduled from it, no two are equal.
NoDuplicateThumbnail ==
    LET stacked == ToSet(queues[DT_JOB_QUEUE_SYSTEM_FG])
        scheduled == {job[w] : w \in Workers} \ {NULL}
    IN  \A j, k \in stacked \cup {i \in scheduled : queue[i] = DT_JOB_QUEUE_SYSTEM_FG} :
            Key[j] = Key[k] => j = k

\* The length the code keeps beside each list is the list's, and the stack never
\* holds more than DT_CONTROL_MAX_JOBS.
LengthIsExact ==
    /\ \A q \in Queues : queue_length[q] = Len(queues[q])
    /\ queue_length[DT_JOB_QUEUE_SYSTEM_FG] <= DT_CONTROL_MAX_JOBS

\* No submitted job is disposed of unless it was executed, was cancelled before it
\* started, was refused or pushed out by add_job, or was drained at shutdown.
NoSilentLoss ==
    \A j \in Jobs : state[j] = "DISPOSED" => j \in executed \cup refused \cup drained

\* A job's execute callback is called at most once.
ExecuteOnce ==
    [][\A j \in Jobs : state[j] # "RUNNING" /\ state'[j] = "RUNNING" => j \notin executed]_vars

\* While the system runs, a queued job is eventually taken care of, although a worker
\* that found nothing may go to sleep after the broadcast that announced the job: the
\* kicker makes up for the lost wake-up.
EveryJobServed ==
    \A j \in Jobs : (state[j] = "QUEUED") ~> (state[j] = "DISPOSED" \/ ~running)

\* dt_control_shutdown joins its threads and returns.
ShutdownReturns == (main = "broadcast") ~> (main = "done")
============================================================================
