------------------------- MODULE ControlJobsProofs -------------------------
(***************************************************************************)
(* For any number of jobs, workers, reserved workers and clients: the      *)
(* types of ControlJobs, "only one of these jobs will ever be scheduled at *)
(* a time" for the export queue, and the ownership of jobs: every job has  *)
(* one owner, none is lost without a word, no copy of a queued thumbnail   *)
(* is queued, and none runs twice.                                         *)
(*                                                                         *)
(* OneExport is not inductive.  It rests on the flag export_scheduled      *)
(* covering every scheduled export, on queue[j] being the queue that holds *)
(* j (so a job scheduled from another queue is no export), on a job field  *)
(* never being rewritten once the job can be reached from a queue or a     *)
(* worker (only UNBORN jobs are assigned a queue), and on the drain, which *)
(* resets the flag, running when no worker holds a job any more.           *)
(*                                                                         *)
(* The second half is about the snapshots of DevSnapshot, which are built  *)
(* on the job system and inherit the ownership of jobs.  The theorems      *)
(* about Spec use nothing of it: neither its assumption nor OneClient.     *)
(***************************************************************************)
EXTENDS DevSnapshot, TLAPS, FiniteSetTheorems, SequenceTheorems, WellFoundedInduction

\* Where a worker of dt_control_work has a job in control->job.
Holding == {"test", "start", "exec", "clear"}

\* A client inside dt_control_add_job has set the queue of its job.
AddCallOK ==
    \A c \in Clients : pc[c] = "add" =>
        /\ cur[c] \in Jobs
        /\ request[c] \in Queues
        /\ queue[cur[c]] = request[c]
        /\ state[cur[c]] # "UNBORN"

\* Where a thread goes on to use its local variable job.
Busy == Holding \cup {"add", "syncstart", "syncexec", "discard", "dispose"}

\* It is not NULL there.
CurOK == \A t \in Threads : pc[t] \in Busy => cur[t] \in Jobs

\* control->job[w] is the job that worker w is busy with.
HeldOK ==
    \A w \in Workers :
        /\ pc[w] \in Holding => job[w] # NULL
        /\ job[w] # NULL => pc[w] \in Holding /\ job[w] = cur[w] /\ state[job[w]] # "UNBORN"

\* A queued job carries the number of its queue.
QueuesOK ==
    \A q \in Queues : \A i \in DOMAIN queues[q] :
        queue[queues[q][i]] = q /\ state[queues[q][i]] # "UNBORN"

\* The queues are drained after the workers have been joined.
StoppedOK ==
    main \in {"drain", "dispose", "cleanup", "disposeAgain", "done"} =>
        \A w \in Workers : pc[w] = "exit"

\* Every scheduled export is announced by the flag.
FlagOK ==
    \A w \in Workers :
        job[w] # NULL /\ queue[job[w]] = DT_JOB_QUEUE_USER_EXPORT => export_scheduled

IInv ==
    /\ TypeOK
    /\ CurOK
    /\ AddCallOK
    /\ HeldOK
    /\ QueuesOK
    /\ StoppedOK
    /\ FlagOK
    /\ OneExport
    /\ LengthIsExact

----------------------------------------------------------------------------
(* Sequences *)

\* A nonempty set of naturals has its minimum in it.
LEMMA MinInSet ==
    ASSUME NEW S \in SUBSET Nat, S # {}
    PROVE  Min(S) \in S
  <1>1. \E R : IsWellFoundedOn(R, Nat) /\ \A x, y \in Nat : <<y, x>> \in R <=> y < x
    <2>1. \A x, y \in Nat : <<y, x>> \in OpToRel(<, Nat) <=> y < x
      BY DEF OpToRel
    <2> QED
      BY <2>1, NatLessThanWellFounded, Zenon
  <1>2. PICK R : IsWellFoundedOn(R, Nat) /\ \A x, y \in Nat : <<y, x>> \in R <=> y < x
    BY <1>1, Zenon
  <1>3. PICK x \in S : \A y \in S : ~ (<<y, x>> \in R)
    BY <1>2, WFMin, Zenon
  <1>4. x \in Nat /\ \A y \in S : y \in Nat /\ ~(y < x)
    BY <1>2, <1>3, Zenon
  <1>5. \A y \in S : x =< y
    BY <1>4
  <1> QED
    BY <1>5 DEF Min

\* The position FirstEqual returns is 0 or a position of the list.
LEMMA FirstEqualPosition ==
    ASSUME NEW S, NEW list \in Seq(S), NEW j, FirstEqual(j, list) # 0
    PROVE  FirstEqual(j, list) \in DOMAIN list
  <1> DEFINE I == {i \in 1..Len(list) : dt_control_job_equal(j, list[i])}
  <1>1. FirstEqual(j, list) = IF I # {} THEN Min(I) ELSE 0
    BY DEF FirstEqual, SelectInSeq
  <1>2. I \in SUBSET Nat /\ I \subseteq DOMAIN list
    OBVIOUS
  <1> HIDE DEF I
  <1> QED
    BY <1>1, <1>2, MinInSet

\* Removing an element leaves a sequence over the same set, whose elements were there.
LEMMA RemoveAtElements ==
    ASSUME NEW S, NEW s \in Seq(S), NEW i \in DOMAIN s
    PROVE  /\ RemoveAt(s, i) \in Seq(S)
           /\ Len(RemoveAt(s, i)) = Len(s) - 1
           /\ \A k \in DOMAIN RemoveAt(s, i) : \E l \in DOMAIN s : RemoveAt(s, i)[k] = s[l]
  <1> DEFINE a == SubSeq(s, 1, i - 1)
  <1> DEFINE b == SubSeq(s, i + 1, Len(s))
  <1>1. i \in 1..Len(s) /\ Len(s) \in Nat
    OBVIOUS
  <1>2. /\ a \in Seq(S) /\ Len(a) = i - 1
        /\ \A k \in 1..Len(a) : a[k] = s[k]
    BY <1>1
  <1>3. /\ b \in Seq(S) /\ Len(b) = Len(s) - i
        /\ \A k \in 1..Len(b) : b[k] = s[k + i]
    BY <1>1
  <1> HIDE DEF a, b
  <1>4. RemoveAt(s, i) = a \o b
    BY DEF RemoveAt, a, b
  <1>5. /\ a \o b \in Seq(S)
        /\ Len(a \o b) = Len(a) + Len(b)
        /\ \A k \in 1..(Len(a) + Len(b)) :
             (a \o b)[k] = IF k <= Len(a) THEN a[k] ELSE b[k - Len(a)]
    BY <1>2, <1>3, ConcatProperties
  <1>6. Len(a) + Len(b) = Len(s) - 1
    BY <1>1, <1>2, <1>3
  <1>7. DOMAIN (a \o b) = 1..(Len(s) - 1)
    BY <1>5, <1>6, LenProperties
  <1>8. ASSUME NEW k \in 1..(Len(s) - 1)
        PROVE  \E l \in 1..Len(s) : (a \o b)[k] = s[l]
    <2>1. (a \o b)[k] = IF k <= i - 1 THEN a[k] ELSE b[k - (i - 1)]
      BY <1>2, <1>5, <1>6
    <2>2. CASE k <= i - 1
      <3>1. k \in 1..(i - 1) /\ k \in 1..Len(s)
        BY <1>1, <2>2
      <3> QED
        BY <1>2, <2>1, <2>2, <3>1
    <2>3. CASE ~(k <= i - 1)
      <3>1. k - (i - 1) \in 1..(Len(s) - i) /\ k - (i - 1) + i \in 1..Len(s)
        BY <1>1, <2>3
      <3>2. (a \o b)[k] = b[k - (i - 1)]
        BY <2>1, <2>3
      <3> QED
        BY <1>3, <3>1, <3>2
    <2> QED
      BY <2>2, <2>3
  <1> QED
    BY <1>1, <1>4, <1>5, <1>6, <1>7, <1>8, LenProperties

\* The elements of a sequence without its last one, and of one with a new head.
LEMMA FrontElements ==
    ASSUME NEW S, NEW s \in Seq(S), s # <<>>
    PROVE  /\ Front(s) \in Seq(S)
           /\ Len(Front(s)) = Len(s) - 1
           /\ \A k \in DOMAIN Front(s) : k \in DOMAIN s /\ Front(s)[k] = s[k]
           /\ Last(s) \in S
  <1> DEFINE n == Len(s) - 1
  <1>1. n \in Nat /\ Len(s) \in Nat /\ Len(s) = n + 1 /\ DOMAIN s = 1..(n + 1)
    OBVIOUS
  <1>2. \A i \in 1..n : s[i] \in S
    OBVIOUS
  <1>3. /\ SubSeq(s, 1, n) \in Seq(S) /\ Len(SubSeq(s, 1, n)) = n
        /\ \A i \in 1..n : SubSeq(s, 1, n)[i] = s[i]
    BY <1>1, <1>2
  <1>4. Front(s) = SubSeq(s, 1, n) /\ Last(s) = s[n + 1]
    BY <1>1 DEF Front, Last
  <1>5. s[n + 1] \in S
    BY <1>1
  <1> HIDE DEF n
  <1>6. DOMAIN SubSeq(s, 1, n) = 1..n /\ 1..n \subseteq 1..(n + 1)
    BY <1>1, <1>3, LenProperties
  <1> QED
    BY <1>1, <1>3, <1>4, <1>5, <1>6

\* The elements of a list with one more in front.
LEMMA PushElements ==
    ASSUME NEW S, NEW s \in Seq(S), NEW x \in S
    PROVE  /\ <<x>> \o s \in Seq(S)
           /\ Len(<<x>> \o s) = Len(s) + 1
           /\ <<x>> \o s # <<>>
           /\ \A k \in DOMAIN (<<x>> \o s) :
                (<<x>> \o s)[k] = x \/ \E l \in DOMAIN s : (<<x>> \o s)[k] = s[l]
  OBVIOUS

----------------------------------------------------------------------------
(* Steps *)

\* Once a job has been created it never becomes UNBORN again and keeps its queue.
BornStays ==
    \A j \in Jobs : state[j] # "UNBORN" => state'[j] # "UNBORN" /\ queue'[j] = queue[j]

\* What steps that leave queues, schedule and flag alone must show of the threads.
LEMMA FrameStep ==
    ASSUME IInv, TypeOK', BornStays,
           UNCHANGED <<queues, queue_length, job, export_scheduled>>,
           \A w \in Workers : \/ pc'[w] = pc[w] /\ cur'[w] = cur[w]
                              \/ pc[w] \in Holding /\ pc'[w] \in Holding /\ cur'[w] = cur[w]
                              \/ pc[w] \notin Holding /\ pc'[w] \notin Holding,
           \A c \in Clients : pc'[c] = "add" =>
                pc[c] = "add" /\ cur'[c] = cur[c] /\ request'[c] = request[c],
           StoppedOK', CurOK'
    PROVE  IInv'
  <1>1. AddCallOK'
    BY DEF IInv, AddCallOK, BornStays
  <1>2. HeldOK'
    BY DEF IInv, TypeOK, HeldOK, BornStays, Holding
  <1>3. QueuesOK'
    BY DEF IInv, TypeOK, QueuesOK, BornStays
  <1>4. FlagOK' /\ OneExport'
    BY DEF IInv, TypeOK, HeldOK, FlagOK, OneExport, BornStays
  <1>5. LengthIsExact'
    BY DEF IInv, LengthIsExact
  <1> QED
    BY <1>1, <1>2, <1>3, <1>4, <1>5 DEF IInv

\* The sets of queue numbers as explicit sets, for the provers.
LEMMA QueueNumbers ==
    /\ Queues = 0..4
    /\ DT_JOB_QUEUE_SYSTEM_FG \in Queues
    /\ DT_JOB_QUEUE_USER_EXPORT \in Queues
    /\ DT_JOB_QUEUE_SYSTEM_FG # DT_JOB_QUEUE_USER_EXPORT
  BY DEF Queues, DT_JOB_QUEUE_MAX, DT_JOB_QUEUE_SYSTEM_FG, DT_JOB_QUEUE_USER_EXPORT

\* The invariant holds at first.
LEMMA InitIInv == Init => IInv
  <1> SUFFICES ASSUME Init PROVE IInv
    OBVIOUS
  <1> USE JobsAssumption, QueueNumbers
  <1>1. TypeOK
    <2>1. queues \in [Queues -> Seq(Jobs)]
      BY DEF Init
    <2>2. priority \in [Jobs -> 0..(PriorityMod - 1)] /\ queue \in [Jobs -> Queues]
      BY DEF Init
    <2> QED
      BY <2>1, <2>2 DEF Init, TypeOK, States
  <1>2. CurOK /\ AddCallOK /\ HeldOK /\ StoppedOK /\ FlagOK /\ OneExport
    BY DEF Init, CurOK, AddCallOK, HeldOK, StoppedOK, FlagOK, OneExport, Holding, Busy, Threads
  <1>3. QueuesOK /\ LengthIsExact
    BY DEF Init, QueuesOK, LengthIsExact
  <1> QED
    BY <1>1, <1>2, <1>3 DEF IInv

\* dt_control_add_job runs the job itself.
LEMMA SyncStartStep ==
    ASSUME IInv, NEW c \in Clients, SyncStart(c)
    PROVE  IInv'
  <1> USE JobsAssumption, QueueNumbers
  <1>1. TypeOK'
    BY DEF IInv, TypeOK, CurOK, Busy, Holding, AddCallOK, States, Threads, WorkerThreads,
           SyncStart, set_state, Goto, jobVars, queueVars, resVars, threadVars, stopVars, history
  <1>2. BornStays
    BY DEF IInv, TypeOK, BornStays, States, Threads, AtLeastFinished, SyncStart, set_state, Goto, jobVars, queueVars, resVars, threadVars, stopVars, history
  <1>3. StoppedOK'
    BY DEF IInv, TypeOK, StoppedOK, Threads, WorkerThreads, SyncStart, set_state, Goto, jobVars, queueVars, resVars, threadVars, stopVars, history
  <1>4. CurOK'
    BY DEF IInv, TypeOK, CurOK, Busy, Holding, Threads, WorkerThreads, SyncStart, set_state, Goto, jobVars, queueVars, resVars, threadVars, stopVars, history
  <1>5. /\ UNCHANGED <<queues, queue_length, job, export_scheduled>>
        /\ \A d \in Clients : pc'[d] = "add" =>
               pc[d] = "add" /\ cur'[d] = cur[d] /\ request'[d] = request[d]
    BY DEF IInv, TypeOK, Threads, WorkerThreads, SyncStart, set_state, Goto, jobVars, queueVars, resVars, threadVars, stopVars, history
  <1>6. \A v \in Workers : \/ pc'[v] = pc[v] /\ cur'[v] = cur[v]
                           \/ pc[v] \in Holding /\ pc'[v] \in Holding /\ cur'[v] = cur[v]
                           \/ pc[v] \notin Holding /\ pc'[v] \notin Holding
    BY DEF IInv, TypeOK, Holding, Threads, WorkerThreads, SyncStart, set_state, Goto, jobVars, queueVars, resVars, threadVars, stopVars, history
  <1> QED
    BY <1>1, <1>2, <1>3, <1>4, <1>5, <1>6, FrameStep

\* ... and finishes it.
LEMMA SyncFinishStep ==
    ASSUME IInv, NEW c \in Clients, SyncFinish(c)
    PROVE  IInv'
  <1> USE JobsAssumption, QueueNumbers
  <1>1. TypeOK'
    BY DEF IInv, TypeOK, CurOK, Busy, Holding, AddCallOK, States, Threads, WorkerThreads,
           SyncFinish, set_state, Goto, jobVars, queueVars, resVars, threadVars, stopVars, history
  <1>2. BornStays
    BY DEF IInv, TypeOK, BornStays, States, Threads, AtLeastFinished, SyncFinish, set_state, Goto, jobVars, queueVars, resVars, threadVars, stopVars, history
  <1>3. StoppedOK'
    BY DEF IInv, TypeOK, StoppedOK, Threads, WorkerThreads, SyncFinish, set_state, Goto, jobVars, queueVars, resVars, threadVars, stopVars, history
  <1>4. CurOK'
    BY DEF IInv, TypeOK, CurOK, Busy, Holding, Threads, WorkerThreads, SyncFinish, set_state, Goto, jobVars, queueVars, resVars, threadVars, stopVars, history
  <1>5. /\ UNCHANGED <<queues, queue_length, job, export_scheduled>>
        /\ \A d \in Clients : pc'[d] = "add" =>
               pc[d] = "add" /\ cur'[d] = cur[d] /\ request'[d] = request[d]
    BY DEF IInv, TypeOK, Threads, WorkerThreads, SyncFinish, set_state, Goto, jobVars, queueVars, resVars, threadVars, stopVars, history
  <1>6. \A v \in Workers : \/ pc'[v] = pc[v] /\ cur'[v] = cur[v]
                           \/ pc[v] \in Holding /\ pc'[v] \in Holding /\ cur'[v] = cur[v]
                           \/ pc[v] \notin Holding /\ pc'[v] \notin Holding
    BY DEF IInv, TypeOK, Holding, Threads, WorkerThreads, SyncFinish, set_state, Goto, jobVars, queueVars, resVars, threadVars, stopVars, history
  <1> QED
    BY <1>1, <1>2, <1>3, <1>4, <1>5, <1>6, FrameStep

\* The broadcast of dt_control_add_job.
LEMMA NotifyStep ==
    ASSUME IInv, NEW c \in Clients, Notify(c)
    PROVE  IInv'
  <1> USE JobsAssumption, QueueNumbers
  <1>1. TypeOK'
    BY DEF IInv, TypeOK, CurOK, Busy, Holding, AddCallOK, States, Threads, WorkerThreads,
           Notify, Broadcast, jobVars, queueVars, resVars, threadVars, stopVars, history
  <1>2. BornStays
    BY DEF IInv, TypeOK, BornStays, States, Threads, AtLeastFinished, Notify, Broadcast, jobVars, queueVars, resVars, threadVars, stopVars, history
  <1>3. StoppedOK'
    BY DEF IInv, TypeOK, StoppedOK, Threads, WorkerThreads, Notify, Broadcast, jobVars, queueVars, resVars, threadVars, stopVars, history
  <1>4. CurOK'
    BY DEF IInv, TypeOK, CurOK, Busy, Holding, Threads, WorkerThreads, Notify, Broadcast, jobVars, queueVars, resVars, threadVars, stopVars, history
  <1>5. /\ UNCHANGED <<queues, queue_length, job, export_scheduled>>
        /\ \A d \in Clients : pc'[d] = "add" =>
               pc[d] = "add" /\ cur'[d] = cur[d] /\ request'[d] = request[d]
    BY DEF IInv, TypeOK, Threads, WorkerThreads, Notify, Broadcast, jobVars, queueVars, resVars, threadVars, stopVars, history
  <1>6. \A v \in Workers : \/ pc'[v] = pc[v] /\ cur'[v] = cur[v]
                           \/ pc[v] \in Holding /\ pc'[v] \in Holding /\ cur'[v] = cur[v]
                           \/ pc[v] \notin Holding /\ pc'[v] \notin Holding
    BY DEF IInv, TypeOK, Holding, Threads, WorkerThreads, Notify, Broadcast, jobVars, queueVars, resVars, threadVars, stopVars, history
  <1> QED
    BY <1>1, <1>2, <1>3, <1>4, <1>5, <1>6, FrameStep

\* The job is marked as discarded.
LEMMA DiscardStep ==
    ASSUME IInv, NEW c \in Clients, Discard(c)
    PROVE  IInv'
  <1> USE JobsAssumption, QueueNumbers
  <1>1. TypeOK'
    BY DEF IInv, TypeOK, CurOK, Busy, Holding, AddCallOK, States, Threads, WorkerThreads,
           Discard, set_state, Goto, jobVars, queueVars, resVars, threadVars, stopVars, history
  <1>2. BornStays
    BY DEF IInv, TypeOK, BornStays, States, Threads, AtLeastFinished, Discard, set_state, Goto, jobVars, queueVars, resVars, threadVars, stopVars, history
  <1>3. StoppedOK'
    BY DEF IInv, TypeOK, StoppedOK, Threads, WorkerThreads, Discard, set_state, Goto, jobVars, queueVars, resVars, threadVars, stopVars, history
  <1>4. CurOK'
    BY DEF IInv, TypeOK, CurOK, Busy, Holding, Threads, WorkerThreads, Discard, set_state, Goto, jobVars, queueVars, resVars, threadVars, stopVars, history
  <1>5. /\ UNCHANGED <<queues, queue_length, job, export_scheduled>>
        /\ \A d \in Clients : pc'[d] = "add" =>
               pc[d] = "add" /\ cur'[d] = cur[d] /\ request'[d] = request[d]
    BY DEF IInv, TypeOK, Threads, WorkerThreads, Discard, set_state, Goto, jobVars, queueVars, resVars, threadVars, stopVars, history
  <1>6. \A v \in Workers : \/ pc'[v] = pc[v] /\ cur'[v] = cur[v]
                           \/ pc[v] \in Holding /\ pc'[v] \in Holding /\ cur'[v] = cur[v]
                           \/ pc[v] \notin Holding /\ pc'[v] \notin Holding
    BY DEF IInv, TypeOK, Holding, Threads, WorkerThreads, Discard, set_state, Goto, jobVars, queueVars, resVars, threadVars, stopVars, history
  <1> QED
    BY <1>1, <1>2, <1>3, <1>4, <1>5, <1>6, FrameStep

\* dt_control_add_job_res.
LEMMA AddJobResStep ==
    ASSUME IInv, NEW c \in Clients, AddJobRes(c)
    PROVE  IInv'
  <1> USE JobsAssumption, QueueNumbers
  <1>1. TypeOK'
    <2>1. PICK j \in Jobs, r \in Reserved : AddJobRes(c)!(j, r)
      BY DEF AddJobRes
    <2>2. state' \in [Jobs -> States]
      BY <2>1 DEF IInv, TypeOK, States
    <2>3. progress' \subseteq Jobs /\ refused' \subseteq Jobs
      BY <2>1 DEF IInv, TypeOK
    <2>4. job_res' \in [Reserved -> Jobs \cup {NULL}] /\ new_res' \in [Reserved -> BOOLEAN]
      BY <2>1 DEF IInv, TypeOK
    <2> QED
      BY <2>1, <2>2, <2>3, <2>4 DEF IInv, TypeOK, Goto, Threads, jobVars, queueVars, stopVars
  <1>2. BornStays
    BY DEF IInv, TypeOK, BornStays, States, Threads, AtLeastFinished, AddJobRes, Goto, jobVars, queueVars, resVars, threadVars, stopVars, history
  <1>3. StoppedOK'
    BY DEF IInv, TypeOK, StoppedOK, Threads, WorkerThreads, AddJobRes, Goto, jobVars, queueVars, resVars, threadVars, stopVars, history
  <1>4. CurOK'
    BY DEF IInv, TypeOK, CurOK, Busy, Holding, Threads, WorkerThreads, AddJobRes, Goto, jobVars, queueVars, resVars, threadVars, stopVars, history
  <1>5. /\ UNCHANGED <<queues, queue_length, job, export_scheduled>>
        /\ \A d \in Clients : pc'[d] = "add" =>
               pc[d] = "add" /\ cur'[d] = cur[d] /\ request'[d] = request[d]
    BY DEF IInv, TypeOK, Threads, WorkerThreads, AddJobRes, Goto, jobVars, queueVars, resVars, threadVars, stopVars, history
  <1>6. \A v \in Workers : \/ pc'[v] = pc[v] /\ cur'[v] = cur[v]
                           \/ pc[v] \in Holding /\ pc'[v] \in Holding /\ cur'[v] = cur[v]
                           \/ pc[v] \notin Holding /\ pc'[v] \notin Holding
    BY DEF IInv, TypeOK, Holding, Threads, WorkerThreads, AddJobRes, Goto, jobVars, queueVars, resVars, threadVars, stopVars, history
  <1> QED
    BY <1>1, <1>2, <1>3, <1>4, <1>5, <1>6, FrameStep

\* dt_control_job_dispose by a client or a worker.
LEMMA DisposeStep ==
    ASSUME IInv, NEW t \in Threads, Dispose(t)
    PROVE  IInv'
  <1> USE JobsAssumption, QueueNumbers
  <1>1. TypeOK'
    BY DEF IInv, TypeOK, CurOK, Busy, Holding, AddCallOK, States, Threads, WorkerThreads,
           Dispose, dispose, Goto, jobVars, queueVars, resVars, threadVars, stopVars, history
  <1>2. BornStays
    BY DEF IInv, TypeOK, BornStays, States, Threads, AtLeastFinished, Dispose, dispose, Goto, jobVars, queueVars, resVars, threadVars, stopVars, history
  <1>3. StoppedOK'
    BY DEF IInv, TypeOK, StoppedOK, Threads, WorkerThreads, Dispose, dispose, Goto, jobVars, queueVars, resVars, threadVars, stopVars, history
  <1>4. CurOK'
    BY DEF IInv, TypeOK, CurOK, Busy, Holding, Threads, WorkerThreads, Dispose, dispose, Goto, jobVars, queueVars, resVars, threadVars, stopVars, history
  <1>5. /\ UNCHANGED <<queues, queue_length, job, export_scheduled>>
        /\ \A d \in Clients : pc'[d] = "add" =>
               pc[d] = "add" /\ cur'[d] = cur[d] /\ request'[d] = request[d]
    BY DEF IInv, TypeOK, Threads, WorkerThreads, Dispose, dispose, Goto, jobVars, queueVars, resVars, threadVars, stopVars, history
  <1>6. \A v \in Workers : \/ pc'[v] = pc[v] /\ cur'[v] = cur[v]
                           \/ pc[v] \in Holding /\ pc'[v] \in Holding /\ cur'[v] = cur[v]
                           \/ pc[v] \notin Holding /\ pc'[v] \notin Holding
    BY DEF IInv, TypeOK, Holding, Threads, WorkerThreads, Dispose, dispose, Goto, jobVars, queueVars, resVars, threadVars, stopVars, history
  <1> QED
    BY <1>1, <1>2, <1>3, <1>4, <1>5, <1>6, FrameStep

\* The loop condition of a worker.
LEMMA CheckRunningStep ==
    ASSUME IInv, NEW t \in WorkerThreads, CheckRunning(t)
    PROVE  IInv'
  <1> USE JobsAssumption, QueueNumbers
  <1>1. TypeOK'
    BY DEF IInv, TypeOK, CurOK, Busy, Holding, AddCallOK, States, Threads, WorkerThreads,
           CheckRunning, Goto, jobVars, queueVars, resVars, threadVars, stopVars, history
  <1>2. BornStays
    BY DEF IInv, TypeOK, BornStays, States, Threads, AtLeastFinished, CheckRunning, Goto, jobVars, queueVars, resVars, threadVars, stopVars, history
  <1>3. StoppedOK'
    BY DEF IInv, TypeOK, StoppedOK, Threads, WorkerThreads, CheckRunning, Goto, jobVars, queueVars, resVars, threadVars, stopVars, history
  <1>4. CurOK'
    BY DEF IInv, TypeOK, CurOK, Busy, Holding, Threads, WorkerThreads, CheckRunning, Goto, jobVars, queueVars, resVars, threadVars, stopVars, history
  <1>5. /\ UNCHANGED <<queues, queue_length, job, export_scheduled>>
        /\ \A d \in Clients : pc'[d] = "add" =>
               pc[d] = "add" /\ cur'[d] = cur[d] /\ request'[d] = request[d]
    BY DEF IInv, TypeOK, Threads, WorkerThreads, CheckRunning, Goto, jobVars, queueVars, resVars, threadVars, stopVars, history
  <1>6. \A v \in Workers : \/ pc'[v] = pc[v] /\ cur'[v] = cur[v]
                           \/ pc[v] \in Holding /\ pc'[v] \in Holding /\ cur'[v] = cur[v]
                           \/ pc[v] \notin Holding /\ pc'[v] \notin Holding
    BY DEF IInv, TypeOK, Holding, Threads, WorkerThreads, CheckRunning, Goto, jobVars, queueVars, resVars, threadVars, stopVars, history
  <1> QED
    BY <1>1, <1>2, <1>3, <1>4, <1>5, <1>6, FrameStep

\* A worker begins to wait.
LEMMA SleepStep ==
    ASSUME IInv, NEW t \in WorkerThreads, Sleep(t)
    PROVE  IInv'
  <1> USE JobsAssumption, QueueNumbers
  <1>1. TypeOK'
    BY DEF IInv, TypeOK, CurOK, Busy, Holding, AddCallOK, States, Threads, WorkerThreads,
           Sleep, Goto, jobVars, queueVars, resVars, threadVars, stopVars, history
  <1>2. BornStays
    BY DEF IInv, TypeOK, BornStays, States, Threads, AtLeastFinished, Sleep, Goto, jobVars, queueVars, resVars, threadVars, stopVars, history
  <1>3. StoppedOK'
    BY DEF IInv, TypeOK, StoppedOK, Threads, WorkerThreads, Sleep, Goto, jobVars, queueVars, resVars, threadVars, stopVars, history
  <1>4. CurOK'
    BY DEF IInv, TypeOK, CurOK, Busy, Holding, Threads, WorkerThreads, Sleep, Goto, jobVars, queueVars, resVars, threadVars, stopVars, history
  <1>5. /\ UNCHANGED <<queues, queue_length, job, export_scheduled>>
        /\ \A d \in Clients : pc'[d] = "add" =>
               pc[d] = "add" /\ cur'[d] = cur[d] /\ request'[d] = request[d]
    BY DEF IInv, TypeOK, Threads, WorkerThreads, Sleep, Goto, jobVars, queueVars, resVars, threadVars, stopVars, history
  <1>6. \A v \in Workers : \/ pc'[v] = pc[v] /\ cur'[v] = cur[v]
                           \/ pc[v] \in Holding /\ pc'[v] \in Holding /\ cur'[v] = cur[v]
                           \/ pc[v] \notin Holding /\ pc'[v] \notin Holding
    BY DEF IInv, TypeOK, Holding, Threads, WorkerThreads, Sleep, Goto, jobVars, queueVars, resVars, threadVars, stopVars, history
  <1> QED
    BY <1>1, <1>2, <1>3, <1>4, <1>5, <1>6, FrameStep

\* A worker looks at the state of its job.
LEMMA TestQueuedStep ==
    ASSUME IInv, NEW t \in WorkerThreads, TestQueued(t)
    PROVE  IInv'
  <1> USE JobsAssumption, QueueNumbers
  <1>1. TypeOK'
    BY DEF IInv, TypeOK, CurOK, Busy, Holding, AddCallOK, States, Threads, WorkerThreads,
           TestQueued, Goto, jobVars, queueVars, resVars, threadVars, stopVars, history
  <1>2. BornStays
    BY DEF IInv, TypeOK, BornStays, States, Threads, AtLeastFinished, TestQueued, Goto, jobVars, queueVars, resVars, threadVars, stopVars, history
  <1>3. StoppedOK'
    BY DEF IInv, TypeOK, StoppedOK, Threads, WorkerThreads, TestQueued, Goto, jobVars, queueVars, resVars, threadVars, stopVars, history
  <1>4. CurOK'
    BY DEF IInv, TypeOK, CurOK, Busy, Holding, Threads, WorkerThreads, TestQueued, Goto, jobVars, queueVars, resVars, threadVars, stopVars, history
  <1>5. /\ UNCHANGED <<queues, queue_length, job, export_scheduled>>
        /\ \A d \in Clients : pc'[d] = "add" =>
               pc[d] = "add" /\ cur'[d] = cur[d] /\ request'[d] = request[d]
    BY DEF IInv, TypeOK, Threads, WorkerThreads, TestQueued, Goto, jobVars, queueVars, resVars, threadVars, stopVars, history
  <1>6. \A v \in Workers : \/ pc'[v] = pc[v] /\ cur'[v] = cur[v]
                           \/ pc[v] \in Holding /\ pc'[v] \in Holding /\ cur'[v] = cur[v]
                           \/ pc[v] \notin Holding /\ pc'[v] \notin Holding
    BY DEF IInv, TypeOK, Holding, Threads, WorkerThreads, TestQueued, Goto, jobVars, queueVars, resVars, threadVars, stopVars, history
  <1> QED
    BY <1>1, <1>2, <1>3, <1>4, <1>5, <1>6, FrameStep

\* A worker executes its job.
LEMMA StartStep ==
    ASSUME IInv, NEW t \in WorkerThreads, Start(t)
    PROVE  IInv'
  <1> USE JobsAssumption, QueueNumbers
  <1>1. TypeOK'
    BY DEF IInv, TypeOK, CurOK, Busy, Holding, AddCallOK, States, Threads, WorkerThreads,
           Start, set_state, Goto, jobVars, queueVars, resVars, threadVars, stopVars, history
  <1>2. BornStays
    BY DEF IInv, TypeOK, BornStays, States, Threads, AtLeastFinished, Start, set_state, Goto, jobVars, queueVars, resVars, threadVars, stopVars, history
  <1>3. StoppedOK'
    BY DEF IInv, TypeOK, StoppedOK, Threads, WorkerThreads, Start, set_state, Goto, jobVars, queueVars, resVars, threadVars, stopVars, history
  <1>4. CurOK'
    BY DEF IInv, TypeOK, CurOK, Busy, Holding, Threads, WorkerThreads, Start, set_state, Goto, jobVars, queueVars, resVars, threadVars, stopVars, history
  <1>5. /\ UNCHANGED <<queues, queue_length, job, export_scheduled>>
        /\ \A d \in Clients : pc'[d] = "add" =>
               pc[d] = "add" /\ cur'[d] = cur[d] /\ request'[d] = request[d]
    BY DEF IInv, TypeOK, Threads, WorkerThreads, Start, set_state, Goto, jobVars, queueVars, resVars, threadVars, stopVars, history
  <1>6. \A v \in Workers : \/ pc'[v] = pc[v] /\ cur'[v] = cur[v]
                           \/ pc[v] \in Holding /\ pc'[v] \in Holding /\ cur'[v] = cur[v]
                           \/ pc[v] \notin Holding /\ pc'[v] \notin Holding
    BY DEF IInv, TypeOK, Holding, Threads, WorkerThreads, Start, set_state, Goto, jobVars, queueVars, resVars, threadVars, stopVars, history
  <1> QED
    BY <1>1, <1>2, <1>3, <1>4, <1>5, <1>6, FrameStep

\* The execution returns.
LEMMA FinishStep ==
    ASSUME IInv, NEW t \in WorkerThreads, Finish(t)
    PROVE  IInv'
  <1> USE JobsAssumption, QueueNumbers
  <1>1. TypeOK'
    BY DEF IInv, TypeOK, CurOK, Busy, Holding, AddCallOK, States, Threads, WorkerThreads,
           Finish, set_state, Goto, jobVars, queueVars, resVars, threadVars, stopVars, history
  <1>2. BornStays
    BY DEF IInv, TypeOK, BornStays, States, Threads, AtLeastFinished, Finish, set_state, Goto, jobVars, queueVars, resVars, threadVars, stopVars, history
  <1>3. StoppedOK'
    BY DEF IInv, TypeOK, StoppedOK, Threads, WorkerThreads, Finish, set_state, Goto, jobVars, queueVars, resVars, threadVars, stopVars, history
  <1>4. CurOK'
    BY DEF IInv, TypeOK, CurOK, Busy, Holding, Threads, WorkerThreads, Finish, set_state, Goto, jobVars, queueVars, resVars, threadVars, stopVars, history
  <1>5. /\ UNCHANGED <<queues, queue_length, job, export_scheduled>>
        /\ \A d \in Clients : pc'[d] = "add" =>
               pc[d] = "add" /\ cur'[d] = cur[d] /\ request'[d] = request[d]
    BY DEF IInv, TypeOK, Threads, WorkerThreads, Finish, set_state, Goto, jobVars, queueVars, resVars, threadVars, stopVars, history
  <1>6. \A v \in Workers : \/ pc'[v] = pc[v] /\ cur'[v] = cur[v]
                           \/ pc[v] \in Holding /\ pc'[v] \in Holding /\ cur'[v] = cur[v]
                           \/ pc[v] \notin Holding /\ pc'[v] \notin Holding
    BY DEF IInv, TypeOK, Holding, Threads, WorkerThreads, Finish, set_state, Goto, jobVars, queueVars, resVars, threadVars, stopVars, history
  <1> QED
    BY <1>1, <1>2, <1>3, <1>4, <1>5, <1>6, FrameStep

\* A worker finds no job.
LEMMA NothingToScheduleStep ==
    ASSUME IInv, NEW w \in Workers, NothingToSchedule(w)
    PROVE  IInv'
  <1> USE JobsAssumption, QueueNumbers
  <1>1. TypeOK'
    BY DEF IInv, TypeOK, CurOK, Busy, Holding, AddCallOK, States, Threads, WorkerThreads,
           NothingToSchedule, Goto, jobVars, queueVars, resVars, threadVars, stopVars, history
  <1>2. BornStays
    BY DEF IInv, TypeOK, BornStays, States, Threads, AtLeastFinished, NothingToSchedule, Goto, jobVars, queueVars, resVars, threadVars, stopVars, history
  <1>3. StoppedOK'
    BY DEF IInv, TypeOK, StoppedOK, Threads, WorkerThreads, NothingToSchedule, Goto, jobVars, queueVars, resVars, threadVars, stopVars, history
  <1>4. CurOK'
    BY DEF IInv, TypeOK, CurOK, Busy, Holding, Threads, WorkerThreads, NothingToSchedule, Goto, jobVars, queueVars, resVars, threadVars, stopVars, history
  <1>5. /\ UNCHANGED <<queues, queue_length, job, export_scheduled>>
        /\ \A d \in Clients : pc'[d] = "add" =>
               pc[d] = "add" /\ cur'[d] = cur[d] /\ request'[d] = request[d]
    BY DEF IInv, TypeOK, Threads, WorkerThreads, NothingToSchedule, Goto, jobVars, queueVars, resVars, threadVars, stopVars, history
  <1>6. \A v \in Workers : \/ pc'[v] = pc[v] /\ cur'[v] = cur[v]
                           \/ pc[v] \in Holding /\ pc'[v] \in Holding /\ cur'[v] = cur[v]
                           \/ pc[v] \notin Holding /\ pc'[v] \notin Holding
    BY DEF IInv, TypeOK, Holding, Threads, WorkerThreads, NothingToSchedule, Goto, jobVars, queueVars, resVars, threadVars, stopVars, history
  <1> QED
    BY <1>1, <1>2, <1>3, <1>4, <1>5, <1>6, FrameStep

\* The reserved worker looks at its slot.
LEMMA TakeReservedStep ==
    ASSUME IInv, NEW r \in Reserved, TakeReserved(r)
    PROVE  IInv'
  <1> USE JobsAssumption, QueueNumbers
  <1>1. TypeOK'
    BY DEF IInv, TypeOK, CurOK, Busy, Holding, AddCallOK, States, Threads, WorkerThreads,
           TakeReserved, Goto, jobVars, queueVars, resVars, threadVars, stopVars, history
  <1>2. BornStays
    BY DEF IInv, TypeOK, BornStays, States, Threads, AtLeastFinished, TakeReserved, Goto, jobVars, queueVars, resVars, threadVars, stopVars, history
  <1>3. StoppedOK'
    BY DEF IInv, TypeOK, StoppedOK, Threads, WorkerThreads, TakeReserved, Goto, jobVars, queueVars, resVars, threadVars, stopVars, history
  <1>4. CurOK'
    BY DEF IInv, TypeOK, CurOK, Busy, Holding, Threads, WorkerThreads, TakeReserved, Goto, jobVars, queueVars, resVars, threadVars, stopVars, history
  <1>5. /\ UNCHANGED <<queues, queue_length, job, export_scheduled>>
        /\ \A d \in Clients : pc'[d] = "add" =>
               pc[d] = "add" /\ cur'[d] = cur[d] /\ request'[d] = request[d]
    BY DEF IInv, TypeOK, Threads, WorkerThreads, TakeReserved, Goto, jobVars, queueVars, resVars, threadVars, stopVars, history
  <1>6. \A v \in Workers : \/ pc'[v] = pc[v] /\ cur'[v] = cur[v]
                           \/ pc[v] \in Holding /\ pc'[v] \in Holding /\ cur'[v] = cur[v]
                           \/ pc[v] \notin Holding /\ pc'[v] \notin Holding
    BY DEF IInv, TypeOK, Holding, Threads, WorkerThreads, TakeReserved, Goto, jobVars, queueVars, resVars, threadVars, stopVars, history
  <1> QED
    BY <1>1, <1>2, <1>3, <1>4, <1>5, <1>6, FrameStep

\* The kicker thread.
LEMMA KickerThreadStep ==
    ASSUME IInv, KickerStep
    PROVE  IInv'
  <1> USE JobsAssumption, QueueNumbers
  <1>1. TypeOK'
    BY DEF IInv, TypeOK, CurOK, Busy, Holding, AddCallOK, States, Threads, WorkerThreads,
           KickerStep, KickerCheck, Kick, Broadcast, jobVars, queueVars, resVars, threadVars, stopVars, history
  <1>2. BornStays
    BY DEF IInv, TypeOK, BornStays, States, Threads, AtLeastFinished, KickerStep, KickerCheck, Kick, Broadcast, jobVars, queueVars, resVars, threadVars, stopVars, history
  <1>3. StoppedOK'
    BY DEF IInv, TypeOK, StoppedOK, Threads, WorkerThreads, KickerStep, KickerCheck, Kick, Broadcast, jobVars, queueVars, resVars, threadVars, stopVars, history
  <1>4. CurOK'
    BY DEF IInv, TypeOK, CurOK, Busy, Holding, Threads, WorkerThreads, KickerStep, KickerCheck, Kick, Broadcast, jobVars, queueVars, resVars, threadVars, stopVars, history
  <1>5. /\ UNCHANGED <<queues, queue_length, job, export_scheduled>>
        /\ \A d \in Clients : pc'[d] = "add" =>
               pc[d] = "add" /\ cur'[d] = cur[d] /\ request'[d] = request[d]
    BY DEF IInv, TypeOK, Threads, WorkerThreads, KickerStep, KickerCheck, Kick, Broadcast, jobVars, queueVars, resVars, threadVars, stopVars, history
  <1>6. \A v \in Workers : \/ pc'[v] = pc[v] /\ cur'[v] = cur[v]
                           \/ pc[v] \in Holding /\ pc'[v] \in Holding /\ cur'[v] = cur[v]
                           \/ pc[v] \notin Holding /\ pc'[v] \notin Holding
    BY DEF IInv, TypeOK, Holding, Threads, WorkerThreads, KickerStep, KickerCheck, Kick, Broadcast, jobVars, queueVars, resVars, threadVars, stopVars, history
  <1> QED
    BY <1>1, <1>2, <1>3, <1>4, <1>5, <1>6, FrameStep

\* dt_control_job_cancel.
LEMMA CancelStep ==
    ASSUME IInv, NEW k \in Jobs, CancelJob(k)
    PROVE  IInv'
  <1> USE JobsAssumption, QueueNumbers
  <1>1. TypeOK'
    <2>1. state' \in [Jobs -> States] /\ progress' \subseteq Jobs /\ refused' \subseteq Jobs
      BY DEF IInv, TypeOK, States, CancelJob, set_state
    <2> QED
      BY <2>1 DEF CancelJob, IInv, TypeOK, queueVars, resVars, threadVars, stopVars
  <1>2. BornStays
    BY DEF IInv, TypeOK, BornStays, States, Threads, AtLeastFinished, CancelJob, Live, set_state, jobVars, queueVars, resVars, threadVars, stopVars, history
  <1>3. StoppedOK'
    BY DEF IInv, TypeOK, StoppedOK, Threads, WorkerThreads, CancelJob, Live, set_state, jobVars, queueVars, resVars, threadVars, stopVars, history
  <1>4. CurOK'
    BY DEF IInv, TypeOK, CurOK, Busy, Holding, Threads, WorkerThreads, CancelJob, Live, set_state, jobVars, queueVars, resVars, threadVars, stopVars, history
  <1>5. /\ UNCHANGED <<queues, queue_length, job, export_scheduled>>
        /\ \A d \in Clients : pc'[d] = "add" =>
               pc[d] = "add" /\ cur'[d] = cur[d] /\ request'[d] = request[d]
    BY DEF IInv, TypeOK, Threads, WorkerThreads, CancelJob, Live, set_state, jobVars, queueVars, resVars, threadVars, stopVars, history
  <1>6. \A v \in Workers : \/ pc'[v] = pc[v] /\ cur'[v] = cur[v]
                           \/ pc[v] \in Holding /\ pc'[v] \in Holding /\ cur'[v] = cur[v]
                           \/ pc[v] \notin Holding /\ pc'[v] \notin Holding
    BY DEF IInv, TypeOK, Holding, Threads, WorkerThreads, CancelJob, Live, set_state, jobVars, queueVars, resVars, threadVars, stopVars, history
  <1> QED
    BY <1>1, <1>2, <1>3, <1>4, <1>5, <1>6, FrameStep

\* dt_control_flush_jobs_queue.
LEMMA EnterDarkroomStep ==
    ASSUME IInv, EnterDarkroom
    PROVE  IInv'
  <1> USE JobsAssumption, QueueNumbers
  <1>1. TypeOK'
    <2> DEFINE hit == {job[w] : w \in Workers} \ {NULL}
    <2>1. hit \subseteq Jobs
      BY DEF IInv, TypeOK
    <2>2. state' \in [Jobs -> States] /\ progress' \subseteq Jobs /\ refused' \subseteq Jobs
      BY <2>1 DEF IInv, TypeOK, States, EnterDarkroom, Flush
    <2> QED
      BY <2>2 DEF IInv, TypeOK, EnterDarkroom, Flush, queueVars, resVars, threadVars, stopVars
  <1>2. BornStays
    BY DEF IInv, TypeOK, BornStays, States, Threads, AtLeastFinished, EnterDarkroom, Flush, jobVars, queueVars, resVars, threadVars, stopVars, history
  <1>3. StoppedOK'
    BY DEF IInv, TypeOK, StoppedOK, Threads, WorkerThreads, EnterDarkroom, Flush, jobVars, queueVars, resVars, threadVars, stopVars, history
  <1>4. CurOK'
    BY DEF IInv, TypeOK, CurOK, Busy, Holding, Threads, WorkerThreads, EnterDarkroom, Flush, jobVars, queueVars, resVars, threadVars, stopVars, history
  <1>5. /\ UNCHANGED <<queues, queue_length, job, export_scheduled>>
        /\ \A d \in Clients : pc'[d] = "add" =>
               pc[d] = "add" /\ cur'[d] = cur[d] /\ request'[d] = request[d]
    BY DEF IInv, TypeOK, Threads, WorkerThreads, EnterDarkroom, Flush, jobVars, queueVars, resVars, threadVars, stopVars, history
  <1>6. \A v \in Workers : \/ pc'[v] = pc[v] /\ cur'[v] = cur[v]
                           \/ pc[v] \in Holding /\ pc'[v] \in Holding /\ cur'[v] = cur[v]
                           \/ pc[v] \notin Holding /\ pc'[v] \notin Holding
    BY DEF IInv, TypeOK, Holding, Threads, WorkerThreads, EnterDarkroom, Flush, jobVars, queueVars, resVars, threadVars, stopVars, history
  <1> QED
    BY <1>1, <1>2, <1>3, <1>4, <1>5, <1>6, FrameStep

\* Quit and shutdown, except for the detaching of the queues.
LEMMA StopStep ==
    ASSUME IInv, Quit \/ ShutdownStop \/ ShutdownBroadcast \/ JoinKicker \/ JoinWorkers \/ DrainDispose
    PROVE  IInv'
  <1> USE JobsAssumption, QueueNumbers
  <1>1. TypeOK'
    <2>1. CASE Quit \/ ShutdownStop \/ JoinKicker \/ JoinWorkers
      BY <2>1 DEF IInv, TypeOK, Quit, ShutdownStop, JoinKicker, JoinWorkers,
                  jobVars, queueVars, resVars, threadVars, history
    <2>2. CASE ShutdownBroadcast
      BY <2>2 DEF IInv, TypeOK, ShutdownBroadcast, Broadcast, jobVars, queueVars, resVars, history
    <2>3. CASE DrainDispose
      <3>1. state' \in [Jobs -> States] /\ progress' \subseteq Jobs /\ drained' \subseteq Jobs
        BY <2>3 DEF IInv, TypeOK, States, DrainDispose, dispose
      <3> QED
        BY <2>3, <3>1 DEF IInv, TypeOK, DrainDispose, queueVars, resVars, threadVars, history
    <2> QED
      BY <2>1, <2>2, <2>3
  <1>2. BornStays
    BY DEF IInv, TypeOK, BornStays, States, Threads, AtLeastFinished, Quit, ShutdownStop, ShutdownBroadcast, JoinKicker, JoinWorkers,
           DrainDispose, dispose, Broadcast, jobVars, queueVars, resVars, threadVars, stopVars, history
  <1>3. StoppedOK'
    BY DEF IInv, TypeOK, StoppedOK, Threads, WorkerThreads, Quit, ShutdownStop, ShutdownBroadcast, JoinKicker, JoinWorkers,
           DrainDispose, dispose, Broadcast, jobVars, queueVars, resVars, threadVars, stopVars, history
  <1>4. CurOK'
    BY DEF IInv, TypeOK, CurOK, Busy, Holding, Threads, WorkerThreads, Quit, ShutdownStop, ShutdownBroadcast, JoinKicker, JoinWorkers,
           DrainDispose, dispose, Broadcast, jobVars, queueVars, resVars, threadVars, stopVars, history
  <1>5. /\ UNCHANGED <<queues, queue_length, job, export_scheduled>>
        /\ \A d \in Clients : pc'[d] = "add" =>
               pc[d] = "add" /\ cur'[d] = cur[d] /\ request'[d] = request[d]
    BY DEF IInv, TypeOK, Threads, WorkerThreads, Quit, ShutdownStop, ShutdownBroadcast, JoinKicker, JoinWorkers,
           DrainDispose, dispose, Broadcast, jobVars, queueVars, resVars, threadVars, stopVars, history
  <1>6. \A v \in Workers : \/ pc'[v] = pc[v] /\ cur'[v] = cur[v]
                           \/ pc[v] \in Holding /\ pc'[v] \in Holding /\ cur'[v] = cur[v]
                           \/ pc[v] \notin Holding /\ pc'[v] \notin Holding
    BY DEF IInv, TypeOK, Holding, Threads, WorkerThreads, Quit, ShutdownStop, ShutdownBroadcast, JoinKicker, JoinWorkers,
           DrainDispose, dispose, Broadcast, jobVars, queueVars, resVars, threadVars, stopVars, history
  <1> QED
    BY <1>1, <1>2, <1>3, <1>4, <1>5, <1>6, FrameStep

\* A step that leaves the workers alone keeps what is said of them.
LEMMA WorkersFrame ==
    ASSUME IInv, BornStays, UNCHANGED <<job, export_scheduled>>,
           \A w \in Workers : pc'[w] = pc[w] /\ cur'[w] = cur[w]
    PROVE  HeldOK' /\ FlagOK' /\ OneExport'
  <1>1. HeldOK'
    <2> SUFFICES ASSUME NEW w \in Workers
                 PROVE  /\ pc'[w] \in Holding => job'[w] # NULL
                        /\ job'[w] # NULL => /\ pc'[w] \in Holding /\ job'[w] = cur'[w]
                                            /\ state'[job'[w]] # "UNBORN"
      BY DEF HeldOK
    <2>1. pc'[w] = pc[w] /\ cur'[w] = cur[w] /\ job'[w] = job[w] /\ job[w] \in Jobs \cup {NULL}
      BY DEF IInv, TypeOK
    <2> QED
      BY <2>1 DEF IInv, HeldOK, BornStays
  <1>2. FlagOK' /\ OneExport'
    BY DEF IInv, TypeOK, HeldOK, FlagOK, OneExport, BornStays
  <1> QED
    BY <1>1, <1>2

\* A step that leaves the queues alone keeps what is said of them.
LEMMA QueuesFrame ==
    ASSUME IInv, BornStays, UNCHANGED queues
    PROVE  QueuesOK'
  BY DEF IInv, TypeOK, QueuesOK, BornStays

\* dt_control_add_job gives its job a queue: the job is reachable from nowhere else yet.
LEMMA AddJobStep ==
    ASSUME IInv, NEW c \in Clients, AddJob(c)
    PROVE  IInv'
  <1> USE JobsAssumption, QueueNumbers
  <1>1. PICK j \in Jobs, q \in Requests : AddJob(c)!(j, q)
    BY DEF AddJob
  <1>2. q \in Nat /\ c \in Threads /\ c \notin Workers
    BY DEF Threads
  <1>3. TypeOK'
    <2>1. state' \in [Jobs -> States] /\ progress' \subseteq Jobs /\ refused' \subseteq Jobs
      BY <1>1 DEF IInv, TypeOK, States
    <2>2. queue' \in [Jobs -> Queues] /\ request' \in [Clients -> Nat]
      BY <1>1, <1>2 DEF IInv, TypeOK
    <2>3. cur' \in [Threads -> Jobs \cup {NULL}]
      BY <1>1, <1>2 DEF IInv, TypeOK
    <2>4. PICK label \in {"dispose", "add", "syncstart"} : Goto(c, label)
      BY <1>1
    <2> QED
      BY <1>1, <2>1, <2>2, <2>3, <2>4 DEF IInv, TypeOK, Goto, queueVars, resVars, stopVars
  <1>4. BornStays
    BY <1>1 DEF IInv, TypeOK, BornStays
  <1>5. \A w \in Workers : pc'[w] = pc[w] /\ cur'[w] = cur[w] /\ job'[w] = job[w]
    BY <1>1, <1>2 DEF IInv, TypeOK, Goto, queueVars, Threads
  <1>11. UNCHANGED <<queues, queue_length, job, export_scheduled, main>>
    BY <1>1 DEF queueVars, stopVars
  <1>6. StoppedOK'
    BY <1>11, <1>5 DEF IInv, StoppedOK
  <1>7. QueuesOK'
    BY <1>11, <1>4, QueuesFrame
  <1>8. HeldOK' /\ FlagOK' /\ OneExport'
    BY <1>11, <1>4, <1>5, WorkersFrame
  <1>9. AddCallOK'
    <2> SUFFICES ASSUME NEW d \in Clients, pc'[d] = "add"
                 PROVE  /\ cur'[d] \in Jobs /\ request'[d] \in Queues
                        /\ queue'[cur'[d]] = request'[d] /\ state'[cur'[d]] # "UNBORN"
      BY DEF AddCallOK
    <2>1. CASE d = c
      <3>1. q \in Queues /\ running
        BY <1>1, <1>2, <2>1 DEF IInv, TypeOK, Goto
      <3> QED
        BY <1>1, <1>2, <2>1, <3>1 DEF IInv, TypeOK
    <2>2. CASE d # c
      <3>1. pc[d] = "add" /\ cur'[d] = cur[d] /\ request'[d] = request[d]
        BY <1>1, <1>2, <2>2 DEF IInv, TypeOK, Goto, Threads
      <3> QED
        BY <1>4, <3>1 DEF IInv, AddCallOK, BornStays
    <2> QED
      BY <2>1, <2>2
  <1>10. CurOK'
    BY <1>1, <1>2 DEF IInv, TypeOK, CurOK, Busy, Holding, Goto
  <1>12. LengthIsExact'
    BY <1>11 DEF IInv, LengthIsExact
  <1> QED
    BY <1>3, <1>6, <1>7, <1>8, <1>9, <1>10, <1>12 DEF IInv

\* Steps of a client that change the queues and nothing of the workers.
LEMMA QueueStep ==
    ASSUME IInv, TypeOK', BornStays, QueuesOK', LengthIsExact', StoppedOK', CurOK',
           UNCHANGED <<job, export_scheduled>>,
           \A w \in Workers : pc'[w] = pc[w] /\ cur'[w] = cur[w],
           \A c \in Clients : pc'[c] = "add" =>
                pc[c] = "add" /\ cur'[c] = cur[c] /\ request'[c] = request[c]
    PROVE  IInv'
  <1>1. AddCallOK'
    BY DEF IInv, AddCallOK, BornStays
  <1>2. HeldOK' /\ FlagOK' /\ OneExport'
    BY WorkersFrame
  <1> QED
    BY <1>1, <1>2 DEF IInv

\* The new stack of SYSTEM_FG holds jobs of that stack and the one submitted.
LEMMA StackElements ==
    ASSUME IInv, NEW c \in Clients, pc[c] = "add",
           request[c] = DT_JOB_QUEUE_SYSTEM_FG, AddToStack(c, cur[c])
    PROVE  /\ queues' \in [Queues -> Seq(Jobs)]
           /\ state' \in [Jobs -> States]
           /\ \A j \in Jobs : state[j] # "UNBORN" => state'[j] # "UNBORN"
           /\ progress' \subseteq Jobs /\ refused' \subseteq Jobs
           /\ queue_length' \in [Queues -> Nat]
           /\ \A i \in DOMAIN queues'[DT_JOB_QUEUE_SYSTEM_FG] :
                LET j == queues'[DT_JOB_QUEUE_SYSTEM_FG][i]
                IN  queue[j] = DT_JOB_QUEUE_SYSTEM_FG /\ state[j] # "UNBORN" /\ j \in Jobs
           /\ \A q \in Queues \ {DT_JOB_QUEUE_SYSTEM_FG} : queues'[q] = queues[q]
           /\ LengthIsExact'
  <1> USE JobsAssumption, QueueNumbers
  <1> DEFINE q == DT_JOB_QUEUE_SYSTEM_FG
             j == cur[c]
             old == queues[q]
             pos == FirstEqual(j, old)
             dup == pos # 0
             rest == IF dup THEN RemoveAt(old, pos) ELSE old
             top == IF dup THEN old[pos] ELSE j
             length == queue_length[q] + (IF dup THEN 0 ELSE 1)
             stack == <<top>> \o rest
             full == length > DT_CONTROL_MAX_JOBS
             last == Last(stack)
             Good(x) == x \in Jobs /\ queue[x] = q /\ state[x] # "UNBORN"
  <1>1. /\ queues' = [queues EXCEPT ![q] = IF full THEN Front(stack) ELSE stack]
        /\ queue_length' = [queue_length EXCEPT ![q] = IF full THEN length - 1 ELSE length]
        /\ state' = [i \in Jobs |-> CASE i = top -> "QUEUED"
                                      [] full /\ i = last -> "DISPOSED"
                                      [] OTHER -> state[i]]
        /\ progress' = IF full THEN progress \ {last} ELSE progress
        /\ refused' = (refused \cup (IF full THEN {last} ELSE {})
                               \cup (IF dup THEN {j} ELSE {})) \ {top}
    BY DEF AddToStack
  <1>2. Good(j)
    BY DEF IInv, AddCallOK
  <1>3. old \in Seq(Jobs) /\ \A i \in DOMAIN old : Good(old[i])
    <2>0. q \in Queues /\ old \in Seq(Jobs)
      BY DEF IInv, TypeOK
    <2>1. \A i \in DOMAIN old : old[i] \in Jobs
      BY <2>0
    <2>2. \A i \in DOMAIN old : queue[old[i]] = q /\ state[old[i]] # "UNBORN"
      BY <2>0 DEF IInv, QueuesOK
    <2> QED
      BY <2>0, <2>1, <2>2
  <1>4. pos # 0 => pos \in DOMAIN old
    BY <1>3, FirstEqualPosition
  <1>16. queue_length[q] = Len(old) /\ Len(old) \in Nat /\ Len(old) <= DT_CONTROL_MAX_JOBS
    BY <1>3 DEF IInv, LengthIsExact
  <1> HIDE DEF pos, old, j
  <1>5. Good(top)
    BY <1>2, <1>3, <1>4
  <1>6. /\ rest \in Seq(Jobs) /\ \A i \in DOMAIN rest : Good(rest[i])
        /\ Len(rest) = IF dup THEN Len(old) - 1 ELSE Len(old)
    <2>1. CASE dup
      <3>1. /\ RemoveAt(old, pos) \in Seq(Jobs)
            /\ Len(RemoveAt(old, pos)) = Len(old) - 1
            /\ \A k \in DOMAIN RemoveAt(old, pos) :
                   \E l \in DOMAIN old : RemoveAt(old, pos)[k] = old[l]
        <4>1. old \in Seq(Jobs) /\ pos \in DOMAIN old
          BY <1>3, <1>4, <2>1
        <4> QED
          BY <4>1, RemoveAtElements
      <3>2. rest = RemoveAt(old, pos)
        BY <2>1
      <3> HIDE DEF Good, rest
      <3>3. \A i \in DOMAIN rest : Good(rest[i])
        BY <1>3, <3>1, <3>2
      <3> QED
        BY <2>1, <3>1, <3>2, <3>3
    <2>2. CASE ~dup
      BY <1>3, <2>2
    <2> QED
      BY <2>1, <2>2
  <1> HIDE DEF top, rest
  <1>7. /\ stack \in Seq(Jobs) /\ stack # <<>> /\ \A i \in DOMAIN stack : Good(stack[i])
        /\ Len(stack) = Len(rest) + 1
    <2>1. /\ stack \in Seq(Jobs) /\ stack # <<>> /\ Len(stack) = Len(rest) + 1
          /\ \A k \in DOMAIN stack : stack[k] = top \/ \E l \in DOMAIN rest : stack[k] = rest[l]
      BY <1>5, <1>6, PushElements
    <2> QED
      BY <1>5, <1>6, <2>1
  <1> HIDE DEF stack
  <1>8. /\ Front(stack) \in Seq(Jobs) /\ last \in Jobs /\ Len(Front(stack)) = Len(stack) - 1
        /\ \A i \in DOMAIN Front(stack) : Good(Front(stack)[i])
    <2>1. /\ Front(stack) \in Seq(Jobs) /\ Last(stack) \in Jobs
          /\ Len(Front(stack)) = Len(stack) - 1
          /\ \A k \in DOMAIN Front(stack) : k \in DOMAIN stack /\ Front(stack)[k] = stack[k]
      BY <1>7, FrontElements
    <2> QED
      BY <1>7, <2>1
  <1>9. length \in Nat /\ (full => length - 1 \in Nat)
    <2>1. queue_length[q] \in Nat
      BY DEF IInv, TypeOK
    <2>2. \A n \in Nat, k \in Nat \ {0} : n > k => n - 1 \in Nat
      OBVIOUS
    <2>3. length \in Nat
      BY <2>1
    <2> QED
      BY <2>2, <2>3
  <1>17. length = Len(stack) /\ length <= DT_CONTROL_MAX_JOBS + 1
    BY <1>6, <1>7, <1>16
  <1>18. full <=> length > DT_CONTROL_MAX_JOBS
    OBVIOUS
  <1> HIDE DEF length, full, last, dup
  <1>10. queues' \in [Queues -> Seq(Jobs)] /\ queue_length' \in [Queues -> Nat]
    BY <1>1, <1>7, <1>8, <1>9 DEF IInv, TypeOK
  <1>11. /\ state' \in [Jobs -> States]
         /\ \A i \in Jobs : state[i] # "UNBORN" => state'[i] # "UNBORN"
    BY <1>1 DEF IInv, TypeOK, States
  <1>12. progress' \subseteq Jobs /\ refused' \subseteq Jobs
    BY <1>1, <1>2, <1>8 DEF IInv, TypeOK
  <1>13. queues'[q] = IF full THEN Front(stack) ELSE stack
    BY <1>1 DEF IInv, TypeOK
  <1>14. \A i \in DOMAIN queues'[q] : Good(queues'[q][i])
    BY <1>7, <1>8, <1>13
  <1>15. \A r \in Queues \ {q} : queues'[r] = queues[r]
    BY <1>1 DEF IInv, TypeOK
  <1>19. queue_length'[q] = Len(queues'[q]) /\ queue_length'[q] <= DT_CONTROL_MAX_JOBS
    <2>1. queue_length'[q] = IF full THEN length - 1 ELSE length
      BY <1>1 DEF IInv, TypeOK
    <2> QED
      BY <1>8, <1>9, <1>13, <1>17, <1>18, <2>1
  <1>20. \A r \in Queues \ {q} : queue_length'[r] = queue_length[r]
    BY <1>1 DEF IInv, TypeOK
  <1>21. LengthIsExact'
    BY <1>15, <1>19, <1>20 DEF IInv, LengthIsExact
  <1> QED
    BY <1>10, <1>11, <1>12, <1>14, <1>15, <1>21

\* The critical section of dt_control_add_job.
LEMMA AddLockedStep ==
    ASSUME IInv, NEW c \in Clients, AddLocked(c)
    PROVE  IInv'
  <1> USE JobsAssumption, QueueNumbers
  <1>1. /\ pc[c] = "add" /\ c \in Threads /\ c \notin Workers
        /\ cur[c] \in Jobs /\ request[c] \in Queues
        /\ queue[cur[c]] = request[c] /\ state[cur[c]] # "UNBORN"
    BY DEF IInv, AddCallOK, AddLocked, Threads
  <1>2. UNCHANGED <<queue, job, export_scheduled, resVars, request, stopVars, executed>>
    BY DEF AddLocked
  <1>3. priority' \in [Jobs -> 0..(PriorityMod - 1)]
    BY <1>1 DEF AddLocked, InitialPriority, IInv, TypeOK
  <1>4. /\ state' \in [Jobs -> States]
        /\ \A j \in Jobs : state[j] # "UNBORN" => state'[j] # "UNBORN"
        /\ progress' \subseteq Jobs /\ refused' \subseteq Jobs
        /\ queues' \in [Queues -> Seq(Jobs)] /\ queue_length' \in [Queues -> Nat]
        /\ \A q \in Queues : \A i \in DOMAIN queues'[q] :
              queue[queues'[q][i]] = q /\ state'[queues'[q][i]] # "UNBORN"
        /\ \E label \in {"notify", "discard"} : pc' = [pc EXCEPT ![c] = label]
        /\ \E j \in Jobs \cup {NULL} : cur' = [cur EXCEPT ![c] = j]
        /\ pc'[c] = "discard" => cur'[c] \in Jobs
        /\ LengthIsExact'
    <2>1. CASE request[c] = DT_JOB_QUEUE_SYSTEM_FG /\ AlreadyScheduled(cur[c])
      <3>1. /\ UNCHANGED <<state, progress, queues, queue_length, cur>>
            /\ refused' = refused \cup {cur[c]}
            /\ pc' = [pc EXCEPT ![c] = "discard"]
        BY <2>1 DEF AddLocked, Goto
      <3>2. cur' = [cur EXCEPT ![c] = cur[c]]
        BY <3>1 DEF IInv, TypeOK
      <3>3. \A q \in Queues : \A i \in DOMAIN queues'[q] :
              queue[queues'[q][i]] = q /\ state'[queues'[q][i]] # "UNBORN"
        BY <3>1 DEF IInv, QueuesOK
      <3>4. refused' \subseteq Jobs
        BY <1>1, <3>1 DEF IInv, TypeOK
      <3>5. LengthIsExact'
        BY <3>1 DEF IInv, LengthIsExact
      <3> QED
        BY <1>1, <3>1, <3>2, <3>3, <3>4, <3>5 DEF IInv, TypeOK
    <2>2. CASE request[c] = DT_JOB_QUEUE_SYSTEM_FG /\ ~AlreadyScheduled(cur[c])
      <3>1. AddToStack(c, cur[c])
        BY <2>2 DEF AddLocked
      <3>2. /\ queues' \in [Queues -> Seq(Jobs)]
            /\ state' \in [Jobs -> States]
            /\ \A j \in Jobs : state[j] # "UNBORN" => state'[j] # "UNBORN"
            /\ progress' \subseteq Jobs /\ refused' \subseteq Jobs
            /\ queue_length' \in [Queues -> Nat]
            /\ \A i \in DOMAIN queues'[DT_JOB_QUEUE_SYSTEM_FG] :
                 LET j == queues'[DT_JOB_QUEUE_SYSTEM_FG][i]
                 IN  queue[j] = DT_JOB_QUEUE_SYSTEM_FG /\ state[j] # "UNBORN" /\ j \in Jobs
            /\ \A q \in Queues \ {DT_JOB_QUEUE_SYSTEM_FG} : queues'[q] = queues[q]
            /\ LengthIsExact'
        BY <1>1, <2>2, <3>1, StackElements
      <3>3. /\ pc' = [pc EXCEPT ![c] = "notify"]
            /\ \E j \in Jobs \cup {NULL} : cur' = [cur EXCEPT ![c] = j]
        BY <1>1, <3>1 DEF AddToStack, Goto
      <3>4. ASSUME NEW q \in Queues, NEW i \in DOMAIN queues'[q]
            PROVE  queue[queues'[q][i]] = q /\ state'[queues'[q][i]] # "UNBORN"
        <4>1. CASE q = DT_JOB_QUEUE_SYSTEM_FG
          BY <3>2, <4>1
        <4>2. CASE q # DT_JOB_QUEUE_SYSTEM_FG
          <5>1. queues'[q] = queues[q] /\ queues[q] \in Seq(Jobs)
            BY <3>2, <4>2 DEF IInv, TypeOK
          <5>2. i \in DOMAIN queues[q] /\ queues[q][i] \in Jobs
            BY <5>1
          <5>3. queue[queues[q][i]] = q /\ state[queues[q][i]] # "UNBORN"
            BY <5>2 DEF IInv, QueuesOK
          <5> QED
            BY <3>2, <5>1, <5>2, <5>3
        <4> QED
          BY <4>1, <4>2
      <3>5. pc'[c] = "notify"
        BY <1>1, <3>3 DEF IInv, TypeOK
      <3> QED
        BY <3>2, <3>3, <3>4, <3>5
    <2>3. CASE request[c] # DT_JOB_QUEUE_SYSTEM_FG
      <3> DEFINE q == request[c]
                 j == cur[c]
      <3>1. /\ queues' = [queues EXCEPT ![q] = Append(@, j)]
            /\ queue_length' = [queue_length EXCEPT ![q] = @ + 1]
            /\ state' = [state EXCEPT ![j] = "QUEUED"]
            /\ progress' \subseteq progress
            /\ cur' = [cur EXCEPT ![c] = NULL]
            /\ pc' = [pc EXCEPT ![c] = "notify"]
            /\ refused' = refused
        BY <2>3 DEF AddLocked, AddToFifo, set_state, Goto
      <3> HIDE DEF q, j
      <3>2. j \in Jobs /\ q \in Queues /\ queue[j] = q
        BY <1>1 DEF q, j
      <3>3. /\ state' \in [Jobs -> States]
            /\ \A i \in Jobs : state[i] # "UNBORN" => state'[i] # "UNBORN"
            /\ state'[j] # "UNBORN"
        BY <3>1, <3>2 DEF IInv, TypeOK, States
      <3>4. queues' \in [Queues -> Seq(Jobs)] /\ queue_length' \in [Queues -> Nat]
        <4>1. queues \in [Queues -> Seq(Jobs)] /\ queue_length \in [Queues -> Nat]
          BY DEF IInv, TypeOK
        <4>2. Append(queues[q], j) \in Seq(Jobs) /\ queue_length[q] + 1 \in Nat
          BY <3>2, <4>1
        <4> QED
          BY <3>1, <3>2, <4>1, <4>2
      <3>5. ASSUME NEW r \in Queues, NEW i \in DOMAIN queues'[r]
            PROVE  queue[queues'[r][i]] = r /\ state'[queues'[r][i]] # "UNBORN"
        <4>1. queues[r] \in Seq(Jobs) /\ queues'[r] = IF r = q THEN Append(queues[r], j) ELSE queues[r]
          BY <3>1, <3>2 DEF IInv, TypeOK
        <4>2. (r = q /\ queues'[r][i] = j)
              \/ (i \in DOMAIN queues[r] /\ queues'[r][i] = queues[r][i] /\ queues[r][i] \in Jobs)
          BY <4>1, <3>2
        <4> QED
          BY <3>2, <3>3, <4>2 DEF IInv, QueuesOK
      <3>6. pc'[c] = "notify"
        BY <1>1, <3>1 DEF IInv, TypeOK
      <3>7. LengthIsExact'
        <4>0. /\ queues \in [Queues -> Seq(Jobs)] /\ queue_length \in [Queues -> Nat]
              /\ \A r \in Queues : queue_length[r] = Len(queues[r])
          BY DEF IInv, TypeOK, LengthIsExact
        <4>1. ASSUME NEW r \in Queues PROVE queue_length'[r] = Len(queues'[r])
          <5>1. CASE r = q
            <6>1. queues'[r] = Append(queues[q], j) /\ queue_length'[r] = queue_length[q] + 1
              BY <3>1, <3>2, <4>0, <5>1
            <6>2. Len(Append(queues[q], j)) = Len(queues[q]) + 1
              BY <3>2, <4>0
            <6> QED
              BY <3>2, <4>0, <6>1, <6>2
          <5>2. CASE r # q
            BY <3>1, <3>2, <4>0, <5>2
          <5> QED
            BY <5>1, <5>2
        <4>2. queue_length'[DT_JOB_QUEUE_SYSTEM_FG] = queue_length[DT_JOB_QUEUE_SYSTEM_FG]
          BY <2>3, <3>1 DEF IInv, TypeOK, q
        <4> QED
          BY <4>1, <4>2 DEF IInv, LengthIsExact
      <3> QED
        BY <3>1, <3>3, <3>4, <3>5, <3>6, <3>7 DEF IInv, TypeOK
    <2> QED
      BY <2>1, <2>2, <2>3
  <1>5. PICK label \in {"notify", "discard"} : pc' = [pc EXCEPT ![c] = label]
    BY <1>4
  <1>6. PICK k \in Jobs \cup {NULL} : cur' = [cur EXCEPT ![c] = k]
    BY <1>4
  <1>7. TypeOK'
    BY <1>1, <1>2, <1>3, <1>4, <1>5, <1>6 DEF IInv, TypeOK, resVars, stopVars
  <1>8. BornStays
    BY <1>2, <1>4 DEF BornStays
  <1>9. QueuesOK'
    BY <1>2, <1>4 DEF QueuesOK
  <1>10. CurOK'
    <2> SUFFICES ASSUME NEW t \in Threads, pc'[t] \in Busy PROVE cur'[t] \in Jobs
      BY DEF CurOK
    <2>1. CASE t = c
      <3>1. pc'[c] = label
        BY <1>1, <1>5 DEF IInv, TypeOK
      <3> QED
        BY <1>4, <2>1, <3>1 DEF Busy, Holding
    <2>2. CASE t # c
      <3>1. pc'[t] = pc[t] /\ cur'[t] = cur[t]
        BY <1>1, <1>5, <1>6, <2>2 DEF IInv, TypeOK
      <3> QED
        BY <3>1 DEF IInv, CurOK
    <2> QED
      BY <2>1, <2>2
  <1>11. /\ \A w \in Workers : pc'[w] = pc[w] /\ cur'[w] = cur[w]
         /\ \A d \in Clients : pc'[d] = "add" => pc[d] = "add" /\ cur'[d] = cur[d]
    BY <1>1, <1>5, <1>6 DEF IInv, TypeOK, Threads
  <1>12. StoppedOK'
    BY <1>2, <1>11 DEF IInv, StoppedOK, stopVars
  <1> QED
    BY <1>2, <1>4, <1>7, <1>8, <1>9, <1>10, <1>11, <1>12, QueueStep

\* dt_control_schedule_job: an export is scheduled only when the flag was down, that is,
\* when no worker holds one.
LEMMA ScheduleStep ==
    ASSUME IInv, NEW w \in Workers, Schedule(w)
    PROVE  IInv'
  <1> USE JobsAssumption, QueueNumbers
  <1>1. PICK q \in Queues :
          /\ IsWinner(q)
          /\ LET j == Head(queues[q])
                 aged == {Head(queues[r]) : r \in {r \in Queues \ {q} : queues[r] # <<>>}}
             IN  /\ queues' = [queues EXCEPT ![q] = Tail(@)]
                 /\ queue_length' = [queue_length EXCEPT ![q] = @ - 1]
                 /\ export_scheduled' = (export_scheduled \/ q = DT_JOB_QUEUE_USER_EXPORT)
                 /\ job' = [job EXCEPT ![w] = j]
                 /\ priority' = [i \in Jobs |-> IF i \in aged THEN Aged(priority[i])
                                                ELSE priority[i]]
                 /\ cur' = [cur EXCEPT ![w] = j]
                 /\ pc' = [pc EXCEPT ![w] = "test"]
    BY DEF Schedule, Goto
  <1> DEFINE j == Head(queues[q])
  <1>2. UNCHANGED <<state, queue, progress, resVars, request, stopVars, history>> /\ pc[w] = "pick"
    BY DEF Schedule
  <1>3. queues[q] \in Seq(Jobs) /\ queues[q] # <<>> /\ ~(export_scheduled /\ q = DT_JOB_QUEUE_USER_EXPORT)
    BY <1>1 DEF IsWinner, Candidates, IInv, TypeOK
  <1>4. /\ Tail(queues[q]) \in Seq(Jobs) /\ j \in Jobs /\ j = queues[q][1] /\ 1 \in DOMAIN queues[q]
        /\ \A i \in DOMAIN Tail(queues[q]) : i + 1 \in DOMAIN queues[q] /\ Tail(queues[q])[i] = queues[q][i + 1]
    BY <1>3
  <1>5. queue[j] = q /\ state[j] # "UNBORN" /\ j # NULL
    BY <1>4 DEF IInv, QueuesOK
  <1>6. w \in Threads /\ w \notin Clients
    BY DEF Threads
  <1> HIDE DEF j
  <1>7. TypeOK'
    <2>1. priority' \in [Jobs -> 0..(PriorityMod - 1)]
      <3>1. \A p \in 0..(PriorityMod - 1) : Aged(p) \in 0..(PriorityMod - 1)
        BY DEF Aged
      <3>2. priority \in [Jobs -> 0..(PriorityMod - 1)]
        BY DEF IInv, TypeOK
      <3>3. \E A : priority' = [i \in Jobs |-> IF i \in A THEN Aged(priority[i]) ELSE priority[i]]
        BY <1>1
      <3> QED
        BY <3>1, <3>2, <3>3
    <2>2. queues' \in [Queues -> Seq(Jobs)]
      BY <1>1, <1>4 DEF IInv, TypeOK
    <2>3. queue_length' \in [Queues -> Nat]
      <3>1. queue_length[q] \in Nat \ {0}
        BY <1>3 DEF IInv, LengthIsExact
      <3>2. queue_length \in [Queues -> Nat] /\ queue_length' = [queue_length EXCEPT ![q] = @ - 1]
        BY <1>1 DEF IInv, TypeOK
      <3>3. queue_length[q] - 1 \in Nat
        BY <3>1
      <3> QED
        BY <3>2, <3>3
    <2>4. /\ job' \in [Workers -> Jobs \cup {NULL}] /\ cur' \in [Threads -> Jobs \cup {NULL}]
          /\ export_scheduled' \in BOOLEAN
      BY <1>1, <1>4, <1>6 DEF IInv, TypeOK, j
    <2> QED
      BY <1>1, <1>2, <1>6, <2>1, <2>2, <2>3, <2>4
      DEF IInv, TypeOK, resVars, stopVars, history
  <1>8. BornStays
    BY <1>2 DEF BornStays
  <1>9. LengthIsExact'
    <2>1. Len(Tail(queues[q])) = Len(queues[q]) - 1
      BY <1>3
    <2>4. /\ queues \in [Queues -> Seq(Jobs)] /\ queue_length \in [Queues -> Nat]
          /\ \A r \in Queues : queue_length[r] = Len(queues[r])
          /\ queues' = [queues EXCEPT ![q] = Tail(@)]
          /\ queue_length' = [queue_length EXCEPT ![q] = @ - 1]
      BY <1>1 DEF IInv, TypeOK, LengthIsExact
    <2>2. ASSUME NEW r \in Queues
          PROVE  queue_length'[r] = Len(queues'[r]) /\ queue_length'[r] <= queue_length[r]
      <3>1. CASE r = q
        <4>1. queues'[r] = Tail(queues[q]) /\ queue_length'[r] = queue_length[q] - 1
          BY <2>4, <3>1
        <4>2. queue_length[q] = Len(queues[q]) /\ Len(queues[q]) \in Nat
          BY <2>4
        <4> QED
          BY <2>1, <3>1, <4>1, <4>2
      <3>2. CASE r # q
        <4>1. queues'[r] = queues[r] /\ queue_length'[r] = queue_length[r] /\ queue_length[r] \in Nat
          BY <2>4, <3>2
        <4> QED
          BY <2>4, <4>1
      <3> QED
        BY <3>1, <3>2
    <2>3. /\ queue_length'[DT_JOB_QUEUE_SYSTEM_FG] \in Nat
          /\ queue_length[DT_JOB_QUEUE_SYSTEM_FG] \in Nat
          /\ queue_length[DT_JOB_QUEUE_SYSTEM_FG] <= DT_CONTROL_MAX_JOBS
      BY <1>7 DEF IInv, TypeOK, LengthIsExact
    <2> QED
      BY <2>2, <2>3 DEF LengthIsExact
  <1>10. QueuesOK'
    <2> SUFFICES ASSUME NEW r \in Queues, NEW i \in DOMAIN queues'[r]
                 PROVE  queue[queues'[r][i]] = r /\ state[queues'[r][i]] # "UNBORN"
      BY <1>2 DEF QueuesOK
    <2>1. CASE r = q
      <3>1. queues'[r] = Tail(queues[q])
        BY <1>1, <2>1 DEF IInv, TypeOK
      <3> QED
        BY <1>4, <2>1, <3>1 DEF IInv, QueuesOK
    <2>2. CASE r # q
      BY <1>1, <2>2 DEF IInv, TypeOK, QueuesOK
    <2> QED
      BY <2>1, <2>2
  <1>11. \A v \in Workers \ {w} : pc'[v] = pc[v] /\ cur'[v] = cur[v] /\ job'[v] = job[v]
    BY <1>1 DEF IInv, TypeOK, Threads
  <1>12. pc'[w] = "test" /\ cur'[w] = j /\ job'[w] = j
    BY <1>1, <1>6 DEF IInv, TypeOK, j
  <1>13. HeldOK'
    BY <1>2, <1>5, <1>11, <1>12 DEF IInv, HeldOK, Holding
  <1>14. StoppedOK'
    BY <1>2 DEF IInv, StoppedOK, stopVars
  <1>15. FlagOK'
    BY <1>1, <1>2, <1>5, <1>11, <1>12 DEF IInv, TypeOK, FlagOK
  <1>16. OneExport'
    <2> SUFFICES ASSUME NEW u \in Workers, NEW v \in Workers, u # v,
                        job'[u] # NULL, queue[job'[u]] = DT_JOB_QUEUE_USER_EXPORT,
                        job'[v] # NULL, queue[job'[v]] = DT_JOB_QUEUE_USER_EXPORT
                 PROVE  FALSE
      BY <1>2 DEF OneExport
    <2>1. CASE w \notin {u, v}
      BY <1>11, <2>1 DEF IInv, OneExport
    <2>2. CASE w \in {u, v}
      <3>1. q = DT_JOB_QUEUE_USER_EXPORT
        BY <1>5, <1>12, <2>2
      <3>2. PICK x \in Workers \ {w} : job[x] # NULL /\ queue[job[x]] = DT_JOB_QUEUE_USER_EXPORT
        BY <1>11, <2>2
      <3> QED
        BY <1>3, <3>1, <3>2 DEF IInv, FlagOK
    <2> QED
      BY <2>1, <2>2
  <1>17. CurOK'
    <2>1. \A t \in Threads \ {w} : pc'[t] = pc[t] /\ cur'[t] = cur[t]
      BY <1>1 DEF IInv, TypeOK
    <2> QED
      BY <1>4, <1>12, <2>1 DEF IInv, CurOK
  <1>18. AddCallOK'
    <2>1. \A c \in Clients : pc'[c] = pc[c] /\ cur'[c] = cur[c] /\ request'[c] = request[c]
      BY <1>1, <1>2, <1>6 DEF IInv, TypeOK, Threads
    <2> QED
      BY <1>2, <2>1 DEF IInv, AddCallOK
  <1> QED
    BY <1>7, <1>9, <1>10, <1>13, <1>14, <1>15, <1>16, <1>17, <1>18 DEF IInv

\* A worker clears its slot; if its job was an export it was the only one, so the flag
\* may go down.
LEMMA ClearStep ==
    ASSUME IInv, NEW w \in Workers, Clear(w)
    PROVE  IInv'
  <1> USE JobsAssumption, QueueNumbers
  <1>1. /\ pc[w] = "clear"
        /\ job' = [job EXCEPT ![w] = NULL]
        /\ export_scheduled' = (export_scheduled /\ queue[cur[w]] # DT_JOB_QUEUE_USER_EXPORT)
        /\ pc' = [pc EXCEPT ![w] = "dispose"]
        /\ UNCHANGED <<state, priority, queue, progress, queues, queue_length, resVars, cur,
                       request, stopVars, history>>
    BY DEF Clear, Goto, jobVars
  <1>2. w \in Threads /\ w \notin Clients
    BY DEF Threads
  <1>3. job[w] \in Jobs /\ job[w] = cur[w]
    BY <1>1 DEF IInv, TypeOK, HeldOK, Holding
  <1>4. TypeOK'
    BY <1>1, <1>2 DEF IInv, TypeOK, resVars, stopVars, history
  <1>5. \A v \in Workers \ {w} : pc'[v] = pc[v] /\ job'[v] = job[v]
    BY <1>1, <1>2 DEF IInv, TypeOK, Threads
  <1>6. pc'[w] = "dispose" /\ job'[w] = NULL
    BY <1>1, <1>2 DEF IInv, TypeOK
  <1>7. HeldOK'
    BY <1>1, <1>5, <1>6 DEF IInv, HeldOK, Holding
  <1>8. FlagOK'
    BY <1>1, <1>3, <1>5, <1>6 DEF IInv, TypeOK, FlagOK, OneExport
  <1>9. OneExport'
    BY <1>1, <1>5, <1>6 DEF IInv, OneExport
  <1>10. QueuesOK' /\ LengthIsExact'
    BY <1>1 DEF IInv, QueuesOK, LengthIsExact
  <1>11. StoppedOK'
    BY <1>1 DEF IInv, StoppedOK, stopVars
  <1>12. \A t \in Threads \ {w} : pc'[t] = pc[t]
    BY <1>1 DEF IInv, TypeOK
  <1>13. CurOK'
    BY <1>1, <1>3, <1>12 DEF IInv, CurOK
  <1>14. AddCallOK'
    BY <1>1, <1>2, <1>12 DEF IInv, AddCallOK, Threads
  <1> QED
    BY <1>4, <1>7, <1>8, <1>9, <1>10, <1>11, <1>13, <1>14 DEF IInv

\* The drain resets the flag when every worker has left.
LEMMA DrainStep ==
    ASSUME IInv, Drain
    PROVE  IInv'
  <1> USE JobsAssumption, QueueNumbers
  <1>1. /\ main \in {"drain", "cleanup"}
        /\ doomed' = UNION {ToSet(queues[q]) : q \in Queues}
        /\ queues' = [q \in Queues |-> <<>>]
        /\ queue_length' = [q \in Queues |-> 0]
        /\ export_scheduled' = FALSE
        /\ main' \in {"dispose", "disposeAgain"}
        /\ UNCHANGED <<state, priority, queue, progress, job, resVars, pc, cur, request,
                       running, kicker, drained, history>>
    BY DEF Drain, QueuedJobs, jobVars, threadVars
  <1>2. \A w \in Workers : pc[w] = "exit" /\ job[w] = NULL
    BY <1>1 DEF IInv, StoppedOK, HeldOK, Holding
  <1>3. doomed' \subseteq Jobs
    <2>1. \A q \in Queues : queues[q] \in Seq(Jobs)
      BY DEF IInv, TypeOK
    <2>2. \A q \in Queues : ToSet(queues[q]) \subseteq Jobs
      BY <2>1 DEF ToSet
    <2> QED
      BY <1>1, <2>2
  <1>4. TypeOK'
    <2>1. queues' \in [Queues -> Seq(Jobs)] /\ queue_length' \in [Queues -> Nat]
      BY <1>1
    <2> QED
      BY <1>1, <1>3, <2>1 DEF IInv, TypeOK, resVars, history
  <1>5. CurOK' /\ AddCallOK' /\ HeldOK' /\ StoppedOK'
    BY <1>1, <1>2 DEF IInv, CurOK, AddCallOK, HeldOK, StoppedOK
  <1>6. QueuesOK' /\ LengthIsExact'
    BY <1>1 DEF QueuesOK, LengthIsExact
  <1>7. FlagOK' /\ OneExport'
    BY <1>1, <1>2 DEF FlagOK, OneExport
  <1> QED
    BY <1>4, <1>5, <1>6, <1>7 DEF IInv

\* IInv is preserved by every step, one case per action.
LEMMA NextIInv == IInv /\ [Next]_vars => IInv'
  <1> SUFFICES ASSUME IInv, [Next]_vars PROVE IInv'
    OBVIOUS
  <1>1. CASE \E c \in Clients : Submit(c) \/ ClientStep(c)
    <2>1. PICK c \in Clients : Submit(c) \/ ClientStep(c)
      BY <1>1
    <2>2. c \in Threads
      BY DEF Threads
    <2> QED
      BY <2>1, <2>2, AddJobStep, AddJobResStep, SyncStartStep, SyncFinishStep, AddLockedStep,
         NotifyStep, DiscardStep, DisposeStep
      DEF Submit, ClientStep
  <1>2. CASE \E t \in WorkerThreads : WorkerStep(t)
    <2>1. PICK t \in WorkerThreads : WorkerStep(t)
      BY <1>2
    <2>2. t \in Threads
      BY DEF Threads, WorkerThreads
    <2>3. CASE CheckRunning(t) \/ Sleep(t) \/ TestQueued(t) \/ Start(t) \/ Finish(t) \/ Dispose(t)
      BY <2>2, <2>3, CheckRunningStep, SleepStep, TestQueuedStep, StartStep, FinishStep, DisposeStep
    <2>4. CASE t \in Workers /\ (Schedule(t) \/ NothingToSchedule(t) \/ Clear(t))
      BY <2>4, ScheduleStep, NothingToScheduleStep, ClearStep
    <2>5. CASE t \in Reserved /\ TakeReserved(t)
      BY <2>5, TakeReservedStep
    <2> QED
      BY <2>1, <2>3, <2>4, <2>5 DEF WorkerStep
  <1>3. CASE KickerStep
    BY <1>3, KickerThreadStep
  <1>4. CASE Cancel
    BY <1>4, CancelStep DEF Cancel
  <1>5. CASE EnterDarkroom
    BY <1>5, EnterDarkroomStep
  <1>6. CASE Quit \/ ShutdownStop \/ Shutdown
    BY <1>6, StopStep, DrainStep DEF Shutdown
  <1>7. CASE UNCHANGED vars
    <2>1. UNCHANGED <<state, priority, queue, progress, queues, queue_length, job,
                      export_scheduled, job_res, new_res, pc, cur, request, running, kicker,
                      main, doomed, drained, executed, refused>>
      BY <1>7 DEF vars, jobVars, queueVars, resVars, threadVars, stopVars, history
    <2> QED
      BY <2>1 DEF IInv, TypeOK, CurOK, AddCallOK, HeldOK, QueuesOK, StoppedOK, FlagOK,
                  OneExport, LengthIsExact
  <1> QED
    BY <1>1, <1>2, <1>3, <1>4, <1>5, <1>6, <1>7 DEF Next

----------------------------------------------------------------------------
\* IInv holds in every reachable state of the job system.
THEOREM Invariant == Spec => []IInv
  BY InitIInv, NextIInv, PTL DEF Spec

\* Every field and local variable of the job system keeps its type; in particular no
\* worker and no client of dt_control_add_job ever uses a NULL job.
THEOREM TypeCorrect == Spec => []TypeOK
  <1>1. IInv => TypeOK
    BY DEF IInv
  <1> QED
    BY <1>1, Invariant, PTL

\* jobs.h: of the export queue "only one of these jobs will ever be scheduled at a time",
\* for any number of workers, jobs and clients and any pattern of cancels and shutdown.
THEOREM ExportsNeverOverlap == Spec => []OneExport
  <1>1. IInv => OneExport
    BY DEF IInv
  <1> QED
    BY <1>1, Invariant, PTL

\* The lengths kept beside the queues are exact, so the SYSTEM_FG stack never exceeds
\* DT_CONTROL_MAX_JOBS whatever bubbling up and pushing out has happened.
THEOREM LengthsExact == Spec => []LengthIsExact
  <1>1. IInv => LengthIsExact
    BY DEF IInv
  <1> QED
    BY <1>1, Invariant, PTL
----------------------------------------------------------------------------
(***************************************************************************)
(* Ownership.  The places that hold a pointer they will run or dispose of: *)
(* the queues, the local variables of the threads, the reserved slots, and *)
(* the list the drain has detached.  A job is live exactly while it is in  *)
(* one place, and no place is overwritten while it holds a job.            *)
(***************************************************************************)
Queued(j) == \E q \in Queues : j \in ToSet(queues[q])
Held(j) == \E t \in Threads : cur[t] = j
Slotted(j) == \E r \in Reserved : job_res[r] = j

\* No job is twice in a queue, in two hands, or in two slots.  That it is not in two
\* queues is QueuesOK.
DistinctOK ==
    /\ \A q \in Queues : IsInjective(queues[q])
    /\ \A s, t \in Threads : cur[s] # NULL /\ cur[s] = cur[t] => s = t
    /\ \A r, s \in Reserved : job_res[r] # NULL /\ job_res[r] = job_res[s] => r = s

\* Nor is it in places of two kinds; and it is live exactly if it is in a place.
PlacesOK ==
    \A j \in Jobs :
        /\ Queued(j) => ~Held(j) /\ ~Slotted(j) /\ j \notin doomed
        /\ Held(j) => ~Slotted(j) /\ j \notin doomed
        /\ Slotted(j) => j \notin doomed
        /\ Live(j) <=> Queued(j) \/ Held(j) \/ Slotted(j) \/ j \in doomed

\* A thread that will overwrite its local variable has put its job elsewhere, or freed it.
EmptyHanded == \A t \in Threads : pc[t] \notin Busy \cup {"notify"} => cur[t] = NULL

\* The list of the drain is empty when it is filled.
DoomedOK == main \notin {"dispose", "disposeAgain"} => doomed = {}

OwnInv ==
    /\ DistinctOK
    /\ PlacesOK
    /\ EmptyHanded
    /\ DoomedOK
    /\ progress \subseteq {j \in Jobs : Live(j)}

(***************************************************************************)
(* The fate of a job.  A thread that is about to dispose of its job has    *)
(* executed it, or the job was refused; a job that waits and is no longer  *)
(* QUEUED was cancelled; what was executed is never waiting again.         *)
(***************************************************************************)
Executing == {"exec", "syncexec", "clear", "dispose"}

HandsOK ==
    \A t \in Threads :
        /\ pc[t] \in {"exec", "syncexec"} => cur[t] \in executed
        /\ pc[t] = "discard" \/ (pc[t] = "notify" /\ cur[t] # NULL) => cur[t] \in refused
        /\ pc[t] \in {"clear", "dispose"} => cur[t] \in executed \cup refused
        /\ pc[t] = "test" => state[cur[t]] = "QUEUED" \/ cur[t] \in refused

WaitingOK ==
    \A j \in Jobs : Queued(j) \/ Slotted(j) => state[j] = "QUEUED" \/ j \in refused

ExecutedOK ==
    \A j \in executed :
        /\ ~Queued(j) /\ ~Slotted(j) /\ state[j] # "UNBORN"
        /\ \A t \in Threads : cur[t] = j => pc[t] \in Executing

FateInv == HandsOK /\ WaitingOK /\ ExecutedOK /\ NoSilentLoss

\* What steps that leave every place alone must show of jobs and threads.
LEMMA PlacesKept ==
    ASSUME IInv, OwnInv, UNCHANGED <<queues, cur, job_res, doomed>>,
           \A j \in Jobs : Live(j)' <=> Live(j),
           progress' \subseteq progress, EmptyHanded', DoomedOK'
    PROVE  OwnInv'
  <1>1. DistinctOK'
    BY DEF OwnInv, DistinctOK
  <1>2. PlacesOK'
    BY DEF OwnInv, PlacesOK, Queued, Held, Slotted
  <1>3. progress' \subseteq {j \in Jobs : Live(j)'}
    BY DEF OwnInv
  <1> QED
    BY <1>1, <1>2, <1>3 DEF OwnInv

\* What was executed does not wait again, in such a step ...
LEMMA ExecutedKept ==
    ASSUME IInv, FateInv, UNCHANGED <<queues, cur, job_res, executed>>,
           \A j \in Jobs : state[j] # "UNBORN" => state'[j] # "UNBORN",
           \A s \in Threads : pc[s] \in Executing => pc'[s] \in Executing
    PROVE  ExecutedOK'
  <1>1. \A j : (Queued(j)' <=> Queued(j)) /\ (Slotted(j)' <=> Slotted(j))
    BY DEF Queued, Slotted
  <1>2. executed \subseteq Jobs
    BY DEF IInv, TypeOK
  <1> QED
    BY <1>1, <1>2 DEF FateInv, ExecutedOK

\* ... nor does the job that the step executes.
LEMMA ExecutedGrows ==
    ASSUME IInv, OwnInv, FateInv, UNCHANGED <<queues, cur, job_res>>,
           NEW t \in Threads, cur[t] \in Jobs, Held(cur[t]),
           executed' = executed \cup {cur[t]}, pc'[t] \in Executing,
           \A s \in Threads \ {t} : pc'[s] = pc[s],
           \A j \in Jobs : state[j] # "UNBORN" => state'[j] # "UNBORN",
           state'[cur[t]] # "UNBORN"
    PROVE  ExecutedOK'
  <1>1. \A j : (Queued(j)' <=> Queued(j)) /\ (Slotted(j)' <=> Slotted(j))
    BY DEF Queued, Slotted
  <1>2. executed \subseteq Jobs
    BY DEF IInv, TypeOK
  <1>3. \A s \in Threads : cur[s] = cur[t] => s = t
    BY JobsAssumption DEF OwnInv, DistinctOK
  <1>4. ~Queued(cur[t]) /\ ~Slotted(cur[t])
    BY DEF OwnInv, PlacesOK
  <1> QED
    BY <1>1, <1>2, <1>3, <1>4 DEF FateInv, ExecutedOK

\* The submitter executes its job: it keeps it.
LEMMA SyncStartOwn ==
    ASSUME IInv, OwnInv, FateInv, NEW c \in Clients, SyncStart(c)
    PROVE  OwnInv' /\ FateInv'
  <1> USE JobsAssumption
  <1>1. UNCHANGED <<queues, cur, job_res, doomed>>
    BY DEF SyncStart, set_state, AtLeastFinished, Goto, jobVars, queueVars, resVars, threadVars, stopVars, history
  <1>2. \A j \in Jobs : Live(j)' <=> Live(j)
    BY DEF IInv, TypeOK, OwnInv, PlacesOK, Held, CurOK, Busy, Holding, Live, Threads, WorkerThreads, SyncStart, set_state, AtLeastFinished, Goto, jobVars, queueVars, resVars, threadVars, stopVars, history
  <1>3. progress' \subseteq progress
    BY DEF SyncStart, set_state, AtLeastFinished, Goto, jobVars, queueVars, resVars, threadVars, stopVars, history
  <1>4. EmptyHanded' /\ DoomedOK'
    BY DEF IInv, TypeOK, OwnInv, EmptyHanded, DoomedOK, Busy, Holding, Threads, WorkerThreads, SyncStart, set_state, AtLeastFinished, Goto, jobVars, queueVars, resVars, threadVars, stopVars, history
  <1>5. HandsOK'
    BY DEF IInv, TypeOK, CurOK, Busy, Holding, OwnInv, DistinctOK, FateInv, HandsOK, Threads, WorkerThreads, SyncStart, set_state, AtLeastFinished, Goto, jobVars, queueVars, resVars, threadVars, stopVars, history
  <1>6. WaitingOK'
    BY <1>1 DEF IInv, TypeOK, CurOK, Busy, Holding, OwnInv, PlacesOK, Held, FateInv, WaitingOK, Queued, Slotted, Threads, WorkerThreads, SyncStart, set_state, AtLeastFinished, Goto, jobVars, queueVars, resVars, threadVars, stopVars, history
  <1>7. ExecutedOK'
    <2>1. cur[c] \in Jobs /\ c \in Threads /\ Held(cur[c])
      BY DEF IInv, CurOK, Busy, Holding, Threads, WorkerThreads, Held, SyncStart, set_state, AtLeastFinished, Goto, jobVars, queueVars, resVars, threadVars, stopVars, history
    <2>2. /\ executed' = executed \cup {cur[c]}
          /\ pc'[c] \in Executing
          /\ \A s \in Threads \ {c} : pc'[s] = pc[s]
          /\ \A j \in Jobs : state[j] # "UNBORN" => state'[j] # "UNBORN"
          /\ state'[cur[c]] # "UNBORN"
      BY <2>1 DEF IInv, TypeOK, Executing, Threads, WorkerThreads, SyncStart, set_state, AtLeastFinished, Goto, jobVars, queueVars, resVars, threadVars, stopVars, history
    <2> QED
      BY <1>1, <2>1, <2>2, ExecutedGrows
  <1>8. NoSilentLoss'
    BY <1>2 DEF IInv, TypeOK, CurOK, Busy, Holding, FateInv, NoSilentLoss, Live, Threads, WorkerThreads, SyncStart, set_state, AtLeastFinished, Goto, jobVars, queueVars, resVars, threadVars, stopVars, history
  <1> QED
    BY <1>1, <1>2, <1>3, <1>4, <1>5, <1>6, <1>7, <1>8, PlacesKept DEF FateInv

\* ... and still has it when the execution returns.
LEMMA SyncFinishOwn ==
    ASSUME IInv, OwnInv, FateInv, NEW c \in Clients, SyncFinish(c)
    PROVE  OwnInv' /\ FateInv'
  <1> USE JobsAssumption
  <1>1. UNCHANGED <<queues, cur, job_res, doomed>>
    BY DEF SyncFinish, set_state, AtLeastFinished, Goto, jobVars, queueVars, resVars, threadVars, stopVars, history
  <1>2. \A j \in Jobs : Live(j)' <=> Live(j)
    BY DEF IInv, TypeOK, OwnInv, PlacesOK, Held, CurOK, Busy, Holding, Live, Threads, WorkerThreads, SyncFinish, set_state, AtLeastFinished, Goto, jobVars, queueVars, resVars, threadVars, stopVars, history
  <1>3. progress' \subseteq progress
    BY DEF SyncFinish, set_state, AtLeastFinished, Goto, jobVars, queueVars, resVars, threadVars, stopVars, history
  <1>4. EmptyHanded' /\ DoomedOK'
    BY DEF IInv, TypeOK, OwnInv, EmptyHanded, DoomedOK, Busy, Holding, Threads, WorkerThreads, SyncFinish, set_state, AtLeastFinished, Goto, jobVars, queueVars, resVars, threadVars, stopVars, history
  <1>5. HandsOK'
    BY DEF IInv, TypeOK, CurOK, Busy, Holding, OwnInv, DistinctOK, FateInv, HandsOK, Threads, WorkerThreads, SyncFinish, set_state, AtLeastFinished, Goto, jobVars, queueVars, resVars, threadVars, stopVars, history
  <1>6. WaitingOK'
    BY <1>1 DEF IInv, TypeOK, CurOK, Busy, Holding, OwnInv, PlacesOK, Held, FateInv, WaitingOK, Queued, Slotted, Threads, WorkerThreads, SyncFinish, set_state, AtLeastFinished, Goto, jobVars, queueVars, resVars, threadVars, stopVars, history
  <1>7. ExecutedOK'
    <2>1. \A j \in Jobs : state[j] # "UNBORN" => state'[j] # "UNBORN"
      BY DEF IInv, TypeOK, SyncFinish, set_state, AtLeastFinished, Goto, jobVars, queueVars, resVars, threadVars, stopVars, history
    <2>2. \A s \in Threads : pc[s] \in Executing => pc'[s] \in Executing
      BY DEF IInv, TypeOK, Executing, Threads, WorkerThreads, SyncFinish, set_state, AtLeastFinished, Goto, jobVars, queueVars, resVars, threadVars, stopVars, history
    <2>3. executed' = executed
      BY DEF SyncFinish, set_state, AtLeastFinished, Goto, jobVars, queueVars, resVars, threadVars, stopVars, history
    <2> QED
      BY <1>1, <2>1, <2>2, <2>3, ExecutedKept
  <1>8. NoSilentLoss'
    BY <1>2 DEF IInv, TypeOK, CurOK, Busy, Holding, FateInv, NoSilentLoss, Live, Threads, WorkerThreads, SyncFinish, set_state, AtLeastFinished, Goto, jobVars, queueVars, resVars, threadVars, stopVars, history
  <1> QED
    BY <1>1, <1>2, <1>3, <1>4, <1>5, <1>6, <1>7, <1>8, PlacesKept DEF FateInv

\* The broadcast of dt_control_add_job moves threads, not jobs.
LEMMA NotifyOwn ==
    ASSUME IInv, OwnInv, FateInv, NEW c \in Clients, Notify(c)
    PROVE  OwnInv' /\ FateInv'
  <1> USE JobsAssumption
  <1>1. UNCHANGED <<queues, cur, job_res, doomed>>
    BY DEF Notify, Broadcast, jobVars, queueVars, resVars, threadVars, stopVars, history
  <1>2. \A j \in Jobs : Live(j)' <=> Live(j)
    BY DEF IInv, TypeOK, OwnInv, PlacesOK, Held, CurOK, Busy, Holding, Live, Threads, WorkerThreads, Notify, Broadcast, jobVars, queueVars, resVars, threadVars, stopVars, history
  <1>3. progress' \subseteq progress
    BY DEF Notify, Broadcast, jobVars, queueVars, resVars, threadVars, stopVars, history
  <1>4. EmptyHanded' /\ DoomedOK'
    BY DEF IInv, TypeOK, OwnInv, EmptyHanded, DoomedOK, Busy, Holding, Threads, WorkerThreads, Notify, Broadcast, jobVars, queueVars, resVars, threadVars, stopVars, history
  <1>5. HandsOK'
    BY DEF IInv, TypeOK, CurOK, Busy, Holding, OwnInv, DistinctOK, FateInv, HandsOK, Threads, WorkerThreads, Notify, Broadcast, jobVars, queueVars, resVars, threadVars, stopVars, history
  <1>6. WaitingOK'
    BY <1>1 DEF IInv, TypeOK, CurOK, Busy, Holding, OwnInv, PlacesOK, Held, FateInv, WaitingOK, Queued, Slotted, Threads, WorkerThreads, Notify, Broadcast, jobVars, queueVars, resVars, threadVars, stopVars, history
  <1>7. ExecutedOK'
    <2>1. \A j \in Jobs : state[j] # "UNBORN" => state'[j] # "UNBORN"
      BY DEF IInv, TypeOK, Notify, Broadcast, jobVars, queueVars, resVars, threadVars, stopVars, history
    <2>2. \A s \in Threads : pc[s] \in Executing => pc'[s] \in Executing
      BY DEF IInv, TypeOK, Executing, Threads, WorkerThreads, Notify, Broadcast, jobVars, queueVars, resVars, threadVars, stopVars, history
    <2>3. executed' = executed
      BY DEF Notify, Broadcast, jobVars, queueVars, resVars, threadVars, stopVars, history
    <2> QED
      BY <1>1, <2>1, <2>2, <2>3, ExecutedKept
  <1>8. NoSilentLoss'
    BY <1>2 DEF IInv, TypeOK, CurOK, Busy, Holding, FateInv, NoSilentLoss, Live, Threads, WorkerThreads, Notify, Broadcast, jobVars, queueVars, resVars, threadVars, stopVars, history
  <1> QED
    BY <1>1, <1>2, <1>3, <1>4, <1>5, <1>6, <1>7, <1>8, PlacesKept DEF FateInv

\* A discarded job is still held by the client that dropped it.
LEMMA DiscardOwn ==
    ASSUME IInv, OwnInv, FateInv, NEW c \in Clients, Discard(c)
    PROVE  OwnInv' /\ FateInv'
  <1> USE JobsAssumption
  <1>1. UNCHANGED <<queues, cur, job_res, doomed>>
    BY DEF Discard, set_state, AtLeastFinished, Goto, jobVars, queueVars, resVars, threadVars, stopVars, history
  <1>2. \A j \in Jobs : Live(j)' <=> Live(j)
    BY DEF IInv, TypeOK, OwnInv, PlacesOK, Held, CurOK, Busy, Holding, Live, Threads, WorkerThreads, Discard, set_state, AtLeastFinished, Goto, jobVars, queueVars, resVars, threadVars, stopVars, history
  <1>3. progress' \subseteq progress
    BY DEF Discard, set_state, AtLeastFinished, Goto, jobVars, queueVars, resVars, threadVars, stopVars, history
  <1>4. EmptyHanded' /\ DoomedOK'
    BY DEF IInv, TypeOK, OwnInv, EmptyHanded, DoomedOK, Busy, Holding, Threads, WorkerThreads, Discard, set_state, AtLeastFinished, Goto, jobVars, queueVars, resVars, threadVars, stopVars, history
  <1>5. HandsOK'
    BY DEF IInv, TypeOK, CurOK, Busy, Holding, OwnInv, DistinctOK, FateInv, HandsOK, Threads, WorkerThreads, Discard, set_state, AtLeastFinished, Goto, jobVars, queueVars, resVars, threadVars, stopVars, history
  <1>6. WaitingOK'
    BY <1>1 DEF IInv, TypeOK, CurOK, Busy, Holding, OwnInv, PlacesOK, Held, FateInv, WaitingOK, Queued, Slotted, Threads, WorkerThreads, Discard, set_state, AtLeastFinished, Goto, jobVars, queueVars, resVars, threadVars, stopVars, history
  <1>7. ExecutedOK'
    <2>1. \A j \in Jobs : state[j] # "UNBORN" => state'[j] # "UNBORN"
      BY DEF IInv, TypeOK, Discard, set_state, AtLeastFinished, Goto, jobVars, queueVars, resVars, threadVars, stopVars, history
    <2>2. \A s \in Threads : pc[s] \in Executing => pc'[s] \in Executing
      BY DEF IInv, TypeOK, Executing, Threads, WorkerThreads, Discard, set_state, AtLeastFinished, Goto, jobVars, queueVars, resVars, threadVars, stopVars, history
    <2>3. executed' = executed
      BY DEF Discard, set_state, AtLeastFinished, Goto, jobVars, queueVars, resVars, threadVars, stopVars, history
    <2> QED
      BY <1>1, <2>1, <2>2, <2>3, ExecutedKept
  <1>8. NoSilentLoss'
    BY <1>2 DEF IInv, TypeOK, CurOK, Busy, Holding, FateInv, NoSilentLoss, Live, Threads, WorkerThreads, Discard, set_state, AtLeastFinished, Goto, jobVars, queueVars, resVars, threadVars, stopVars, history
  <1> QED
    BY <1>1, <1>2, <1>3, <1>4, <1>5, <1>6, <1>7, <1>8, PlacesKept DEF FateInv

\* A worker between two jobs has none.
LEMMA CheckRunningOwn ==
    ASSUME IInv, OwnInv, FateInv, NEW t \in WorkerThreads, CheckRunning(t)
    PROVE  OwnInv' /\ FateInv'
  <1> USE JobsAssumption
  <1>1. UNCHANGED <<queues, cur, job_res, doomed>>
    BY DEF CheckRunning, Goto, jobVars, queueVars, resVars, threadVars, stopVars, history
  <1>2. \A j \in Jobs : Live(j)' <=> Live(j)
    BY DEF IInv, TypeOK, OwnInv, PlacesOK, Held, CurOK, Busy, Holding, Live, Threads, WorkerThreads, CheckRunning, Goto, jobVars, queueVars, resVars, threadVars, stopVars, history
  <1>3. progress' \subseteq progress
    BY DEF CheckRunning, Goto, jobVars, queueVars, resVars, threadVars, stopVars, history
  <1>4. EmptyHanded' /\ DoomedOK'
    BY DEF IInv, TypeOK, OwnInv, EmptyHanded, DoomedOK, Busy, Holding, Threads, WorkerThreads, CheckRunning, Goto, jobVars, queueVars, resVars, threadVars, stopVars, history
  <1>5. HandsOK'
    BY DEF IInv, TypeOK, CurOK, Busy, Holding, OwnInv, DistinctOK, FateInv, HandsOK, Threads, WorkerThreads, CheckRunning, Goto, jobVars, queueVars, resVars, threadVars, stopVars, history
  <1>6. WaitingOK'
    BY <1>1 DEF IInv, TypeOK, CurOK, Busy, Holding, OwnInv, PlacesOK, Held, FateInv, WaitingOK, Queued, Slotted, Threads, WorkerThreads, CheckRunning, Goto, jobVars, queueVars, resVars, threadVars, stopVars, history
  <1>7. ExecutedOK'
    <2>1. \A j \in Jobs : state[j] # "UNBORN" => state'[j] # "UNBORN"
      BY DEF IInv, TypeOK, CheckRunning, Goto, jobVars, queueVars, resVars, threadVars, stopVars, history
    <2>2. \A s \in Threads : pc[s] \in Executing => pc'[s] \in Executing
      BY DEF IInv, TypeOK, Executing, Threads, WorkerThreads, CheckRunning, Goto, jobVars, queueVars, resVars, threadVars, stopVars, history
    <2>3. executed' = executed
      BY DEF CheckRunning, Goto, jobVars, queueVars, resVars, threadVars, stopVars, history
    <2> QED
      BY <1>1, <2>1, <2>2, <2>3, ExecutedKept
  <1>8. NoSilentLoss'
    BY <1>2 DEF IInv, TypeOK, CurOK, Busy, Holding, FateInv, NoSilentLoss, Live, Threads, WorkerThreads, CheckRunning, Goto, jobVars, queueVars, resVars, threadVars, stopVars, history
  <1> QED
    BY <1>1, <1>2, <1>3, <1>4, <1>5, <1>6, <1>7, <1>8, PlacesKept DEF FateInv

\* Nor has one that falls asleep.
LEMMA SleepOwn ==
    ASSUME IInv, OwnInv, FateInv, NEW t \in WorkerThreads, Sleep(t)
    PROVE  OwnInv' /\ FateInv'
  <1> USE JobsAssumption
  <1>1. UNCHANGED <<queues, cur, job_res, doomed>>
    BY DEF Sleep, Goto, jobVars, queueVars, resVars, threadVars, stopVars, history
  <1>2. \A j \in Jobs : Live(j)' <=> Live(j)
    BY DEF IInv, TypeOK, OwnInv, PlacesOK, Held, CurOK, Busy, Holding, Live, Threads, WorkerThreads, Sleep, Goto, jobVars, queueVars, resVars, threadVars, stopVars, history
  <1>3. progress' \subseteq progress
    BY DEF Sleep, Goto, jobVars, queueVars, resVars, threadVars, stopVars, history
  <1>4. EmptyHanded' /\ DoomedOK'
    BY DEF IInv, TypeOK, OwnInv, EmptyHanded, DoomedOK, Busy, Holding, Threads, WorkerThreads, Sleep, Goto, jobVars, queueVars, resVars, threadVars, stopVars, history
  <1>5. HandsOK'
    BY DEF IInv, TypeOK, CurOK, Busy, Holding, OwnInv, DistinctOK, FateInv, HandsOK, Threads, WorkerThreads, Sleep, Goto, jobVars, queueVars, resVars, threadVars, stopVars, history
  <1>6. WaitingOK'
    BY <1>1 DEF IInv, TypeOK, CurOK, Busy, Holding, OwnInv, PlacesOK, Held, FateInv, WaitingOK, Queued, Slotted, Threads, WorkerThreads, Sleep, Goto, jobVars, queueVars, resVars, threadVars, stopVars, history
  <1>7. ExecutedOK'
    <2>1. \A j \in Jobs : state[j] # "UNBORN" => state'[j] # "UNBORN"
      BY DEF IInv, TypeOK, Sleep, Goto, jobVars, queueVars, resVars, threadVars, stopVars, history
    <2>2. \A s \in Threads : pc[s] \in Executing => pc'[s] \in Executing
      BY DEF IInv, TypeOK, Executing, Threads, WorkerThreads, Sleep, Goto, jobVars, queueVars, resVars, threadVars, stopVars, history
    <2>3. executed' = executed
      BY DEF Sleep, Goto, jobVars, queueVars, resVars, threadVars, stopVars, history
    <2> QED
      BY <1>1, <2>1, <2>2, <2>3, ExecutedKept
  <1>8. NoSilentLoss'
    BY <1>2 DEF IInv, TypeOK, CurOK, Busy, Holding, FateInv, NoSilentLoss, Live, Threads, WorkerThreads, Sleep, Goto, jobVars, queueVars, resVars, threadVars, stopVars, history
  <1> QED
    BY <1>1, <1>2, <1>3, <1>4, <1>5, <1>6, <1>7, <1>8, PlacesKept DEF FateInv

\* A job that is found not to be QUEUED was cancelled while it waited.
LEMMA TestQueuedOwn ==
    ASSUME IInv, OwnInv, FateInv, NEW t \in WorkerThreads, TestQueued(t)
    PROVE  OwnInv' /\ FateInv'
  <1> USE JobsAssumption
  <1>1. UNCHANGED <<queues, cur, job_res, doomed>>
    BY DEF TestQueued, Goto, jobVars, queueVars, resVars, threadVars, stopVars, history
  <1>2. \A j \in Jobs : Live(j)' <=> Live(j)
    BY DEF IInv, TypeOK, OwnInv, PlacesOK, Held, CurOK, Busy, Holding, Live, Threads, WorkerThreads, TestQueued, Goto, jobVars, queueVars, resVars, threadVars, stopVars, history
  <1>3. progress' \subseteq progress
    BY DEF TestQueued, Goto, jobVars, queueVars, resVars, threadVars, stopVars, history
  <1>4. EmptyHanded' /\ DoomedOK'
    BY DEF IInv, TypeOK, OwnInv, EmptyHanded, DoomedOK, Busy, Holding, Threads, WorkerThreads, TestQueued, Goto, jobVars, queueVars, resVars, threadVars, stopVars, history
  <1>5. HandsOK'
    BY DEF IInv, TypeOK, CurOK, Busy, Holding, OwnInv, DistinctOK, FateInv, HandsOK, Threads, WorkerThreads, TestQueued, Goto, jobVars, queueVars, resVars, threadVars, stopVars, history
  <1>6. WaitingOK'
    BY <1>1 DEF IInv, TypeOK, CurOK, Busy, Holding, OwnInv, PlacesOK, Held, FateInv, WaitingOK, Queued, Slotted, Threads, WorkerThreads, TestQueued, Goto, jobVars, queueVars, resVars, threadVars, stopVars, history
  <1>7. ExecutedOK'
    <2>1. \A j \in Jobs : state[j] # "UNBORN" => state'[j] # "UNBORN"
      BY DEF IInv, TypeOK, TestQueued, Goto, jobVars, queueVars, resVars, threadVars, stopVars, history
    <2>2. \A s \in Threads : pc[s] \in Executing => pc'[s] \in Executing
      BY DEF IInv, TypeOK, Executing, Threads, WorkerThreads, TestQueued, Goto, jobVars, queueVars, resVars, threadVars, stopVars, history
    <2>3. executed' = executed
      BY DEF TestQueued, Goto, jobVars, queueVars, resVars, threadVars, stopVars, history
    <2> QED
      BY <1>1, <2>1, <2>2, <2>3, ExecutedKept
  <1>8. NoSilentLoss'
    BY <1>2 DEF IInv, TypeOK, CurOK, Busy, Holding, FateInv, NoSilentLoss, Live, Threads, WorkerThreads, TestQueued, Goto, jobVars, queueVars, resVars, threadVars, stopVars, history
  <1> QED
    BY <1>1, <1>2, <1>3, <1>4, <1>5, <1>6, <1>7, <1>8, PlacesKept DEF FateInv

\* A worker executes the job it holds.
LEMMA StartOwn ==
    ASSUME IInv, OwnInv, FateInv, NEW t \in WorkerThreads, Start(t)
    PROVE  OwnInv' /\ FateInv'
  <1> USE JobsAssumption
  <1>1. UNCHANGED <<queues, cur, job_res, doomed>>
    BY DEF Start, set_state, AtLeastFinished, Goto, jobVars, queueVars, resVars, threadVars, stopVars, history
  <1>2. \A j \in Jobs : Live(j)' <=> Live(j)
    BY DEF IInv, TypeOK, OwnInv, PlacesOK, Held, CurOK, Busy, Holding, Live, Threads, WorkerThreads, Start, set_state, AtLeastFinished, Goto, jobVars, queueVars, resVars, threadVars, stopVars, history
  <1>3. progress' \subseteq progress
    BY DEF Start, set_state, AtLeastFinished, Goto, jobVars, queueVars, resVars, threadVars, stopVars, history
  <1>4. EmptyHanded' /\ DoomedOK'
    BY DEF IInv, TypeOK, OwnInv, EmptyHanded, DoomedOK, Busy, Holding, Threads, WorkerThreads, Start, set_state, AtLeastFinished, Goto, jobVars, queueVars, resVars, threadVars, stopVars, history
  <1>5. HandsOK'
    BY DEF IInv, TypeOK, CurOK, Busy, Holding, OwnInv, DistinctOK, FateInv, HandsOK, Threads, WorkerThreads, Start, set_state, AtLeastFinished, Goto, jobVars, queueVars, resVars, threadVars, stopVars, history
  <1>6. WaitingOK'
    BY <1>1 DEF IInv, TypeOK, CurOK, Busy, Holding, OwnInv, PlacesOK, Held, FateInv, WaitingOK, Queued, Slotted, Threads, WorkerThreads, Start, set_state, AtLeastFinished, Goto, jobVars, queueVars, resVars, threadVars, stopVars, history
  <1>7. ExecutedOK'
    <2>1. cur[t] \in Jobs /\ t \in Threads /\ Held(cur[t])
      BY DEF IInv, CurOK, Busy, Holding, Threads, WorkerThreads, Held, Start, set_state, AtLeastFinished, Goto, jobVars, queueVars, resVars, threadVars, stopVars, history
    <2>2. /\ executed' = executed \cup {cur[t]}
          /\ pc'[t] \in Executing
          /\ \A s \in Threads \ {t} : pc'[s] = pc[s]
          /\ \A j \in Jobs : state[j] # "UNBORN" => state'[j] # "UNBORN"
          /\ state'[cur[t]] # "UNBORN"
      BY <2>1 DEF IInv, TypeOK, Executing, Threads, WorkerThreads, Start, set_state, AtLeastFinished, Goto, jobVars, queueVars, resVars, threadVars, stopVars, history
    <2> QED
      BY <1>1, <2>1, <2>2, ExecutedGrows
  <1>8. NoSilentLoss'
    BY <1>2 DEF IInv, TypeOK, CurOK, Busy, Holding, FateInv, NoSilentLoss, Live, Threads, WorkerThreads, Start, set_state, AtLeastFinished, Goto, jobVars, queueVars, resVars, threadVars, stopVars, history
  <1> QED
    BY <1>1, <1>2, <1>3, <1>4, <1>5, <1>6, <1>7, <1>8, PlacesKept DEF FateInv

\* ... and holds it until it is disposed of.
LEMMA FinishOwn ==
    ASSUME IInv, OwnInv, FateInv, NEW t \in WorkerThreads, Finish(t)
    PROVE  OwnInv' /\ FateInv'
  <1> USE JobsAssumption
  <1>1. UNCHANGED <<queues, cur, job_res, doomed>>
    BY DEF Finish, set_state, AtLeastFinished, Goto, jobVars, queueVars, resVars, threadVars, stopVars, history
  <1>2. \A j \in Jobs : Live(j)' <=> Live(j)
    BY DEF IInv, TypeOK, OwnInv, PlacesOK, Held, CurOK, Busy, Holding, Live, Threads, WorkerThreads, Finish, set_state, AtLeastFinished, Goto, jobVars, queueVars, resVars, threadVars, stopVars, history
  <1>3. progress' \subseteq progress
    BY DEF Finish, set_state, AtLeastFinished, Goto, jobVars, queueVars, resVars, threadVars, stopVars, history
  <1>4. EmptyHanded' /\ DoomedOK'
    BY DEF IInv, TypeOK, OwnInv, EmptyHanded, DoomedOK, Busy, Holding, Threads, WorkerThreads, Finish, set_state, AtLeastFinished, Goto, jobVars, queueVars, resVars, threadVars, stopVars, history
  <1>5. HandsOK'
    BY DEF IInv, TypeOK, CurOK, Busy, Holding, OwnInv, DistinctOK, FateInv, HandsOK, Threads, WorkerThreads, Finish, set_state, AtLeastFinished, Goto, jobVars, queueVars, resVars, threadVars, stopVars, history
  <1>6. WaitingOK'
    BY <1>1 DEF IInv, TypeOK, CurOK, Busy, Holding, OwnInv, PlacesOK, Held, FateInv, WaitingOK, Queued, Slotted, Threads, WorkerThreads, Finish, set_state, AtLeastFinished, Goto, jobVars, queueVars, resVars, threadVars, stopVars, history
  <1>7. ExecutedOK'
    <2>1. \A j \in Jobs : state[j] # "UNBORN" => state'[j] # "UNBORN"
      BY DEF IInv, TypeOK, Finish, set_state, AtLeastFinished, Goto, jobVars, queueVars, resVars, threadVars, stopVars, history
    <2>2. \A s \in Threads : pc[s] \in Executing => pc'[s] \in Executing
      BY DEF IInv, TypeOK, Executing, Threads, WorkerThreads, Finish, set_state, AtLeastFinished, Goto, jobVars, queueVars, resVars, threadVars, stopVars, history
    <2>3. executed' = executed
      BY DEF Finish, set_state, AtLeastFinished, Goto, jobVars, queueVars, resVars, threadVars, stopVars, history
    <2> QED
      BY <1>1, <2>1, <2>2, <2>3, ExecutedKept
  <1>8. NoSilentLoss'
    BY <1>2 DEF IInv, TypeOK, CurOK, Busy, Holding, FateInv, NoSilentLoss, Live, Threads, WorkerThreads, Finish, set_state, AtLeastFinished, Goto, jobVars, queueVars, resVars, threadVars, stopVars, history
  <1> QED
    BY <1>1, <1>2, <1>3, <1>4, <1>5, <1>6, <1>7, <1>8, PlacesKept DEF FateInv

\* A worker that finds nothing has none.
LEMMA NothingToScheduleOwn ==
    ASSUME IInv, OwnInv, FateInv, NEW w \in Workers, NothingToSchedule(w)
    PROVE  OwnInv' /\ FateInv'
  <1> USE JobsAssumption
  <1>1. UNCHANGED <<queues, cur, job_res, doomed>>
    BY DEF NothingToSchedule, Goto, jobVars, queueVars, resVars, threadVars, stopVars, history
  <1>2. \A j \in Jobs : Live(j)' <=> Live(j)
    BY DEF IInv, TypeOK, OwnInv, PlacesOK, Held, CurOK, Busy, Holding, Live, Threads, WorkerThreads, NothingToSchedule, Goto, jobVars, queueVars, resVars, threadVars, stopVars, history
  <1>3. progress' \subseteq progress
    BY DEF NothingToSchedule, Goto, jobVars, queueVars, resVars, threadVars, stopVars, history
  <1>4. EmptyHanded' /\ DoomedOK'
    BY DEF IInv, TypeOK, OwnInv, EmptyHanded, DoomedOK, Busy, Holding, Threads, WorkerThreads, NothingToSchedule, Goto, jobVars, queueVars, resVars, threadVars, stopVars, history
  <1>5. HandsOK'
    BY DEF IInv, TypeOK, CurOK, Busy, Holding, OwnInv, DistinctOK, FateInv, HandsOK, Threads, WorkerThreads, NothingToSchedule, Goto, jobVars, queueVars, resVars, threadVars, stopVars, history
  <1>6. WaitingOK'
    BY <1>1 DEF IInv, TypeOK, CurOK, Busy, Holding, OwnInv, PlacesOK, Held, FateInv, WaitingOK, Queued, Slotted, Threads, WorkerThreads, NothingToSchedule, Goto, jobVars, queueVars, resVars, threadVars, stopVars, history
  <1>7. ExecutedOK'
    <2>1. \A j \in Jobs : state[j] # "UNBORN" => state'[j] # "UNBORN"
      BY DEF IInv, TypeOK, NothingToSchedule, Goto, jobVars, queueVars, resVars, threadVars, stopVars, history
    <2>2. \A s \in Threads : pc[s] \in Executing => pc'[s] \in Executing
      BY DEF IInv, TypeOK, Executing, Threads, WorkerThreads, NothingToSchedule, Goto, jobVars, queueVars, resVars, threadVars, stopVars, history
    <2>3. executed' = executed
      BY DEF NothingToSchedule, Goto, jobVars, queueVars, resVars, threadVars, stopVars, history
    <2> QED
      BY <1>1, <2>1, <2>2, <2>3, ExecutedKept
  <1>8. NoSilentLoss'
    BY <1>2 DEF IInv, TypeOK, CurOK, Busy, Holding, FateInv, NoSilentLoss, Live, Threads, WorkerThreads, NothingToSchedule, Goto, jobVars, queueVars, resVars, threadVars, stopVars, history
  <1> QED
    BY <1>1, <1>2, <1>3, <1>4, <1>5, <1>6, <1>7, <1>8, PlacesKept DEF FateInv

\* control->job is cleared; the worker still holds its job.
LEMMA ClearOwn ==
    ASSUME IInv, OwnInv, FateInv, NEW w \in Workers, Clear(w)
    PROVE  OwnInv' /\ FateInv'
  <1> USE JobsAssumption
  <1>1. UNCHANGED <<queues, cur, job_res, doomed>>
    BY DEF Clear, Goto, jobVars, queueVars, resVars, threadVars, stopVars, history
  <1>2. \A j \in Jobs : Live(j)' <=> Live(j)
    BY DEF IInv, TypeOK, OwnInv, PlacesOK, Held, CurOK, Busy, Holding, Live, Threads, WorkerThreads, Clear, Goto, jobVars, queueVars, resVars, threadVars, stopVars, history
  <1>3. progress' \subseteq progress
    BY DEF Clear, Goto, jobVars, queueVars, resVars, threadVars, stopVars, history
  <1>4. EmptyHanded' /\ DoomedOK'
    BY DEF IInv, TypeOK, OwnInv, EmptyHanded, DoomedOK, Busy, Holding, Threads, WorkerThreads, Clear, Goto, jobVars, queueVars, resVars, threadVars, stopVars, history
  <1>5. HandsOK'
    BY DEF IInv, TypeOK, CurOK, Busy, Holding, OwnInv, DistinctOK, FateInv, HandsOK, Threads, WorkerThreads, Clear, Goto, jobVars, queueVars, resVars, threadVars, stopVars, history
  <1>6. WaitingOK'
    BY <1>1 DEF IInv, TypeOK, CurOK, Busy, Holding, OwnInv, PlacesOK, Held, FateInv, WaitingOK, Queued, Slotted, Threads, WorkerThreads, Clear, Goto, jobVars, queueVars, resVars, threadVars, stopVars, history
  <1>7. ExecutedOK'
    <2>1. \A j \in Jobs : state[j] # "UNBORN" => state'[j] # "UNBORN"
      BY DEF IInv, TypeOK, Clear, Goto, jobVars, queueVars, resVars, threadVars, stopVars, history
    <2>2. \A s \in Threads : pc[s] \in Executing => pc'[s] \in Executing
      BY DEF IInv, TypeOK, Executing, Threads, WorkerThreads, Clear, Goto, jobVars, queueVars, resVars, threadVars, stopVars, history
    <2>3. executed' = executed
      BY DEF Clear, Goto, jobVars, queueVars, resVars, threadVars, stopVars, history
    <2> QED
      BY <1>1, <2>1, <2>2, <2>3, ExecutedKept
  <1>8. NoSilentLoss'
    BY <1>2 DEF IInv, TypeOK, CurOK, Busy, Holding, FateInv, NoSilentLoss, Live, Threads, WorkerThreads, Clear, Goto, jobVars, queueVars, resVars, threadVars, stopVars, history
  <1> QED
    BY <1>1, <1>2, <1>3, <1>4, <1>5, <1>6, <1>7, <1>8, PlacesKept DEF FateInv

\* The kicker wakes threads.
LEMMA KickerOwn ==
    ASSUME IInv, OwnInv, FateInv, KickerStep
    PROVE  OwnInv' /\ FateInv'
  <1> USE JobsAssumption
  <1>1. UNCHANGED <<queues, cur, job_res, doomed>>
    BY DEF KickerStep, KickerCheck, Kick, Broadcast, jobVars, queueVars, resVars, threadVars, stopVars, history
  <1>2. \A j \in Jobs : Live(j)' <=> Live(j)
    BY DEF IInv, TypeOK, OwnInv, PlacesOK, Held, CurOK, Busy, Holding, Live, Threads, WorkerThreads, KickerStep, KickerCheck, Kick, Broadcast, jobVars, queueVars, resVars, threadVars, stopVars, history
  <1>3. progress' \subseteq progress
    BY DEF KickerStep, KickerCheck, Kick, Broadcast, jobVars, queueVars, resVars, threadVars, stopVars, history
  <1>4. EmptyHanded' /\ DoomedOK'
    BY DEF IInv, TypeOK, OwnInv, EmptyHanded, DoomedOK, Busy, Holding, Threads, WorkerThreads, KickerStep, KickerCheck, Kick, Broadcast, jobVars, queueVars, resVars, threadVars, stopVars, history
  <1>5. HandsOK'
    BY DEF IInv, TypeOK, CurOK, Busy, Holding, OwnInv, DistinctOK, FateInv, HandsOK, Threads, WorkerThreads, KickerStep, KickerCheck, Kick, Broadcast, jobVars, queueVars, resVars, threadVars, stopVars, history
  <1>6. WaitingOK'
    BY <1>1 DEF IInv, TypeOK, CurOK, Busy, Holding, OwnInv, PlacesOK, Held, FateInv, WaitingOK, Queued, Slotted, Threads, WorkerThreads, KickerStep, KickerCheck, Kick, Broadcast, jobVars, queueVars, resVars, threadVars, stopVars, history
  <1>7. ExecutedOK'
    <2>1. \A j \in Jobs : state[j] # "UNBORN" => state'[j] # "UNBORN"
      BY DEF IInv, TypeOK, KickerStep, KickerCheck, Kick, Broadcast, jobVars, queueVars, resVars, threadVars, stopVars, history
    <2>2. \A s \in Threads : pc[s] \in Executing => pc'[s] \in Executing
      BY DEF IInv, TypeOK, Executing, Threads, WorkerThreads, KickerStep, KickerCheck, Kick, Broadcast, jobVars, queueVars, resVars, threadVars, stopVars, history
    <2>3. executed' = executed
      BY DEF KickerStep, KickerCheck, Kick, Broadcast, jobVars, queueVars, resVars, threadVars, stopVars, history
    <2> QED
      BY <1>1, <2>1, <2>2, <2>3, ExecutedKept
  <1>8. NoSilentLoss'
    BY <1>2 DEF IInv, TypeOK, CurOK, Busy, Holding, FateInv, NoSilentLoss, Live, Threads, WorkerThreads, KickerStep, KickerCheck, Kick, Broadcast, jobVars, queueVars, resVars, threadVars, stopVars, history
  <1> QED
    BY <1>1, <1>2, <1>3, <1>4, <1>5, <1>6, <1>7, <1>8, PlacesKept DEF FateInv

\* A cancelled job stays where it is; one that was waiting is now refused.
LEMMA CancelOwn ==
    ASSUME IInv, OwnInv, FateInv, NEW k \in Jobs, CancelJob(k)
    PROVE  OwnInv' /\ FateInv'
  <1> USE JobsAssumption
  <1>1. UNCHANGED <<queues, cur, job_res, doomed>>
    BY DEF CancelJob, set_state, AtLeastFinished, jobVars, queueVars, resVars, threadVars, stopVars, history
  <1>2. \A j \in Jobs : Live(j)' <=> Live(j)
    BY DEF IInv, TypeOK, OwnInv, PlacesOK, Held, CurOK, Busy, Holding, Live, Threads, WorkerThreads, CancelJob, set_state, AtLeastFinished, jobVars, queueVars, resVars, threadVars, stopVars, history
  <1>3. progress' \subseteq progress
    BY DEF CancelJob, set_state, AtLeastFinished, jobVars, queueVars, resVars, threadVars, stopVars, history
  <1>4. EmptyHanded' /\ DoomedOK'
    BY DEF IInv, TypeOK, OwnInv, EmptyHanded, DoomedOK, Busy, Holding, Threads, WorkerThreads, CancelJob, set_state, AtLeastFinished, jobVars, queueVars, resVars, threadVars, stopVars, history
  <1>5. HandsOK'
    BY DEF IInv, TypeOK, CurOK, Busy, Holding, OwnInv, DistinctOK, FateInv, HandsOK, Threads, WorkerThreads, CancelJob, set_state, AtLeastFinished, jobVars, queueVars, resVars, threadVars, stopVars, history
  <1>6. WaitingOK'
    BY <1>1 DEF IInv, TypeOK, CurOK, Busy, Holding, OwnInv, PlacesOK, Held, FateInv, WaitingOK, Queued, Slotted, Threads, WorkerThreads, CancelJob, set_state, AtLeastFinished, jobVars, queueVars, resVars, threadVars, stopVars, history
  <1>7. ExecutedOK'
    <2>1. \A j \in Jobs : state[j] # "UNBORN" => state'[j] # "UNBORN"
      BY DEF IInv, TypeOK, CancelJob, set_state, AtLeastFinished, jobVars, queueVars, resVars, threadVars, stopVars, history
    <2>2. \A s \in Threads : pc[s] \in Executing => pc'[s] \in Executing
      BY DEF IInv, TypeOK, Executing, Threads, WorkerThreads, CancelJob, set_state, AtLeastFinished, jobVars, queueVars, resVars, threadVars, stopVars, history
    <2>3. executed' = executed
      BY DEF CancelJob, set_state, AtLeastFinished, jobVars, queueVars, resVars, threadVars, stopVars, history
    <2> QED
      BY <1>1, <2>1, <2>2, <2>3, ExecutedKept
  <1>8. NoSilentLoss'
    BY <1>2 DEF IInv, TypeOK, CurOK, Busy, Holding, FateInv, NoSilentLoss, Live, Threads, WorkerThreads, CancelJob, set_state, AtLeastFinished, jobVars, queueVars, resVars, threadVars, stopVars, history
  <1> QED
    BY <1>1, <1>2, <1>3, <1>4, <1>5, <1>6, <1>7, <1>8, PlacesKept DEF FateInv

\* So does a flushed one.
LEMMA EnterDarkroomOwn ==
    ASSUME IInv, OwnInv, FateInv, EnterDarkroom
    PROVE  OwnInv' /\ FateInv'
  <1> USE JobsAssumption
  <1>1. UNCHANGED <<queues, cur, job_res, doomed>>
    BY DEF EnterDarkroom, Flush, jobVars, queueVars, resVars, threadVars, stopVars, history
  <1>2. \A j \in Jobs : Live(j)' <=> Live(j)
    <2>1. \A w \in Workers : job[w] # NULL => job[w] \in Jobs /\ Held(job[w])
      BY DEF IInv, TypeOK, HeldOK, Held, Threads
    <2>2. \A w \in Workers : job[w] # NULL => Live(job[w])
      BY <2>1 DEF OwnInv, PlacesOK
    <2>3. \A j \in {job[w] : w \in Workers} \ {NULL} : Live(j)
      BY <2>2
    <2>4. \A j \in Jobs : state'[j] = IF j \in {job[w] : w \in Workers} \ {NULL}
                                      THEN "CANCELLED" ELSE state[j]
      BY DEF EnterDarkroom, Flush
    <2> QED
      BY <2>3, <2>4 DEF Live
  <1>3. progress' \subseteq progress
    BY DEF EnterDarkroom, Flush, jobVars, queueVars, resVars, threadVars, stopVars, history
  <1>4. EmptyHanded' /\ DoomedOK'
    BY DEF IInv, TypeOK, OwnInv, EmptyHanded, DoomedOK, Busy, Holding, Threads, WorkerThreads, EnterDarkroom, Flush, jobVars, queueVars, resVars, threadVars, stopVars, history
  <1>5. HandsOK'
    BY DEF IInv, TypeOK, CurOK, Busy, Holding, OwnInv, DistinctOK, FateInv, HandsOK, Threads, WorkerThreads, EnterDarkroom, Flush, jobVars, queueVars, resVars, threadVars, stopVars, history
  <1>6. WaitingOK'
    BY <1>1 DEF IInv, TypeOK, CurOK, Busy, Holding, OwnInv, PlacesOK, Held, FateInv, WaitingOK, Queued, Slotted, Threads, WorkerThreads, EnterDarkroom, Flush, jobVars, queueVars, resVars, threadVars, stopVars, history
  <1>7. ExecutedOK'
    <2>1. \A j \in Jobs : state[j] # "UNBORN" => state'[j] # "UNBORN"
      BY DEF IInv, TypeOK, EnterDarkroom, Flush, jobVars, queueVars, resVars, threadVars, stopVars, history
    <2>2. \A s \in Threads : pc[s] \in Executing => pc'[s] \in Executing
      BY DEF IInv, TypeOK, Executing, Threads, WorkerThreads, EnterDarkroom, Flush, jobVars, queueVars, resVars, threadVars, stopVars, history
    <2>3. executed' = executed
      BY DEF EnterDarkroom, Flush, jobVars, queueVars, resVars, threadVars, stopVars, history
    <2> QED
      BY <1>1, <2>1, <2>2, <2>3, ExecutedKept
  <1>8. NoSilentLoss'
    BY <1>2 DEF IInv, TypeOK, CurOK, Busy, Holding, FateInv, NoSilentLoss, Live, Threads, WorkerThreads, EnterDarkroom, Flush, jobVars, queueVars, resVars, threadVars, stopVars, history
  <1> QED
    BY <1>1, <1>2, <1>3, <1>4, <1>5, <1>6, <1>7, <1>8, PlacesKept DEF FateInv

\* Stopping touches no job until the drain.
LEMMA StopOwn ==
    ASSUME IInv, OwnInv, FateInv, Quit \/ ShutdownStop \/ ShutdownBroadcast \/ JoinKicker \/ JoinWorkers
    PROVE  OwnInv' /\ FateInv'
  <1> USE JobsAssumption
  <1>1. UNCHANGED <<queues, cur, job_res, doomed>>
    BY DEF Quit, ShutdownStop, ShutdownBroadcast, JoinKicker, JoinWorkers, Broadcast, jobVars, queueVars, resVars, threadVars, stopVars, history
  <1>2. \A j \in Jobs : Live(j)' <=> Live(j)
    BY DEF IInv, TypeOK, OwnInv, PlacesOK, Held, CurOK, Busy, Holding, Live, Threads, WorkerThreads, Quit, ShutdownStop, ShutdownBroadcast, JoinKicker, JoinWorkers, Broadcast, jobVars, queueVars, resVars, threadVars, stopVars, history
  <1>3. progress' \subseteq progress
    BY DEF Quit, ShutdownStop, ShutdownBroadcast, JoinKicker, JoinWorkers, Broadcast, jobVars, queueVars, resVars, threadVars, stopVars, history
  <1>4. EmptyHanded' /\ DoomedOK'
    BY DEF IInv, TypeOK, OwnInv, EmptyHanded, DoomedOK, Busy, Holding, Threads, WorkerThreads, Quit, ShutdownStop, ShutdownBroadcast, JoinKicker, JoinWorkers, Broadcast, jobVars, queueVars, resVars, threadVars, stopVars, history
  <1>5. HandsOK'
    BY DEF IInv, TypeOK, CurOK, Busy, Holding, OwnInv, DistinctOK, FateInv, HandsOK, Threads, WorkerThreads, Quit, ShutdownStop, ShutdownBroadcast, JoinKicker, JoinWorkers, Broadcast, jobVars, queueVars, resVars, threadVars, stopVars, history
  <1>6. WaitingOK'
    BY <1>1 DEF IInv, TypeOK, CurOK, Busy, Holding, OwnInv, PlacesOK, Held, FateInv, WaitingOK, Queued, Slotted, Threads, WorkerThreads, Quit, ShutdownStop, ShutdownBroadcast, JoinKicker, JoinWorkers, Broadcast, jobVars, queueVars, resVars, threadVars, stopVars, history
  <1>7. ExecutedOK'
    <2>1. \A j \in Jobs : state[j] # "UNBORN" => state'[j] # "UNBORN"
      BY DEF IInv, TypeOK, Quit, ShutdownStop, ShutdownBroadcast, JoinKicker, JoinWorkers, Broadcast, jobVars, queueVars, resVars, threadVars, stopVars, history
    <2>2. \A s \in Threads : pc[s] \in Executing => pc'[s] \in Executing
      BY DEF IInv, TypeOK, Executing, Threads, WorkerThreads, Quit, ShutdownStop, ShutdownBroadcast, JoinKicker, JoinWorkers, Broadcast, jobVars, queueVars, resVars, threadVars, stopVars, history
    <2>3. executed' = executed
      BY DEF Quit, ShutdownStop, ShutdownBroadcast, JoinKicker, JoinWorkers, Broadcast, jobVars, queueVars, resVars, threadVars, stopVars, history
    <2> QED
      BY <1>1, <2>1, <2>2, <2>3, ExecutedKept
  <1>8. NoSilentLoss'
    BY <1>2 DEF IInv, TypeOK, CurOK, Busy, Holding, FateInv, NoSilentLoss, Live, Threads, WorkerThreads, Quit, ShutdownStop, ShutdownBroadcast, JoinKicker, JoinWorkers, Broadcast, jobVars, queueVars, resVars, threadVars, stopVars, history
  <1> QED
    BY <1>1, <1>2, <1>3, <1>4, <1>5, <1>6, <1>7, <1>8, PlacesKept DEF FateInv

(***************************************************************************)
(* What the list operations of jobs.c do to a list that holds no job twice: *)
(* unlinking, popping, dropping the last, pushing and appending.           *)
(***************************************************************************)
LEMMA RemoveAtDistinct ==
    ASSUME NEW S, NEW s \in Seq(S), IsInjective(s), NEW i \in DOMAIN s
    PROVE  /\ IsInjective(RemoveAt(s, i))
           /\ ToSet(RemoveAt(s, i)) = ToSet(s) \ {s[i]}
  <1> DEFINE r == RemoveAt(s, i)
             At(k) == IF k < i THEN k ELSE k + 1
  <1>1. i \in 1..Len(s) /\ Len(s) \in Nat /\ DOMAIN s = 1..Len(s)
    OBVIOUS
  <1>2. DOMAIN r = 1..(Len(s) - 1) /\ \A k \in 1..(Len(s) - 1) : r[k] = s[At(k)]
    <2> DEFINE a == SubSeq(s, 1, i - 1)
               b == SubSeq(s, i + 1, Len(s))
    <2>1. a \in Seq(S) /\ Len(a) = i - 1 /\ \A k \in 1..(i - 1) : a[k] = s[k]
      BY <1>1
    <2>2. b \in Seq(S) /\ Len(b) = Len(s) - i /\ \A k \in 1..(Len(s) - i) : b[k] = s[k + i]
      <3>1. b \in Seq(S) /\ Len(b) = Len(s) - i
        BY <1>1
      <3>2. \A k \in 1..(Len(s) - i) : b[k] = s[k + i]
        BY <1>1
      <3> QED
        BY <3>1, <3>2
    <2> HIDE DEF a, b
    <2>3. r = a \o b
      BY DEF RemoveAt, a, b
    <2>4. /\ a \o b \in Seq(S)
          /\ Len(a \o b) = Len(a) + Len(b)
          /\ \A k \in 1..(Len(a) + Len(b)) :
               (a \o b)[k] = IF k <= Len(a) THEN a[k] ELSE b[k - Len(a)]
      BY <2>1, <2>2, ConcatProperties
    <2>5. Len(a) + Len(b) = Len(s) - 1
      BY <1>1, <2>1, <2>2
    <2>6. DOMAIN (a \o b) = 1..(Len(s) - 1)
      BY <2>4, <2>5, LenProperties
    <2> HIDE DEF r
    <2>7. ASSUME NEW k \in 1..(Len(s) - 1) PROVE r[k] = s[At(k)]
      <3>1. r[k] = IF k <= i - 1 THEN a[k] ELSE b[k - (i - 1)]
        BY <2>1, <2>3, <2>4, <2>5
      <3>2. CASE k < i
        <4>1. k \in 1..(i - 1) /\ k <= i - 1
          BY <1>1, <3>2
        <4> QED
          BY <2>1, <3>1, <3>2, <4>1
      <3>3. CASE ~(k < i)
        <4>1. k - (i - 1) \in 1..(Len(s) - i) /\ k - (i - 1) + i = k + 1 /\ ~(k <= i - 1)
          BY <1>1, <3>3
        <4>2. b[k - (i - 1)] = s[k - (i - 1) + i]
          BY <2>2, <4>1
        <4> QED
          BY <3>1, <3>3, <4>1, <4>2
      <3> QED
        BY <3>2, <3>3
    <2> QED
      BY <2>3, <2>6, <2>7
  <1> HIDE DEF r
  <1>3. \A k \in 1..(Len(s) - 1) : At(k) \in 1..Len(s) \ {i}
    BY <1>1
  <1>4. \A k, l \in 1..(Len(s) - 1) : At(k) = At(l) => k = l
    BY <1>1
  <1>5. \A k \in 1..Len(s) \ {i} : \E l \in 1..(Len(s) - 1) : At(l) = k
    <2> TAKE k \in 1..Len(s) \ {i}
    <2> DEFINE l == IF k < i THEN k ELSE k - 1
    <2>1. l \in 1..(Len(s) - 1) /\ At(l) = k
      BY <1>1
    <2> QED
      BY <2>1
  <1> HIDE DEF At
  <1>6. IsInjective(r)
    BY <1>1, <1>2, <1>3, <1>4 DEF IsInjective
  <1>7. ToSet(r) \subseteq ToSet(s) \ {s[i]}
    BY <1>1, <1>2, <1>3 DEF IsInjective, ToSet
  <1>8. ToSet(s) \ {s[i]} \subseteq ToSet(r)
    <2> SUFFICES ASSUME NEW k \in 1..Len(s), s[k] # s[i]
                 PROVE  \E l \in 1..(Len(s) - 1) : r[l] = s[k]
      BY <1>1, <1>2 DEF ToSet
    <2>1. PICK l \in 1..(Len(s) - 1) : At(l) = k
      BY <1>5
    <2> QED
      BY <1>2, <2>1
  <1> QED
    BY <1>6, <1>7, <1>8 DEF r

\* The last element of a list without repetitions leaves it for good.
LEMMA FrontDistinct ==
    ASSUME NEW S, NEW s \in Seq(S), s # <<>>, IsInjective(s)
    PROVE  /\ IsInjective(Front(s))
           /\ ToSet(Front(s)) = ToSet(s) \ {Last(s)}
           /\ Last(s) \in ToSet(s)
  <1> DEFINE n == Len(s)
  <1>1. n \in Nat \ {0} /\ DOMAIN s = 1..n
    OBVIOUS
  <1>2. /\ DOMAIN Front(s) = 1..(n - 1)
        /\ \A k \in 1..(n - 1) : Front(s)[k] = s[k]
        /\ Last(s) = s[n]
    <2>1. /\ SubSeq(s, 1, n - 1) \in Seq(S) /\ Len(SubSeq(s, 1, n - 1)) = n - 1
          /\ \A k \in 1..(n - 1) : SubSeq(s, 1, n - 1)[k] = s[k]
      BY <1>1
    <2> QED
      BY <2>1, LenProperties DEF Front, Last
  <1> HIDE DEF n
  <1>3. \A k \in 1..(n - 1) : k \in 1..n /\ k # n
    BY <1>1
  <1>4. \A k \in 1..n : k # n => k \in 1..(n - 1)
    BY <1>1
  <1>5. n \in 1..n
    BY <1>1
  <1>6. IsInjective(Front(s))
    BY <1>1, <1>2, <1>3 DEF IsInjective
  <1>7. ToSet(Front(s)) = ToSet(s) \ {Last(s)}
    BY <1>1, <1>2, <1>3, <1>4, <1>5 DEF IsInjective, ToSet
  <1> QED
    BY <1>1, <1>2, <1>5, <1>6, <1>7 DEF ToSet

\* So does the first one.
LEMMA TailDistinct ==
    ASSUME NEW S, NEW s \in Seq(S), s # <<>>, IsInjective(s)
    PROVE  /\ IsInjective(Tail(s))
           /\ ToSet(Tail(s)) = ToSet(s) \ {Head(s)}
           /\ Head(s) \in ToSet(s)
  <1> DEFINE n == Len(s)
  <1>1. n \in Nat \ {0} /\ DOMAIN s = 1..n /\ Head(s) = s[1]
    OBVIOUS
  <1>2. /\ DOMAIN Tail(s) = 1..(n - 1)
        /\ \A k \in 1..(n - 1) : Tail(s)[k] = s[k + 1]
    OBVIOUS
  <1> HIDE DEF n
  <1>3. \A k \in 1..(n - 1) : k + 1 \in 1..n /\ k + 1 # 1
    BY <1>1
  <1>4. \A k \in 1..n : k # 1 => k - 1 \in 1..(n - 1) /\ (k - 1) + 1 = k
    BY <1>1
  <1>5. 1 \in 1..n /\ \A k, l \in 1..(n - 1) : k + 1 = l + 1 => k = l
    BY <1>1
  <1>6. IsInjective(Tail(s))
    BY <1>1, <1>2, <1>3, <1>5 DEF IsInjective
  <1>7. ToSet(Tail(s)) \subseteq ToSet(s) \ {Head(s)}
    BY <1>1, <1>2, <1>3, <1>5 DEF IsInjective, ToSet
  <1>8. ToSet(s) \ {Head(s)} \subseteq ToSet(Tail(s))
    <2> SUFFICES ASSUME NEW y \in ToSet(s), y # Head(s)
                 PROVE  y \in ToSet(Tail(s))
      OBVIOUS
    <2>1. PICK k \in 1..n : y = s[k]
      BY <1>1 DEF ToSet
    <2>2. k - 1 \in 1..(n - 1) /\ Tail(s)[k - 1] = s[k]
      BY <1>1, <1>2, <1>4, <2>1
    <2> QED
      BY <1>2, <2>1, <2>2 DEF ToSet
  <1> QED
    BY <1>1, <1>5, <1>6, <1>7, <1>8 DEF ToSet

\* A new element in front keeps a list without repetitions, and is the last only of an empty one.
LEMMA PushDistinct ==
    ASSUME NEW S, NEW s \in Seq(S), IsInjective(s), NEW x \in S, x \notin ToSet(s)
    PROVE  /\ IsInjective(<<x>> \o s)
           /\ ToSet(<<x>> \o s) = ToSet(s) \cup {x}
           /\ Len(s) > 0 => Last(<<x>> \o s) # x
  <1> DEFINE n == Len(s)
             p == <<x>> \o s
  <1>1. n \in Nat /\ DOMAIN s = 1..n
    OBVIOUS
  <1>2. /\ DOMAIN p = 1..(n + 1) /\ Len(p) = n + 1
        /\ p[1] = x
        /\ \A k \in 1..n : p[k + 1] = s[k]
    OBVIOUS
  <1> HIDE DEF n, p
  <1>3. \A k \in 1..(n + 1) : k # 1 => k - 1 \in 1..n /\ (k - 1) + 1 = k
    BY <1>1
  <1>4. \A k \in 1..n : k + 1 \in 1..(n + 1)
    BY <1>1
  <1>5. \A k \in 1..(n + 1) : k # 1 => p[k] = s[k - 1] /\ k - 1 \in 1..n
    BY <1>2, <1>3
  <1>6. \A k, l \in 1..(n + 1) : k - 1 = l - 1 => k = l
    BY <1>1
  <1>7. 1 \in 1..(n + 1)
    BY <1>1
  <1>8. \A k \in 1..n : s[k] # x
    BY <1>1 DEF ToSet
  <1>9. ASSUME NEW k \in 1..(n + 1), NEW l \in 1..(n + 1), p[k] = p[l]
        PROVE  k = l
    <2>1. CASE k = 1 \/ l = 1
      BY <1>2, <1>5, <1>8, <1>9, <2>1
    <2>2. CASE k # 1 /\ l # 1
      <3>1. s[k - 1] = s[l - 1] /\ k - 1 \in 1..n /\ l - 1 \in 1..n
        BY <1>5, <1>9, <2>2
      <3>2. k - 1 = l - 1
        BY <1>1, <3>1 DEF IsInjective
      <3> QED
        BY <1>6, <3>2
    <2> QED
      BY <2>1, <2>2
  <1>10. IsInjective(p)
    BY <1>2, <1>9 DEF IsInjective
  <1>11. ToSet(p) \subseteq ToSet(s) \cup {x}
    <2> SUFFICES ASSUME NEW y \in ToSet(p), y # x
                 PROVE  y \in ToSet(s)
      OBVIOUS
    <2>1. PICK k \in 1..(n + 1) : y = p[k]
      BY <1>2 DEF ToSet
    <2>2. k - 1 \in 1..n /\ p[k] = s[k - 1]
      BY <1>2, <1>5, <2>1
    <2> QED
      BY <1>1, <2>1, <2>2 DEF ToSet
  <1>12. ToSet(s) \cup {x} \subseteq ToSet(p)
    BY <1>1, <1>2, <1>4, <1>7 DEF ToSet
  <1>13. n > 0 => Last(p) # x
    <2>1. n > 0 => n \in 1..n
      BY <1>1
    <2> QED
      BY <1>2, <1>8, <2>1 DEF Last
  <1> QED
    BY <1>10, <1>11, <1>12, <1>13 DEF n, p

\* A new element at the end keeps it so too.
LEMMA AppendDistinct ==
    ASSUME NEW S, NEW s \in Seq(S), IsInjective(s), NEW x \in S, x \notin ToSet(s)
    PROVE  /\ IsInjective(Append(s, x))
           /\ ToSet(Append(s, x)) = ToSet(s) \cup {x}
  <1> DEFINE n == Len(s)
             p == Append(s, x)
  <1>1. n \in Nat /\ DOMAIN s = 1..n
    OBVIOUS
  <1>2. /\ DOMAIN p = 1..(n + 1)
        /\ p[n + 1] = x
        /\ \A k \in 1..n : p[k] = s[k]
    OBVIOUS
  <1> HIDE DEF n, p
  <1>3. \A k \in 1..(n + 1) : k = n + 1 \/ k \in 1..n
    BY <1>1
  <1>4. \A k \in 1..n : k \in 1..(n + 1)
    BY <1>1
  <1>5. n + 1 \in 1..(n + 1)
    BY <1>1
  <1>6. \A k \in 1..n : s[k] # x
    BY <1>1 DEF ToSet
  <1>7. IsInjective(p)
    BY <1>1, <1>2, <1>3, <1>6 DEF IsInjective
  <1>8. ToSet(p) = ToSet(s) \cup {x}
    BY <1>1, <1>2, <1>3, <1>4, <1>5 DEF ToSet
  <1> QED
    BY <1>7, <1>8 DEF p

----------------------------------------------------------------------------
(* How a place changes *)

\* A thread takes a job that no thread held in its empty hands ...
LEMMA TakeInHand ==
    ASSUME IInv, OwnInv, NEW t \in Threads, cur[t] = NULL, NEW x \in Jobs, ~Held(x),
           cur' = [cur EXCEPT ![t] = x]
    PROVE  /\ \A k \in Jobs : Held(k)' <=> Held(k) \/ k = x
           /\ \A s, u \in Threads : cur'[s] # NULL /\ cur'[s] = cur'[u] => s = u
           /\ cur'[t] = x /\ \A s \in Threads \ {t} : cur'[s] = cur[s]
  <1>1. cur'[t] = x /\ \A s \in Threads \ {t} : cur'[s] = cur[s]
    BY DEF IInv, TypeOK
  <1>2. \A k \in Jobs : Held(k)' <=> Held(k) \/ k = x
    BY <1>1, JobsAssumption DEF Held
  <1>3. \A s, u \in Threads : cur'[s] # NULL /\ cur'[s] = cur'[u] => s = u
    BY <1>1 DEF OwnInv, DistinctOK, Held
  <1> QED
    BY <1>1, <1>2, <1>3

\* ... and lets go of it.
LEMMA LetGo ==
    ASSUME IInv, OwnInv, NEW t \in Threads, cur[t] \in Jobs, cur' = [cur EXCEPT ![t] = NULL]
    PROVE  /\ \A k \in Jobs : Held(k)' <=> Held(k) /\ k # cur[t]
           /\ \A s, u \in Threads : cur'[s] # NULL /\ cur'[s] = cur'[u] => s = u
           /\ cur'[t] = NULL /\ \A s \in Threads \ {t} : cur'[s] = cur[s]
           /\ Held(cur[t])
  <1>1. cur'[t] = NULL /\ \A s \in Threads \ {t} : cur'[s] = cur[s]
    BY DEF IInv, TypeOK
  <1>2. \A s \in Threads \ {t} : cur[s] # cur[t]
    BY JobsAssumption DEF OwnInv, DistinctOK
  <1>3. \A k \in Jobs : Held(k)' <=> Held(k) /\ k # cur[t]
    BY <1>1, <1>2, JobsAssumption DEF Held
  <1>4. \A s, u \in Threads : cur'[s] # NULL /\ cur'[s] = cur'[u] => s = u
    BY <1>1 DEF OwnInv, DistinctOK
  <1> QED
    BY <1>1, <1>3, <1>4 DEF Held

\* One queue gains the jobs of In and loses those of Out, which carry its number.
LEMMA QueueChanged ==
    ASSUME IInv, OwnInv, NEW q \in Queues, NEW s \in Seq(Jobs),
           queues' = [queues EXCEPT ![q] = s], IsInjective(s),
           NEW In, NEW Out \in SUBSET Jobs,
           ToSet(s) = (ToSet(queues[q]) \cup In) \ Out,
           \A k \in Out : queue[k] = q
    PROVE  /\ \A k \in Jobs : Queued(k)' <=> (Queued(k) \/ k \in In) /\ k \notin Out
           /\ \A r \in Queues : IsInjective(queues'[r])
  <1>1. queues'[q] = s /\ \A r \in Queues \ {q} : queues'[r] = queues[r]
    BY DEF IInv, TypeOK
  <1>2. \A r \in Queues \ {q} : \A k \in Out : k \notin ToSet(queues[r])
    BY DEF IInv, QueuesOK, ToSet
  <1>3. \A k \in Jobs : Queued(k)' <=> (Queued(k) \/ k \in In) /\ k \notin Out
    BY <1>1, <1>2 DEF Queued
  <1>4. \A r \in Queues : IsInjective(queues'[r])
    BY <1>1 DEF OwnInv, DistinctOK
  <1> QED
    BY <1>3, <1>4

\* A job that was not live is nowhere, and was never executed unless it is disposed of.
LEMMA UnbornIsNowhere ==
    ASSUME OwnInv, FateInv, NEW j \in Jobs, state[j] = "UNBORN"
    PROVE  ~Queued(j) /\ ~Held(j) /\ ~Slotted(j) /\ j \notin doomed /\ j \notin executed
  BY DEF OwnInv, PlacesOK, Live, FateInv, ExecutedOK

----------------------------------------------------------------------------
(* Steps that move a job *)

\* dt_control_add_job: the new job is in the hands of its submitter.
LEMMA AddJobOwn ==
    ASSUME IInv, OwnInv, FateInv, NEW c \in Clients, AddJob(c)
    PROVE  OwnInv' /\ FateInv'
  <1> USE JobsAssumption
  <1>1. PICK j \in Jobs, q \in Requests : AddJob(c)!(j, q)
    BY DEF AddJob
  <1>2. c \in Threads /\ cur[c] = NULL /\ j # NULL
    BY <1>1 DEF Threads, OwnInv, EmptyHanded, Busy, Holding
  <1>3. ~Queued(j) /\ ~Held(j) /\ ~Slotted(j) /\ j \notin doomed /\ j \notin executed
    BY <1>1, UnbornIsNowhere
  <1>4. /\ \A k \in Jobs : Held(k)' <=> Held(k) \/ k = j
        /\ \A s, u \in Threads : cur'[s] # NULL /\ cur'[s] = cur'[u] => s = u
        /\ cur'[c] = j /\ \A s \in Threads \ {c} : cur'[s] = cur[s]
    BY <1>1, <1>2, <1>3, TakeInHand
  <1>5. UNCHANGED <<queues, job_res, doomed, drained, main, executed>>
    BY <1>1 DEF queueVars, resVars, stopVars
  <1>6. \A k : (Queued(k)' <=> Queued(k)) /\ (Slotted(k)' <=> Slotted(k))
    BY <1>5 DEF Queued, Slotted
  <1>7. \A k \in Jobs : state'[k] = IF k = j THEN "INITIALIZED" ELSE state[k]
    BY <1>1 DEF IInv, TypeOK
  <1>8. /\ \A s \in Threads \ {c} : pc'[s] = pc[s]
        /\ pc'[c] \in {"dispose", "add", "syncstart"}
        /\ pc'[c] = "dispose" => j \in refused'
        /\ refused \subseteq refused'
    BY <1>1, <1>2 DEF IInv, TypeOK, Goto
  <1>9. DistinctOK'
    BY <1>4, <1>5 DEF OwnInv, DistinctOK
  <1>10. PlacesOK'
    BY <1>3, <1>4, <1>5, <1>6, <1>7 DEF OwnInv, PlacesOK, Live
  <1>11. EmptyHanded' /\ DoomedOK'
    BY <1>4, <1>5, <1>8 DEF OwnInv, EmptyHanded, DoomedOK, Busy, Holding
  <1>12. progress' \subseteq {k \in Jobs : Live(k)'}
    BY <1>1, <1>7 DEF OwnInv, Live
  <1>13. HandsOK'
    <2>1. \A s \in Threads \ {c} : cur[s] # j
      BY <1>3 DEF Held
    <2>2. \A s \in Threads : pc[s] = "test" => cur[s] \in Jobs
      BY DEF IInv, CurOK, Busy, Holding
    <2> QED
      BY <1>4, <1>5, <1>7, <1>8, <2>1, <2>2 DEF FateInv, HandsOK
  <1>14. WaitingOK'
    BY <1>3, <1>6, <1>7, <1>8 DEF FateInv, WaitingOK
  <1>15. ExecutedOK'
    <2>1. executed \subseteq Jobs
      BY DEF IInv, TypeOK
    <2> QED
      BY <1>3, <1>4, <1>5, <1>6, <1>7, <1>8, <2>1 DEF FateInv, ExecutedOK
  <1>16. NoSilentLoss'
    BY <1>5, <1>7, <1>8 DEF FateInv, NoSilentLoss
  <1> QED
    BY <1>9, <1>10, <1>11, <1>12, <1>13, <1>14, <1>15, <1>16 DEF OwnInv, FateInv

\* dt_control_job_dispose: the job leaves the hands it was in and the live jobs at once.
LEMMA DisposeOwn ==
    ASSUME IInv, OwnInv, FateInv, NEW t \in Threads, Dispose(t)
    PROVE  OwnInv' /\ FateInv'
  <1> USE JobsAssumption
  <1>1. cur[t] \in Jobs /\ cur[t] \in executed \cup refused
    BY DEF Dispose, IInv, CurOK, Busy, Holding, FateInv, HandsOK
  <1>2. /\ \A k \in Jobs : Held(k)' <=> Held(k) /\ k # cur[t]
        /\ \A s, u \in Threads : cur'[s] # NULL /\ cur'[s] = cur'[u] => s = u
        /\ cur'[t] = NULL /\ \A s \in Threads \ {t} : cur'[s] = cur[s]
        /\ Held(cur[t])
    BY <1>1, LetGo DEF Dispose
  <1>3. UNCHANGED <<queues, job_res, doomed, drained, main, executed, refused>>
    BY DEF Dispose, queueVars, resVars, stopVars, history
  <1>4. \A k : (Queued(k)' <=> Queued(k)) /\ (Slotted(k)' <=> Slotted(k))
    BY <1>3 DEF Queued, Slotted
  <1>5. /\ \A k \in Jobs : state'[k] = IF k = cur[t] THEN "DISPOSED" ELSE state[k]
        /\ progress' = progress \ {cur[t]}
    BY DEF Dispose, dispose
  <1>6. /\ \A s \in Threads \ {t} : pc'[s] = pc[s]
        /\ pc'[t] \in {"idle", "check"}
    BY DEF Dispose, Goto, IInv, TypeOK
  <1>7. ~Queued(cur[t]) /\ ~Slotted(cur[t]) /\ cur[t] \notin doomed
    BY <1>1, <1>2 DEF OwnInv, PlacesOK
  <1>8. DistinctOK'
    BY <1>2, <1>3 DEF OwnInv, DistinctOK
  <1>9. PlacesOK'
    BY <1>2, <1>3, <1>4, <1>5, <1>7 DEF OwnInv, PlacesOK, Live
  <1>10. EmptyHanded' /\ DoomedOK'
    BY <1>2, <1>3, <1>6 DEF OwnInv, EmptyHanded, DoomedOK
  <1>11. progress' \subseteq {k \in Jobs : Live(k)'}
    BY <1>5 DEF OwnInv, Live
  <1>12. HandsOK'
    <2>1. \A s \in Threads \ {t} : cur[s] # cur[t]
      BY <1>1 DEF OwnInv, DistinctOK
    <2>2. \A s \in Threads : pc[s] = "test" => cur[s] \in Jobs
      BY DEF IInv, CurOK, Busy, Holding
    <2> QED
      BY <1>2, <1>3, <1>5, <1>6, <2>1, <2>2 DEF FateInv, HandsOK
  <1>13. WaitingOK'
    BY <1>3, <1>4, <1>5, <1>7 DEF FateInv, WaitingOK
  <1>14. ExecutedOK'
    <2>1. executed \subseteq Jobs
      BY DEF IInv, TypeOK
    <2> QED
      BY <1>2, <1>3, <1>4, <1>5, <1>6, <2>1 DEF FateInv, ExecutedOK
  <1>15. NoSilentLoss'
    BY <1>1, <1>3, <1>5 DEF FateInv, NoSilentLoss
  <1> QED
    BY <1>8, <1>9, <1>10, <1>11, <1>12, <1>13, <1>14, <1>15 DEF OwnInv, FateInv

\* dt_control_add_job_res: the new job is in the slot, the one it replaces is disposed of.
LEMMA AddJobResOwn ==
    ASSUME IInv, OwnInv, FateInv, NEW c \in Clients, AddJobRes(c)
    PROVE  OwnInv' /\ FateInv'
  <1> USE JobsAssumption
  <1>1. PICK j \in Jobs, r \in Reserved :
          /\ pc[c] = "idle" /\ state[j] = "UNBORN"
          /\ state' = [i \in Jobs |-> CASE i = j -> "QUEUED"
                                        [] i \in {job_res[r]} \ {NULL} -> "DISPOSED"
                                        [] OTHER -> state[i]]
          /\ progress' = progress \ ({job_res[r]} \ {NULL})
          /\ refused' = refused \cup ({job_res[r]} \ {NULL})
          /\ job_res' = [job_res EXCEPT ![r] = j]
          /\ pc' = [pc EXCEPT ![c] = "notify"]
    BY DEF AddJobRes, Goto
  <1>2. c \in Threads /\ cur[c] = NULL /\ j # NULL
    BY <1>1 DEF Threads, OwnInv, EmptyHanded, Busy, Holding
  <1>3. ~Queued(j) /\ ~Held(j) /\ ~Slotted(j) /\ j \notin doomed /\ j \notin executed
    BY <1>1, UnbornIsNowhere
  <1>4. UNCHANGED <<queues, cur, doomed, drained, main, executed>>
    BY DEF AddJobRes, queueVars, stopVars
  <1>5. \A k : (Queued(k)' <=> Queued(k)) /\ (Held(k)' <=> Held(k))
    BY <1>4 DEF Queued, Held
  <1>6. job_res'[r] = j /\ \A s \in Reserved \ {r} : job_res'[s] = job_res[s]
    BY <1>1 DEF IInv, TypeOK
  <1>7. \A s \in Reserved \ {r} : job_res[s] # NULL => job_res[s] # job_res[r]
    BY DEF OwnInv, DistinctOK
  <1>8. \A k \in Jobs : Slotted(k)' <=> (Slotted(k) /\ k # job_res[r]) \/ k = j
    BY <1>6, <1>7 DEF Slotted
  <1>9. /\ \A k \in Jobs : state'[k] = IF k = j THEN "QUEUED"
                                    ELSE IF k = job_res[r] THEN "DISPOSED" ELSE state[k]
        /\ refused \subseteq refused'
        /\ \A k \in Jobs : k = job_res[r] => k \in refused' /\ k \notin progress'
        /\ progress' \subseteq progress
    <2>1. \A k \in Jobs : k \in {job_res[r]} \ {NULL} <=> k = job_res[r]
      OBVIOUS
    <2>2. \A k \in Jobs : state'[k] = CASE k = j -> "QUEUED"
                                        [] k \in {job_res[r]} \ {NULL} -> "DISPOSED"
                                        [] OTHER -> state[k]
      BY <1>1
    <2>3. \A k \in Jobs : state'[k] = IF k = j THEN "QUEUED"
                                   ELSE IF k = job_res[r] THEN "DISPOSED" ELSE state[k]
      <3> TAKE k \in Jobs
      <3>1. CASE k = j
        <4>1. k \notin {job_res[r]} \ {NULL}
          BY <1>3, <3>1 DEF Slotted
        <4> QED
          BY <2>2, <3>1, <4>1
      <3>2. CASE k # j
        BY <2>1, <2>2, <3>2
      <3> QED
        BY <3>1, <3>2
    <2> QED
      BY <1>1, <2>3
  <1>10. pc'[c] = "notify" /\ \A s \in Threads \ {c} : pc'[s] = pc[s]
    BY <1>1, <1>2 DEF IInv, TypeOK
  <1>11. \A k \in Jobs : k = job_res[r] => /\ k # j /\ ~Queued(k) /\ ~Held(k) /\ k \notin doomed
                                          /\ Slotted(k)
    BY <1>3 DEF OwnInv, PlacesOK, Slotted
  <1>12. DistinctOK'
    <2>1. \A s \in Reserved : job_res[s] # j
      BY <1>3 DEF Slotted
    <2> QED
      BY <1>4, <1>6, <2>1 DEF OwnInv, DistinctOK
  <1>13. PlacesOK'
    BY <1>3, <1>4, <1>5, <1>8, <1>9, <1>11 DEF OwnInv, PlacesOK, Live
  <1>14. EmptyHanded' /\ DoomedOK'
    BY <1>2, <1>4, <1>10 DEF OwnInv, EmptyHanded, DoomedOK
  <1>15. progress' \subseteq {k \in Jobs : Live(k)'}
    BY <1>9 DEF OwnInv, Live
  <1>16. HandsOK'
    <2>1. \A s \in Threads : cur[s] # j
      BY <1>3 DEF Held
    <2>2. \A s \in Threads : pc[s] = "test" => cur[s] \in Jobs /\ cur[s] # job_res[r]
      BY <1>11 DEF IInv, CurOK, Busy, Holding, Held
    <2> QED
      BY <1>2, <1>4, <1>9, <1>10, <2>1, <2>2 DEF FateInv, HandsOK
  <1>17. WaitingOK'
    BY <1>5, <1>8, <1>9, <1>11 DEF FateInv, WaitingOK
  <1>18. ExecutedOK'
    <2>1. executed \subseteq Jobs
      BY DEF IInv, TypeOK
    <2> QED
      BY <1>2, <1>3, <1>4, <1>5, <1>8, <1>9, <1>10, <2>1 DEF FateInv, ExecutedOK
  <1>19. NoSilentLoss'
    BY <1>4, <1>9 DEF FateInv, NoSilentLoss
  <1> QED
    BY <1>12, <1>13, <1>14, <1>15, <1>16, <1>17, <1>18, <1>19 DEF OwnInv, FateInv

\* dt_control_run_job_res: the job goes from the slot into the hands of the worker.
LEMMA TakeReservedOwn ==
    ASSUME IInv, OwnInv, FateInv, NEW r \in Reserved, TakeReserved(r)
    PROVE  OwnInv' /\ FateInv'
  <1> USE JobsAssumption
  <1>1. r \in Threads /\ cur[r] = NULL
    BY DEF TakeReserved, Threads, OwnInv, EmptyHanded, Busy, Holding
  <1>2. UNCHANGED <<state, progress, queues, doomed, drained, main, executed, refused>>
    BY DEF TakeReserved, jobVars, queueVars, stopVars, history
  <1>3. \A k : (Queued(k)' <=> Queued(k)) /\ (Live(k)' <=> Live(k))
    BY <1>2 DEF Queued, Live
  <1>4. /\ pc'[r] = IF cur'[r] = NULL THEN "sleep" ELSE "test"
        /\ \A s \in Threads \ {r} : pc'[s] = pc[s]
    BY <1>1 DEF TakeReserved, Goto, IInv, TypeOK
  <1>5. CASE new_res[r] /\ job_res[r] # NULL
    <2> DEFINE x == job_res[r]
    <2>1. cur' = [cur EXCEPT ![r] = x] /\ job_res' = [job_res EXCEPT ![r] = NULL]
      BY <1>5 DEF TakeReserved
    <2>2. x \in Jobs /\ Slotted(x)
      BY <1>5 DEF IInv, TypeOK, Slotted
    <2> HIDE DEF x
    <2>3. ~Held(x) /\ ~Queued(x) /\ x \notin doomed
      BY <2>2 DEF OwnInv, PlacesOK
    <2>4. /\ \A k \in Jobs : Held(k)' <=> Held(k) \/ k = x
          /\ \A s, u \in Threads : cur'[s] # NULL /\ cur'[s] = cur'[u] => s = u
          /\ cur'[r] = x /\ \A s \in Threads \ {r} : cur'[s] = cur[s]
      BY <1>1, <2>1, <2>2, <2>3, TakeInHand
    <2>5. job_res'[r] = NULL /\ \A s \in Reserved \ {r} : job_res'[s] = job_res[s]
      BY <2>1 DEF IInv, TypeOK
    <2>6. \A s \in Reserved \ {r} : job_res[s] # NULL => job_res[s] # x
      BY DEF OwnInv, DistinctOK, x
    <2>7. \A k \in Jobs : Slotted(k)' <=> Slotted(k) /\ k # x
      BY <2>5, <2>6 DEF Slotted, x
    <2>8. DistinctOK'
      BY <1>2, <2>4, <2>5 DEF OwnInv, DistinctOK
    <2>9. PlacesOK'
      BY <1>2, <1>3, <2>2, <2>3, <2>4, <2>7 DEF OwnInv, PlacesOK
    <2>10. pc'[r] = "test"
      BY <1>4, <2>2, <2>4
    <2>11. EmptyHanded'
      BY <1>4, <2>4, <2>10 DEF OwnInv, EmptyHanded, Busy, Holding
    <2>12. HandsOK'
      <3>1. state[x] = "QUEUED" \/ x \in refused
        BY <2>2 DEF FateInv, WaitingOK
      <3> QED
        BY <1>2, <1>4, <2>4, <2>10, <3>1 DEF FateInv, HandsOK
    <2>13. WaitingOK'
      BY <1>2, <1>3, <2>7 DEF FateInv, WaitingOK
    <2>14. ExecutedOK'
      <3>1. executed \subseteq Jobs /\ x \notin executed
        BY <2>2 DEF IInv, TypeOK, FateInv, ExecutedOK
      <3> QED
        BY <1>2, <1>3, <1>4, <2>4, <2>7, <3>1 DEF FateInv, ExecutedOK
    <2> QED
      BY <1>2, <1>3, <2>8, <2>9, <2>11, <2>12, <2>13, <2>14
      DEF OwnInv, FateInv, DoomedOK, NoSilentLoss
  <1>6. CASE ~(new_res[r] /\ job_res[r] # NULL)
    <2>1. cur' = cur /\ job_res' = job_res
      BY <1>1, <1>6 DEF TakeReserved, IInv, TypeOK
    <2>2. pc'[r] = "sleep"
      BY <1>1, <1>4, <2>1
    <2>3. EmptyHanded' /\ DoomedOK'
      BY <1>1, <1>2, <1>4, <2>1, <2>2 DEF OwnInv, EmptyHanded, DoomedOK
    <2>4. OwnInv'
      BY <1>2, <1>3, <2>1, <2>3, PlacesKept
    <2>5. HandsOK'
      BY <1>2, <1>4, <2>1, <2>2 DEF FateInv, HandsOK
    <2>6. \A s \in Threads : pc[s] \in Executing => pc'[s] \in Executing
      BY <1>4 DEF TakeReserved, Executing
    <2>7. ExecutedOK'
      BY <1>2, <2>1, <2>6, ExecutedKept
    <2>8. WaitingOK' /\ NoSilentLoss'
      BY <1>2, <1>3, <2>1 DEF FateInv, WaitingOK, NoSilentLoss, Slotted
    <2> QED
      BY <2>4, <2>5, <2>7, <2>8 DEF FateInv
  <1> QED
    BY <1>5, <1>6

\* dt_control_schedule_job: the job goes from the head of its queue into the worker's hands.
LEMMA ScheduleOwn ==
    ASSUME IInv, OwnInv, FateInv, NEW w \in Workers, Schedule(w)
    PROVE  OwnInv' /\ FateInv'
  <1> USE JobsAssumption
  <1>1. PICK q \in Queues :
          /\ IsWinner(q)
          /\ queues' = [queues EXCEPT ![q] = Tail(@)]
          /\ cur' = [cur EXCEPT ![w] = Head(queues[q])]
          /\ pc' = [pc EXCEPT ![w] = "test"]
    BY DEF Schedule, Goto
  <1> DEFINE x == Head(queues[q])
  <1>2. w \in Threads /\ cur[w] = NULL
    BY DEF Schedule, Threads, OwnInv, EmptyHanded, Busy, Holding
  <1>3. UNCHANGED <<state, progress, job_res, doomed, drained, main, executed, refused>>
    BY DEF Schedule, resVars, stopVars, history
  <1>4. \A k : (Slotted(k)' <=> Slotted(k)) /\ (Live(k)' <=> Live(k))
    BY <1>3 DEF Slotted, Live
  <1>5. queues[q] \in Seq(Jobs) /\ queues[q] # <<>> /\ IsInjective(queues[q])
    BY <1>1 DEF IsWinner, Candidates, IInv, TypeOK, OwnInv, DistinctOK
  <1>6. Tail(queues[q]) \in Seq(Jobs) /\ x \in Jobs
    BY <1>5
  <1>7. /\ IsInjective(Tail(queues[q]))
        /\ ToSet(Tail(queues[q])) = ToSet(queues[q]) \ {x}
        /\ x \in ToSet(queues[q])
    BY <1>5, TailDistinct
  <1> HIDE DEF x
  <1>8. Queued(x) /\ queue[x] = q
    BY <1>7 DEF Queued, IInv, QueuesOK, ToSet
  <1>9. ~Held(x) /\ ~Slotted(x) /\ x \notin doomed
    BY <1>6, <1>8 DEF OwnInv, PlacesOK
  <1>10. /\ \A k \in Jobs : Queued(k)' <=> (Queued(k) \/ k \in {}) /\ k \notin {x}
         /\ \A r \in Queues : IsInjective(queues'[r])
    <2>1. queues' = [queues EXCEPT ![q] = Tail(queues[q])]
      BY <1>1
    <2>2. ToSet(Tail(queues[q])) = (ToSet(queues[q]) \cup {}) \ {x}
      BY <1>7
    <2>3. {x} \in SUBSET Jobs /\ \A k \in {x} : queue[k] = q
      BY <1>6, <1>8
    <2> QED
      BY <1>6, <1>7, <2>1, <2>2, <2>3, QueueChanged
  <1>11. /\ \A k \in Jobs : Held(k)' <=> Held(k) \/ k = x
         /\ \A s, u \in Threads : cur'[s] # NULL /\ cur'[s] = cur'[u] => s = u
         /\ cur'[w] = x /\ \A s \in Threads \ {w} : cur'[s] = cur[s]
    <2>1. cur' = [cur EXCEPT ![w] = x]
      BY <1>1 DEF x
    <2> QED
      BY <1>2, <1>6, <1>9, <2>1, TakeInHand
  <1>12. pc'[w] = "test" /\ \A s \in Threads \ {w} : pc'[s] = pc[s]
    BY <1>1, <1>2 DEF IInv, TypeOK
  <1>13. DistinctOK'
    BY <1>3, <1>10, <1>11 DEF OwnInv, DistinctOK
  <1>14. PlacesOK'
    BY <1>3, <1>4, <1>8, <1>9, <1>10, <1>11 DEF OwnInv, PlacesOK
  <1>15. EmptyHanded' /\ DoomedOK'
    BY <1>3, <1>11, <1>12 DEF OwnInv, EmptyHanded, DoomedOK, Busy, Holding
  <1>16. HandsOK'
    <2>1. state[x] = "QUEUED" \/ x \in refused
      BY <1>6, <1>8 DEF FateInv, WaitingOK
    <2> QED
      BY <1>3, <1>11, <1>12, <2>1 DEF FateInv, HandsOK
  <1>17. WaitingOK'
    BY <1>3, <1>4, <1>10 DEF FateInv, WaitingOK
  <1>18. ExecutedOK'
    <2>1. executed \subseteq Jobs /\ x \notin executed
      BY <1>8 DEF IInv, TypeOK, FateInv, ExecutedOK
    <2> QED
      BY <1>3, <1>4, <1>10, <1>11, <1>12, <2>1 DEF FateInv, ExecutedOK
  <1> QED
    BY <1>3, <1>4, <1>13, <1>14, <1>15, <1>16, <1>17, <1>18 DEF OwnInv, FateInv, NoSilentLoss

\* dt_control_jobs_drain detaches what is queued ...
LEMMA DrainOwn ==
    ASSUME IInv, OwnInv, FateInv, Drain
    PROVE  OwnInv' /\ FateInv'
  <1>1. /\ queues' = [q \in Queues |-> <<>>]
        /\ doomed' = UNION {ToSet(queues[q]) : q \in Queues}
        /\ main' \in {"dispose", "disposeAgain"}
        /\ doomed = {}
        /\ UNCHANGED <<state, progress, cur, pc, job_res, drained, executed, refused>>
    BY DEF Drain, QueuedJobs, OwnInv, DoomedOK, jobVars, threadVars, resVars, history
  <1>2. \A k : (Slotted(k)' <=> Slotted(k)) /\ (Held(k)' <=> Held(k)) /\ (Live(k)' <=> Live(k))
    BY <1>1 DEF Slotted, Held, Live
  <1>3. \A k : ~Queued(k)' /\ (k \in doomed' <=> Queued(k))
    BY <1>1 DEF Queued, ToSet
  <1>4. \A q \in Queues : IsInjective(queues'[q])
    BY <1>1 DEF IsInjective
  <1>5. DistinctOK'
    BY <1>1, <1>4 DEF OwnInv, DistinctOK
  <1>6. PlacesOK'
    BY <1>1, <1>2, <1>3 DEF OwnInv, PlacesOK
  <1>7. EmptyHanded' /\ DoomedOK'
    BY <1>1 DEF OwnInv, EmptyHanded, DoomedOK
  <1>8. HandsOK' /\ WaitingOK' /\ NoSilentLoss'
    BY <1>1, <1>2, <1>3 DEF FateInv, HandsOK, WaitingOK, NoSilentLoss
  <1>9. ExecutedOK'
    BY <1>1, <1>2, <1>3 DEF FateInv, ExecutedOK
  <1> QED
    BY <1>1, <1>2, <1>5, <1>6, <1>7, <1>8, <1>9 DEF OwnInv, FateInv

\* ... and disposes of it.
LEMMA DrainDisposeOwn ==
    ASSUME IInv, OwnInv, FateInv, DrainDispose
    PROVE  OwnInv' /\ FateInv'
  <1>1. /\ \A k \in Jobs : state'[k] = IF k \in doomed THEN "DISPOSED" ELSE state[k]
        /\ progress' = progress \ doomed
        /\ drained' = drained \cup doomed
        /\ doomed' = {}
        /\ UNCHANGED <<queues, cur, pc, job_res, executed, refused>>
    BY DEF DrainDispose, dispose, queueVars, threadVars, resVars, history
  <1>2. \A k : /\ Slotted(k)' <=> Slotted(k)
               /\ Held(k)' <=> Held(k)
               /\ Queued(k)' <=> Queued(k)
    BY <1>1 DEF Slotted, Held, Queued
  <1>3. DistinctOK' /\ EmptyHanded' /\ DoomedOK'
    BY <1>1 DEF OwnInv, DistinctOK, EmptyHanded, DoomedOK
  <1>4. PlacesOK'
    BY <1>1, <1>2 DEF OwnInv, PlacesOK, Live
  <1>5. progress' \subseteq {k \in Jobs : Live(k)'}
    BY <1>1 DEF OwnInv, Live
  <1>6. HandsOK'
    <2>1. \A s \in Threads : pc[s] = "test" => cur[s] \in Jobs /\ cur[s] \notin doomed
      BY DEF IInv, CurOK, Busy, Holding, OwnInv, PlacesOK, Held
    <2> QED
      BY <1>1, <2>1 DEF FateInv, HandsOK
  <1>7. WaitingOK' /\ NoSilentLoss'
    BY <1>1, <1>2 DEF FateInv, WaitingOK, NoSilentLoss, OwnInv, PlacesOK
  <1>8. ExecutedOK'
    <2>1. executed \subseteq Jobs
      BY DEF IInv, TypeOK
    <2> QED
      BY <1>1, <1>2, <2>1 DEF FateInv, ExecutedOK
  <1> QED
    BY <1>3, <1>4, <1>5, <1>6, <1>7, <1>8 DEF OwnInv, FateInv

\* The job FirstEqual finds is equal to j; if it finds none, none is.
LEMMA FirstEqualMeaning ==
    ASSUME NEW S, NEW list \in Seq(S), NEW j
    PROVE  /\ FirstEqual(j, list) # 0 =>
                /\ FirstEqual(j, list) \in DOMAIN list
                /\ dt_control_job_equal(j, list[FirstEqual(j, list)])
           /\ FirstEqual(j, list) = 0 =>
                \A i \in DOMAIN list : ~dt_control_job_equal(j, list[i])
  <1> DEFINE I == {i \in 1..Len(list) : dt_control_job_equal(j, list[i])}
  <1>1. FirstEqual(j, list) = IF I # {} THEN Min(I) ELSE 0
    BY DEF FirstEqual, SelectInSeq
  <1>2. I \in SUBSET Nat /\ I \subseteq DOMAIN list /\ 0 \notin I
    OBVIOUS
  <1>3. /\ \A i \in I : dt_control_job_equal(j, list[i])
        /\ \A i \in DOMAIN list : dt_control_job_equal(j, list[i]) => i \in I
    OBVIOUS
  <1> HIDE DEF I
  <1> QED
    BY <1>1, <1>2, <1>3, MinInSet

\* The critical section of dt_control_add_job for the SYSTEM_FG stack: top is the equal
\* job that was on the stack, or the submitted one if there was none; it is now on the
\* stack once; what is pushed out of the stack is another one.
LEMMA StackMoves ==
    ASSUME IInv, OwnInv, NEW c \in Clients, pc[c] = "add",
           request[c] = DT_JOB_QUEUE_SYSTEM_FG, AddToStack(c, cur[c])
    PROVE  LET q == DT_JOB_QUEUE_SYSTEM_FG
               old == ToSet(queues[q])
           IN  \E dup \in BOOLEAN, top \in Jobs, Out \in SUBSET Jobs, s \in Seq(Jobs) :
                 /\ dup => top \in old
                 /\ ~dup => top = cur[c] /\ \A k \in old : Key[k] # Key[top]
                 /\ Out \subseteq old \ {top}
                 /\ queues' = [queues EXCEPT ![q] = s]
                 /\ IsInjective(s) /\ ToSet(s) = (old \cup {top}) \ Out
                 /\ \A i \in Jobs : state'[i] = IF i = top THEN "QUEUED"
                                               ELSE IF i \in Out THEN "DISPOSED" ELSE state[i]
                 /\ progress' = progress \ Out
                 /\ refused' = (refused \cup Out \cup (IF dup THEN {cur[c]} ELSE {})) \ {top}
                 /\ cur' = [cur EXCEPT ![c] = IF dup THEN cur[c] ELSE NULL]
                 /\ pc' = [pc EXCEPT ![c] = "notify"]
  <1> USE JobsAssumption, QueueNumbers
  <1> DEFINE q == DT_JOB_QUEUE_SYSTEM_FG
             j == cur[c]
             old == queues[q]
             pos == FirstEqual(j, old)
             dup == pos # 0
             rest == IF dup THEN RemoveAt(old, pos) ELSE old
             top == IF dup THEN old[pos] ELSE j
             length == queue_length[q] + (IF dup THEN 0 ELSE 1)
             stack == <<top>> \o rest
             full == length > DT_CONTROL_MAX_JOBS
             last == Last(stack)
             Out == IF full THEN {last} ELSE {}
             new == IF full THEN Front(stack) ELSE stack
  <1>1. /\ queues' = [queues EXCEPT ![q] = new]
        /\ state' = [i \in Jobs |-> CASE i = top -> "QUEUED"
                                      [] full /\ i = last -> "DISPOSED"
                                      [] OTHER -> state[i]]
        /\ progress' = IF full THEN progress \ {last} ELSE progress
        /\ refused' = (refused \cup Out \cup (IF dup THEN {j} ELSE {})) \ {top}
        /\ cur' = [cur EXCEPT ![c] = IF dup THEN j ELSE NULL]
        /\ pc' = [pc EXCEPT ![c] = "notify"]
    BY DEF AddToStack, Goto
  <1>2. j \in Jobs /\ queue[j] = q /\ Held(j)
    BY DEF IInv, AddCallOK, Held, Threads
  <1>3. old \in Seq(Jobs) /\ IsInjective(old) /\ \A i \in DOMAIN old : queue[old[i]] = q
    BY DEF IInv, TypeOK, QueuesOK, OwnInv, DistinctOK
  <1>4. queue_length[q] = Len(old) /\ Len(old) \in Nat
    BY <1>3 DEF IInv, LengthIsExact
  <1>5. j \notin ToSet(old)
    BY <1>2 DEF OwnInv, PlacesOK, Queued
  <1>6. /\ dup => pos \in DOMAIN old
        /\ ~dup => \A i \in DOMAIN old : ~dt_control_job_equal(j, old[i])
    BY <1>3, FirstEqualMeaning
  <1>7. ~dup => \A k \in ToSet(old) : Key[k] # Key[j]
    <2>1. \A i \in DOMAIN old : old[i] # NULL
      BY <1>3
    <2> QED
      BY <1>2, <1>3, <1>6, <2>1 DEF dt_control_job_equal, ToSet
  <1> HIDE DEF pos, old, j
  <1>8. /\ top \in Jobs /\ rest \in Seq(Jobs) /\ IsInjective(rest)
        /\ ToSet(rest) = ToSet(old) \ {top}
        /\ dup => top \in ToSet(old)
        /\ Len(rest) = IF dup THEN Len(old) - 1 ELSE Len(old)
    <2>1. CASE dup
      <3>1. pos \in DOMAIN old /\ top = old[pos] /\ rest = RemoveAt(old, pos)
        BY <1>6, <2>1
      <3>2. /\ RemoveAt(old, pos) \in Seq(Jobs)
            /\ Len(RemoveAt(old, pos)) = Len(old) - 1
        BY <1>3, <3>1, RemoveAtElements
      <3>3. /\ IsInjective(RemoveAt(old, pos))
            /\ ToSet(RemoveAt(old, pos)) = ToSet(old) \ {old[pos]}
        BY <1>3, <3>1, RemoveAtDistinct
      <3>4. old[pos] \in Jobs /\ old[pos] \in ToSet(old)
        BY <1>3, <3>1 DEF ToSet
      <3> HIDE DEF rest, top
      <3> QED
        BY <2>1, <3>1, <3>2, <3>3, <3>4
    <2>2. CASE ~dup
      BY <1>2, <1>3, <1>5, <2>2
    <2> QED
      BY <2>1, <2>2
  <1>9. ~dup => top = j
    OBVIOUS
  <1> HIDE DEF top, rest
  <1>10. top \notin ToSet(rest)
    BY <1>8
  <1>11. stack \in Seq(Jobs) /\ stack # <<>> /\ Len(stack) = Len(rest) + 1
    BY <1>8, PushElements
  <1>12. /\ IsInjective(stack) /\ ToSet(stack) = ToSet(rest) \cup {top}
         /\ Len(rest) > 0 => last # top
    BY <1>8, <1>10, PushDistinct
  <1>13. length = Len(rest) + 1 /\ Len(rest) \in Nat
    BY <1>4, <1>8
  <1>14. full => Len(rest) > 0
    BY <1>13
  <1> HIDE DEF stack, length
  <1>15. /\ Front(stack) \in Seq(Jobs) /\ IsInjective(Front(stack))
         /\ ToSet(Front(stack)) = ToSet(stack) \ {last}
         /\ last \in ToSet(stack)
    BY <1>11, <1>12, FrontElements, FrontDistinct
  <1> HIDE DEF last, full, dup
  <1>16. new \in Seq(Jobs) /\ IsInjective(new) /\ ToSet(new) = ToSet(stack) \ Out
    BY <1>11, <1>12, <1>15
  <1>17. Out \subseteq ToSet(old) \ {top} /\ Out \in SUBSET Jobs
    <2>1. ToSet(old) \subseteq Jobs
      BY <1>3 DEF ToSet
    <2> QED
      BY <1>8, <1>12, <1>14, <1>15, <2>1
  <1>18. ToSet(new) = (ToSet(old) \cup {top}) \ Out
    BY <1>8, <1>12, <1>16
  <1>19. progress' = progress \ Out
    BY <1>1
  <1>20. \A i \in Jobs : state'[i] = IF i = top THEN "QUEUED"
                                    ELSE IF i \in Out THEN "DISPOSED" ELSE state[i]
    <2> TAKE i \in Jobs
    <2>1. state'[i] = CASE i = top -> "QUEUED"
                        [] full /\ i = last -> "DISPOSED"
                        [] OTHER -> state[i]
      BY <1>1
    <2>2. i \in Out <=> full /\ i = last
      OBVIOUS
    <2>3. CASE i = top
      <3>1. ~(full /\ i = last)
        BY <1>17, <2>2, <2>3
      <3> QED
        BY <2>1, <2>3, <3>1
    <2>4. CASE i # top
      BY <2>1, <2>2, <2>4
    <2> QED
      BY <2>3, <2>4
  <1>21. dup \in BOOLEAN
    BY DEF dup
  <1> HIDE DEF Out, new
  <1>22. /\ dup => top \in ToSet(old)
         /\ ~dup => top = j /\ \A k \in ToSet(old) : Key[k] # Key[top]
    <2>1. ~dup => top = j
      BY <1>9
    <2> QED
      BY <1>7, <1>8, <2>1
  <1>23. top \in Jobs
    BY <1>8
  <1> QED
    BY <1>1, <1>16, <1>17, <1>18, <1>19, <1>20, <1>21, <1>22, <1>23 DEF old, j

\* An equal job is scheduled already: the submitter keeps its job, to discard it.
LEMMA AddRefusedOwn ==
    ASSUME IInv, OwnInv, FateInv, NEW c \in Clients, pc[c] = "add",
           pc' = [pc EXCEPT ![c] = "discard"], refused' = refused \cup {cur[c]},
           UNCHANGED <<state, progress, queues, cur, job_res, doomed, drained, main, executed>>
    PROVE  OwnInv' /\ FateInv'
  <1>1. c \in Threads /\ pc'[c] = "discard" /\ \A s \in Threads \ {c} : pc'[s] = pc[s]
    BY DEF IInv, TypeOK, Threads
  <1>2. \A k : (Live(k)' <=> Live(k)) /\ (Queued(k)' <=> Queued(k)) /\ (Slotted(k)' <=> Slotted(k))
    BY DEF Live, Queued, Slotted
  <1>3. EmptyHanded' /\ DoomedOK'
    BY <1>1 DEF OwnInv, EmptyHanded, DoomedOK, Busy, Holding
  <1>4. OwnInv'
    BY <1>2, <1>3, PlacesKept
  <1>5. HandsOK' /\ WaitingOK' /\ NoSilentLoss'
    BY <1>1, <1>2 DEF FateInv, HandsOK, WaitingOK, NoSilentLoss
  <1>6. ExecutedOK'
    BY <1>1, ExecutedKept DEF Executing
  <1> QED
    BY <1>4, <1>5, <1>6 DEF FateInv

\* A FIFO takes the job over from its submitter.
LEMMA AddToFifoOwn ==
    ASSUME IInv, OwnInv, FateInv, NEW c \in Clients, pc[c] = "add",
           AddToFifo(c, cur[c], request[c]),
           UNCHANGED <<job_res, doomed, drained, main, executed>>
    PROVE  OwnInv' /\ FateInv'
  <1> USE JobsAssumption
  <1> DEFINE q == request[c]
             j == cur[c]
  <1>1. j \in Jobs /\ q \in Queues /\ queue[j] = q /\ c \in Threads
    BY DEF IInv, AddCallOK, Threads
  <1>2. /\ queues' = [queues EXCEPT ![q] = Append(queues[q], j)]
        /\ state' = [state EXCEPT ![j] = "QUEUED"]
        /\ cur' = [cur EXCEPT ![c] = NULL]
        /\ pc' = [pc EXCEPT ![c] = "notify"]
        /\ refused' = refused /\ progress' = progress
    BY DEF AddToFifo, set_state, AtLeastFinished, Goto
  <1>3. /\ \A k \in Jobs : Held(k)' <=> Held(k) /\ k # j
        /\ \A s, u \in Threads : cur'[s] # NULL /\ cur'[s] = cur'[u] => s = u
        /\ cur'[c] = NULL /\ \A s \in Threads \ {c} : cur'[s] = cur[s]
        /\ Held(j)
    BY <1>1, <1>2, LetGo
  <1>4. ~Queued(j) /\ ~Slotted(j) /\ j \notin doomed /\ Live(j) /\ j \notin executed
    BY <1>1, <1>3 DEF OwnInv, PlacesOK, FateInv, ExecutedOK, Executing
  <1> HIDE DEF q, j
  <1>5. /\ \A k \in Jobs : Queued(k)' <=> (Queued(k) \/ k \in {j}) /\ k \notin {}
        /\ \A r \in Queues : IsInjective(queues'[r])
    <2>1. queues[q] \in Seq(Jobs) /\ IsInjective(queues[q]) /\ j \notin ToSet(queues[q])
      BY <1>1, <1>4 DEF IInv, TypeOK, OwnInv, DistinctOK, Queued
    <2>2. /\ Append(queues[q], j) \in Seq(Jobs)
          /\ IsInjective(Append(queues[q], j))
          /\ ToSet(Append(queues[q], j)) = ToSet(queues[q]) \cup {j}
      BY <1>1, <2>1, AppendDistinct
    <2>3. ToSet(Append(queues[q], j)) = (ToSet(queues[q]) \cup {j}) \ {}
      BY <2>2
    <2>4. {} \in SUBSET Jobs /\ \A k \in {} : queue[k] = q
      OBVIOUS
    <2> QED
      BY <1>1, <1>2, <2>2, <2>3, <2>4, QueueChanged
  <1>6. \A k : Slotted(k)' <=> Slotted(k)
    BY DEF Slotted
  <1>7. \A k \in Jobs : state'[k] = IF k = j THEN "QUEUED" ELSE state[k]
    BY <1>2 DEF IInv, TypeOK
  <1>8. pc'[c] = "notify" /\ \A s \in Threads \ {c} : pc'[s] = pc[s]
    BY <1>1, <1>2 DEF IInv, TypeOK
  <1>9. DistinctOK'
    BY <1>3, <1>5 DEF OwnInv, DistinctOK
  <1>10. PlacesOK'
    BY <1>3, <1>4, <1>5, <1>6, <1>7 DEF OwnInv, PlacesOK, Live
  <1>11. EmptyHanded' /\ DoomedOK'
    BY <1>3, <1>8 DEF OwnInv, EmptyHanded, DoomedOK
  <1>12. progress' \subseteq {k \in Jobs : Live(k)'}
    BY <1>2, <1>7 DEF OwnInv, Live
  <1>13. HandsOK'
    <2>1. \A s \in Threads : pc[s] = "test" => cur[s] \in Jobs
      BY DEF IInv, CurOK, Busy, Holding
    <2> QED
      BY <1>2, <1>3, <1>7, <1>8, <2>1 DEF FateInv, HandsOK
  <1>14. WaitingOK' /\ NoSilentLoss'
    BY <1>2, <1>5, <1>6, <1>7 DEF FateInv, WaitingOK, NoSilentLoss
  <1>15. ExecutedOK'
    <2>1. executed \subseteq Jobs
      BY DEF IInv, TypeOK
    <2> QED
      BY <1>3, <1>4, <1>5, <1>6, <1>7, <1>8, <2>1 DEF FateInv, ExecutedOK
  <1> QED
    BY <1>9, <1>10, <1>11, <1>12, <1>13, <1>14, <1>15 DEF OwnInv, FateInv

\* The stack takes the job over, or moves the equal one up and leaves the submitter its own;
\* the job that is pushed out is disposed of.
LEMMA AddToStackOwn ==
    ASSUME IInv, OwnInv, FateInv, NEW c \in Clients, pc[c] = "add",
           request[c] = DT_JOB_QUEUE_SYSTEM_FG, AddToStack(c, cur[c]),
           UNCHANGED <<job_res, doomed, drained, main, executed>>
    PROVE  OwnInv' /\ FateInv'
  <1> USE JobsAssumption, QueueNumbers
  <1> DEFINE q == DT_JOB_QUEUE_SYSTEM_FG
             old == ToSet(queues[q])
             j == cur[c]
  <1>1. PICK dup \in BOOLEAN, top \in Jobs, Out \in SUBSET Jobs, s \in Seq(Jobs) :
          /\ dup => top \in old
          /\ ~dup => top = cur[c] /\ \A k \in old : Key[k] # Key[top]
          /\ Out \subseteq old \ {top}
          /\ queues' = [queues EXCEPT ![q] = s]
          /\ IsInjective(s) /\ ToSet(s) = (old \cup {top}) \ Out
          /\ \A i \in Jobs : state'[i] = IF i = top THEN "QUEUED"
                                        ELSE IF i \in Out THEN "DISPOSED" ELSE state[i]
          /\ progress' = progress \ Out
          /\ refused' = (refused \cup Out \cup (IF dup THEN {cur[c]} ELSE {})) \ {top}
          /\ cur' = [cur EXCEPT ![c] = IF dup THEN cur[c] ELSE NULL]
          /\ pc' = [pc EXCEPT ![c] = "notify"]
    BY StackMoves, Zenon
  <1>2. j \in Jobs /\ queue[j] = q /\ c \in Threads /\ Held(j)
    BY DEF IInv, AddCallOK, Threads, Held
  <1>3. ~Queued(j) /\ ~Slotted(j) /\ j \notin doomed /\ Live(j) /\ j \notin executed
    BY <1>2 DEF OwnInv, PlacesOK, FateInv, ExecutedOK, Executing
  <1>4. \A k \in old : Queued(k) /\ queue[k] = q
    BY DEF Queued, IInv, QueuesOK, ToSet
  <1>5. \A k \in Jobs : Queued(k) => /\ ~Held(k) /\ ~Slotted(k) /\ k \notin doomed
                                   /\ k \notin executed
    BY DEF OwnInv, PlacesOK, FateInv, ExecutedOK
  <1>6. /\ \A k \in Jobs : Queued(k)' <=> (Queued(k) \/ k \in {top}) /\ k \notin Out
        /\ \A r \in Queues : IsInjective(queues'[r])
    <2>1. \A k \in Out : queue[k] = q
      BY <1>1, <1>4
    <2>2. /\ queues' = [queues EXCEPT ![q] = s] /\ IsInjective(s)
          /\ ToSet(s) = (ToSet(queues[q]) \cup {top}) \ Out
      BY <1>1
    <2>3. q \in Queues
      OBVIOUS
    <2> HIDE DEF q
    <2> QED
      BY <2>1, <2>2, <2>3, QueueChanged
  <1> HIDE DEF old, j, q
  <1>7. /\ \A k \in Jobs : Held(k)' <=> Held(k) /\ (dup \/ k # j)
        /\ \A u, v \in Threads : cur'[u] # NULL /\ cur'[u] = cur'[v] => u = v
        /\ cur'[c] = (IF dup THEN j ELSE NULL)
        /\ \A u \in Threads \ {c} : cur'[u] = cur[u]
    <2>1. CASE dup
      <3>1. cur' = cur
        BY <1>1, <2>1 DEF IInv, TypeOK
      <3> QED
        BY <2>1, <3>1 DEF Held, OwnInv, DistinctOK, j
    <2>2. CASE ~dup
      <3>1. cur' = [cur EXCEPT ![c] = NULL]
        BY <1>1, <2>2
      <3>2. /\ \A k \in Jobs : Held(k)' <=> Held(k) /\ k # cur[c]
            /\ \A u, v \in Threads : cur'[u] # NULL /\ cur'[u] = cur'[v] => u = v
            /\ cur'[c] = NULL /\ \A u \in Threads \ {c} : cur'[u] = cur[u]
        BY <1>2, <3>1, LetGo DEF j
      <3> QED
        BY <2>2, <3>2 DEF j
    <2> QED
      BY <2>1, <2>2
  <1>8. \A k : Slotted(k)' <=> Slotted(k)
    BY DEF Slotted
  <1>9. pc'[c] = "notify" /\ \A u \in Threads \ {c} : pc'[u] = pc[u]
    BY <1>1, <1>2 DEF IInv, TypeOK
  <1>10. /\ dup => Queued(top) /\ top # j
         /\ ~dup => top = j
         /\ \A k \in Out : Queued(k) /\ k # top /\ k # j
    BY <1>1, <1>3, <1>4 DEF j
  <1>11. \A u \in Threads \ {c} : cur[u] # top /\ cur[u] \notin Out
    <2>1. \A u \in Threads : cur[u] \in Jobs => ~Queued(cur[u])
      BY DEF OwnInv, PlacesOK, Held
    <2>2. \A u \in Threads \ {c} : cur[u] # j
      BY <1>2 DEF OwnInv, DistinctOK, j
    <2> QED
      BY <1>10, <2>1, <2>2
  <1>12. top \notin executed /\ \A k \in Out : k \notin executed
    BY <1>3, <1>5, <1>10
  <1>13. DistinctOK'
    BY <1>6, <1>7 DEF OwnInv, DistinctOK
  <1>14. PlacesOK'
    <2>1. \A k \in Jobs : Live(k)' <=> (Live(k) \/ k = top) /\ k \notin Out
      BY <1>1 DEF Live
    <2>2. ~Slotted(top) /\ top \notin doomed /\ Live(top)
      BY <1>3, <1>5, <1>10 DEF OwnInv, PlacesOK
    <2>3. ~Held(top)'
      BY <1>5, <1>7, <1>10
    <2>4. \A k \in Out : ~Held(k) /\ ~Slotted(k) /\ k \notin doomed
      BY <1>5, <1>10
    <2> SUFFICES ASSUME NEW k \in Jobs
                 PROVE  /\ Queued(k)' => ~Held(k)' /\ ~Slotted(k)' /\ k \notin doomed'
                        /\ Held(k)' => ~Slotted(k)' /\ k \notin doomed'
                        /\ Slotted(k)' => k \notin doomed'
                        /\ Live(k)' <=> Queued(k)' \/ Held(k)' \/ Slotted(k)' \/ k \in doomed'
      BY DEF PlacesOK
    <2>5. /\ Queued(k) => ~Held(k) /\ ~Slotted(k) /\ k \notin doomed
          /\ Held(k) => ~Slotted(k) /\ k \notin doomed
          /\ Slotted(k) => k \notin doomed
          /\ Live(k) <=> Queued(k) \/ Held(k) \/ Slotted(k) \/ k \in doomed
      BY DEF OwnInv, PlacesOK
    <2> QED
      BY <1>6, <1>7, <1>8, <1>10, <2>1, <2>2, <2>3, <2>4, <2>5
  <1>15. EmptyHanded' /\ DoomedOK'
    BY <1>7, <1>9 DEF OwnInv, EmptyHanded, DoomedOK
  <1>16. progress' \subseteq {k \in Jobs : Live(k)'}
    BY <1>1 DEF OwnInv, Live
  <1>17. HandsOK'
    <2>1. \A u \in Threads : pc[u] = "test" => cur[u] \in Jobs
      BY DEF IInv, CurOK, Busy, Holding
    <2>2. \A u \in Threads \ {c} : cur[u] \in refused => cur[u] \in refused'
      BY <1>1, <1>11
    <2>3. dup => j \in refused'
      BY <1>1, <1>10 DEF j
    <2>4. \A u \in Threads \ {c} : pc[u] = "test" => state'[cur[u]] = state[cur[u]]
      BY <1>1, <1>11, <2>1
    <2> QED
      BY <1>7, <1>9, <2>2, <2>3, <2>4 DEF FateInv, HandsOK
  <1>18. WaitingOK'
    <2> SUFFICES ASSUME NEW k \in Jobs, Queued(k)' \/ Slotted(k)'
                 PROVE  state'[k] = "QUEUED" \/ k \in refused'
      BY DEF WaitingOK
    <2>1. CASE k = top
      BY <1>1, <2>1
    <2>2. CASE k # top
      <3>1. k \notin Out /\ (Queued(k) \/ Slotted(k))
        BY <1>5, <1>6, <1>8, <1>10, <2>2
      <3>2. state[k] = "QUEUED" \/ k \in refused
        BY <3>1 DEF FateInv, WaitingOK
      <3> QED
        BY <1>1, <2>2, <3>1, <3>2
    <2> QED
      BY <2>1, <2>2
  <1>19. ExecutedOK'
    <2>1. executed \subseteq Jobs
      BY DEF IInv, TypeOK
    <2> SUFFICES ASSUME NEW k \in executed
                 PROVE  /\ ~Queued(k)' /\ ~Slotted(k)' /\ state'[k] # "UNBORN"
                        /\ \A u \in Threads : cur'[u] = k => pc'[u] \in Executing
      BY DEF ExecutedOK
    <2>2. /\ ~Queued(k) /\ ~Slotted(k) /\ state[k] # "UNBORN"
          /\ \A u \in Threads : cur[u] = k => pc[u] \in Executing
      BY DEF FateInv, ExecutedOK
    <2>3. k # top /\ k # j /\ k # NULL /\ k \in Jobs
      BY <1>3, <1>12, <2>1
    <2> QED
      BY <1>1, <1>6, <1>7, <1>8, <1>9, <2>2, <2>3
  <1>20. NoSilentLoss'
    <2> SUFFICES ASSUME NEW k \in Jobs, state'[k] = "DISPOSED"
                 PROVE  k \in executed \cup refused' \cup drained
      BY DEF NoSilentLoss
    <2>1. k # top /\ (k \in Out \/ state[k] = "DISPOSED")
      BY <1>1
    <2> QED
      BY <1>1, <2>1 DEF FateInv, NoSilentLoss
  <1> QED
    BY <1>13, <1>14, <1>15, <1>16, <1>17, <1>18, <1>19, <1>20 DEF OwnInv, FateInv

\* The critical section of dt_control_add_job, one case per outcome.
LEMMA AddLockedOwn ==
    ASSUME IInv, OwnInv, FateInv, NEW c \in Clients, AddLocked(c)
    PROVE  OwnInv' /\ FateInv'
  <1>1. pc[c] = "add" /\ UNCHANGED <<job_res, doomed, drained, main, executed>>
    BY DEF AddLocked, resVars, stopVars
  <1>2. CASE request[c] = DT_JOB_QUEUE_SYSTEM_FG /\ AlreadyScheduled(cur[c])
    <2>1. /\ pc' = [pc EXCEPT ![c] = "discard"] /\ refused' = refused \cup {cur[c]}
          /\ UNCHANGED <<state, progress, queues, cur>>
      BY <1>2 DEF AddLocked, Goto
    <2> QED
      BY <1>1, <2>1, AddRefusedOwn
  <1>3. CASE request[c] = DT_JOB_QUEUE_SYSTEM_FG /\ ~AlreadyScheduled(cur[c])
    <2>1. AddToStack(c, cur[c])
      BY <1>3 DEF AddLocked
    <2> QED
      BY <1>1, <1>3, <2>1, AddToStackOwn
  <1>4. CASE request[c] # DT_JOB_QUEUE_SYSTEM_FG
    <2>1. AddToFifo(c, cur[c], request[c])
      BY <1>4 DEF AddLocked
    <2> QED
      BY <1>1, <2>1, AddToFifoOwn
  <1> QED
    BY <1>2, <1>3, <1>4

\* Nothing exists, so nothing is in a place.
LEMMA InitOwn == Init => OwnInv /\ FateInv
  <1> SUFFICES ASSUME Init PROVE OwnInv /\ FateInv
    OBVIOUS
  <1> USE JobsAssumption
  <1>1. \A j \in Jobs : ~Queued(j) /\ ~Held(j) /\ ~Slotted(j) /\ ~Live(j)
    BY DEF Init, Queued, Held, Slotted, Live, ToSet
  <1>2. \A q \in Queues : IsInjective(queues[q])
    BY DEF Init, IsInjective
  <1>3. OwnInv
    BY <1>1, <1>2 DEF Init, OwnInv, DistinctOK, PlacesOK, EmptyHanded, DoomedOK
  <1>4. HandsOK
    BY DEF Init, HandsOK, Threads
  <1>5. WaitingOK /\ ExecutedOK /\ NoSilentLoss
    BY <1>1 DEF Init, WaitingOK, ExecutedOK, NoSilentLoss
  <1> QED
    BY <1>3, <1>4, <1>5 DEF FateInv

\* Ownership and fate are preserved by every step, one case per action.
LEMMA NextOwn == IInv /\ OwnInv /\ FateInv /\ [Next]_vars => OwnInv' /\ FateInv'
  <1> SUFFICES ASSUME IInv, OwnInv, FateInv, [Next]_vars PROVE OwnInv' /\ FateInv'
    OBVIOUS
  <1>1. CASE \E c \in Clients : Submit(c) \/ ClientStep(c)
    <2>1. PICK c \in Clients : Submit(c) \/ ClientStep(c)
      BY <1>1
    <2>2. c \in Threads
      BY DEF Threads
    <2> QED
      BY <2>1, <2>2, AddJobOwn, AddJobResOwn, SyncStartOwn, SyncFinishOwn, AddLockedOwn,
         NotifyOwn, DiscardOwn, DisposeOwn
      DEF Submit, ClientStep
  <1>2. CASE \E t \in WorkerThreads : WorkerStep(t)
    <2>1. PICK t \in WorkerThreads : WorkerStep(t)
      BY <1>2
    <2>2. t \in Threads
      BY DEF Threads, WorkerThreads
    <2>3. CASE CheckRunning(t) \/ Sleep(t) \/ TestQueued(t) \/ Start(t) \/ Finish(t) \/ Dispose(t)
      BY <2>2, <2>3, CheckRunningOwn, SleepOwn, TestQueuedOwn, StartOwn, FinishOwn, DisposeOwn
    <2>4. CASE t \in Workers /\ (Schedule(t) \/ NothingToSchedule(t) \/ Clear(t))
      BY <2>4, ScheduleOwn, NothingToScheduleOwn, ClearOwn
    <2>5. CASE t \in Reserved /\ TakeReserved(t)
      BY <2>5, TakeReservedOwn
    <2> QED
      BY <2>1, <2>3, <2>4, <2>5 DEF WorkerStep
  <1>3. CASE KickerStep
    BY <1>3, KickerOwn
  <1>4. CASE Cancel
    BY <1>4, CancelOwn DEF Cancel
  <1>5. CASE EnterDarkroom
    BY <1>5, EnterDarkroomOwn
  <1>6. CASE Quit \/ ShutdownStop \/ Shutdown
    BY <1>6, StopOwn, DrainOwn, DrainDisposeOwn DEF Shutdown
  <1>7. CASE UNCHANGED vars
    <2>1. UNCHANGED <<state, progress, queues, job_res, pc, cur, main, doomed, drained,
                      executed, refused>>
      BY <1>7 DEF vars, jobVars, queueVars, resVars, threadVars, stopVars, history
    <2>2. \A k : (Live(k)' <=> Live(k)) /\ (Queued(k)' <=> Queued(k)) /\ (Slotted(k)' <=> Slotted(k))
      BY <2>1 DEF Live, Queued, Slotted
    <2>3. EmptyHanded' /\ DoomedOK'
      BY <2>1 DEF OwnInv, EmptyHanded, DoomedOK
    <2>4. OwnInv'
      BY <2>1, <2>2, <2>3, PlacesKept
    <2>5. HandsOK' /\ WaitingOK' /\ NoSilentLoss'
      BY <2>1, <2>2 DEF FateInv, HandsOK, WaitingOK, NoSilentLoss
    <2>6. ExecutedOK'
      BY <2>1, ExecutedKept
    <2> QED
      BY <2>4, <2>5, <2>6 DEF FateInv
  <1> QED
    BY <1>1, <1>2, <1>3, <1>4, <1>5, <1>6, <1>7 DEF Next

\* Every job is in one place while it lives, and none is disposed of silently.
THEOREM Ownership == Spec => [](IInv /\ OwnInv /\ FateInv)
  <1>1. Init => IInv /\ OwnInv /\ FateInv
    BY InitIInv, InitOwn
  <1>2. IInv /\ OwnInv /\ FateInv /\ [Next]_vars => (IInv /\ OwnInv /\ FateInv)'
    BY NextIInv, NextOwn
  <1> QED
    BY <1>1, <1>2, PTL DEF Spec

\* Counting the places: each kind holds a job at most once, and only one kind holds it.
LEMMA OwnersCounted ==
    ASSUME IInv, OwnInv, NEW j \in Jobs
    PROVE  Owners(j) = IF Live(j) THEN 1 ELSE 0
  <1> USE JobsAssumption
  <1> DEFINE P == UNION {{<<q, i>> : i \in {i \in DOMAIN queues[q] : queues[q][i] = j}} : q \in Queues}
             H == {t \in Threads : cur[t] = j}
             R == {r \in Reserved : job_res[r] = j}
  <1>1. Cardinality(P) = IF Queued(j) THEN 1 ELSE 0
    <2>1. CASE Queued(j)
      <3>0. PICK q \in Queues : j \in ToSet(queues[q])
        BY <2>1 DEF Queued
      <3>1. PICK i \in DOMAIN queues[q] : queues[q][i] = j
        BY <3>0 DEF ToSet
      <3>2. ASSUME NEW r \in Queues, NEW k \in DOMAIN queues[r], queues[r][k] = j
            PROVE  r = q /\ k = i
        <4>1. queue[j] = q /\ queue[j] = r
          BY <3>1, <3>2 DEF IInv, QueuesOK
        <4> QED
          BY <3>1, <3>2, <4>1 DEF OwnInv, DistinctOK, IsInjective
      <3>3. P = {<<q, i>>}
        BY <3>1, <3>2
      <3> QED
        BY <2>1, <3>3, FS_Singleton
    <2>2. CASE ~Queued(j)
      <3>1. P = {}
        BY <2>2 DEF Queued, ToSet
      <3> QED
        BY <2>2, <3>1, FS_EmptySet
    <2> QED
      BY <2>1, <2>2
  <1>2. Cardinality(H) = IF Held(j) THEN 1 ELSE 0
    <2>1. CASE Held(j)
      <3>1. PICK t \in Threads : cur[t] = j
        BY <2>1 DEF Held
      <3>2. H = {t}
        BY <3>1 DEF OwnInv, DistinctOK
      <3> QED
        BY <2>1, <3>2, FS_Singleton
    <2>2. CASE ~Held(j)
      <3>1. H = {}
        BY <2>2 DEF Held
      <3> QED
        BY <2>2, <3>1, FS_EmptySet
    <2> QED
      BY <2>1, <2>2
  <1>3. Cardinality(R) = IF Slotted(j) THEN 1 ELSE 0
    <2>1. CASE Slotted(j)
      <3>1. PICK r \in Reserved : job_res[r] = j
        BY <2>1 DEF Slotted
      <3>2. R = {r}
        BY <3>1 DEF OwnInv, DistinctOK
      <3> QED
        BY <2>1, <3>2, FS_Singleton
    <2>2. CASE ~Slotted(j)
      <3>1. R = {}
        BY <2>2 DEF Slotted
      <3> QED
        BY <2>2, <3>1, FS_EmptySet
    <2> QED
      BY <2>1, <2>2
  <1>4. Owners(j) = Cardinality(P) + Cardinality(H) + Cardinality(R) + (IF j \in doomed THEN 1 ELSE 0)
    BY DEF Owners
  <1> HIDE DEF P, H, R
  <1>5. /\ Queued(j) => ~Held(j) /\ ~Slotted(j) /\ j \notin doomed
        /\ Held(j) => ~Slotted(j) /\ j \notin doomed
        /\ Slotted(j) => j \notin doomed
        /\ Live(j) <=> Queued(j) \/ Held(j) \/ Slotted(j) \/ j \in doomed
    BY DEF OwnInv, PlacesOK
  <1>6. CASE Live(j)
    BY <1>1, <1>2, <1>3, <1>4, <1>5, <1>6
  <1>7. CASE ~Live(j)
    BY <1>1, <1>2, <1>3, <1>4, <1>5, <1>7
  <1> QED
    BY <1>6, <1>7

\* jobs.c frees each job once and loses none: a live job has one owner, any other none.
THEOREM EveryJobHasOneOwner == Spec => []OneOwner
  <1>1. IInv /\ OwnInv => OneOwner
    BY OwnersCounted DEF OneOwner, OwnInv
  <1> QED
    BY <1>1, Ownership, PTL

\* What is disposed of was executed, cancelled while it waited, refused, or drained.
THEOREM NoJobLostSilently == Spec => []NoSilentLoss
  <1>1. FateInv => NoSilentLoss
    BY DEF FateInv
  <1> QED
    BY <1>1, Ownership, PTL

----------------------------------------------------------------------------
(***************************************************************************)
(* No copy.  NoDuplicateThumbnail is inductive relative to IInv and OwnInv: *)
(* the jobs it speaks of change only when one is pushed on the stack.      *)
(***************************************************************************)
Thumbs ==
    ToSet(queues[DT_JOB_QUEUE_SYSTEM_FG])
    \cup {i \in {job[w] : w \in Workers} \ {NULL} : queue[i] = DT_JOB_QUEUE_SYSTEM_FG}

\* A step that adds none keeps the invariant.
LEMMA FewerThumbs ==
    ASSUME NoDuplicateThumbnail, Thumbs' \subseteq Thumbs
    PROVE  NoDuplicateThumbnail'
  <1>1. NoDuplicateThumbnail <=> \A j, k \in Thumbs : Key[j] = Key[k] => j = k
    BY DEF NoDuplicateThumbnail, Thumbs
  <1>2. NoDuplicateThumbnail' <=> \A j, k \in Thumbs' : Key[j] = Key[k] => j = k
    BY DEF NoDuplicateThumbnail, Thumbs
  <1> QED
    BY <1>1, <1>2

\* A job is pushed on the stack only if no equal one is on it or scheduled from it.
LEMMA AddLockedThumbs ==
    ASSUME IInv, OwnInv, NoDuplicateThumbnail, NEW c \in Clients, AddLocked(c)
    PROVE  NoDuplicateThumbnail'
  <1> USE JobsAssumption, QueueNumbers
  <1> DEFINE q == DT_JOB_QUEUE_SYSTEM_FG
             old == ToSet(queues[q])
             Scheduled == {i \in {job[w] : w \in Workers} \ {NULL} : queue[i] = q}
  <1>1. pc[c] = "add" /\ UNCHANGED <<queue, job>>
    BY DEF AddLocked
  <1>2. cur[c] \in Jobs /\ queue[cur[c]] = request[c] /\ request[c] \in Queues
    BY <1>1 DEF IInv, AddCallOK
  <1>3. Thumbs = old \cup Scheduled /\ Thumbs' = ToSet(queues'[q]) \cup Scheduled
    BY <1>1 DEF Thumbs
  <1> HIDE DEF Scheduled
  <1>4. CASE request[c] = q /\ AlreadyScheduled(cur[c])
    <2>1. queues' = queues
      BY <1>4 DEF AddLocked
    <2> QED
      BY <1>3, <2>1, FewerThumbs
  <1>5. CASE request[c] # q
    <2>1. queues'[q] = queues[q]
      BY <1>2, <1>5 DEF AddLocked, AddToFifo, IInv, TypeOK
    <2> QED
      BY <1>3, <2>1, FewerThumbs
  <1>6. CASE request[c] = q /\ ~AlreadyScheduled(cur[c])
    <2>1. AddToStack(c, cur[c])
      BY <1>6 DEF AddLocked
    <2>2. PICK dup \in BOOLEAN, top \in Jobs, Out \in SUBSET Jobs, s \in Seq(Jobs) :
            /\ dup => top \in old
            /\ ~dup => top = cur[c] /\ \A k \in old : Key[k] # Key[top]
            /\ Out \subseteq old \ {top}
            /\ queues' = [queues EXCEPT ![q] = s]
            /\ IsInjective(s) /\ ToSet(s) = (old \cup {top}) \ Out
            /\ \A i \in Jobs : state'[i] = IF i = top THEN "QUEUED"
                                          ELSE IF i \in Out THEN "DISPOSED" ELSE state[i]
            /\ progress' = progress \ Out
            /\ refused' = (refused \cup Out \cup (IF dup THEN {cur[c]} ELSE {})) \ {top}
            /\ cur' = [cur EXCEPT ![c] = IF dup THEN cur[c] ELSE NULL]
            /\ pc' = [pc EXCEPT ![c] = "notify"]
      BY <1>1, <1>6, <2>1, StackMoves, Zenon
    <2>3. ToSet(queues'[q]) \subseteq old \cup {top}
      BY <2>2 DEF IInv, TypeOK
    <2> HIDE DEF old
    <2>4. CASE dup
      <3>1. Thumbs' \subseteq Thumbs
        BY <1>3, <2>2, <2>3, <2>4
      <3> QED
        BY <3>1, FewerThumbs
    <2>5. CASE ~dup
      <3>1. \A k \in Scheduled : Key[k] # Key[top]
        <4>1. \A w \in Workers : ~dt_control_job_equal(cur[c], job[w])
          BY <1>6 DEF AlreadyScheduled
        <4>2. \A w \in Workers : job[w] # NULL /\ queue[job[w]] = q => Key[job[w]] # Key[cur[c]]
          BY <1>2, <1>6, <4>1 DEF dt_control_job_equal
        <4> QED
          BY <2>2, <2>5, <4>2 DEF Scheduled
      <3>2. Thumbs' \subseteq Thumbs \cup {top} /\ \A k \in Thumbs : Key[k] # Key[top]
        BY <1>3, <2>2, <2>3, <2>5, <3>1
      <3>3. \A j, k \in Thumbs : Key[j] = Key[k] => j = k
        BY DEF NoDuplicateThumbnail, Thumbs
      <3>4. \A j, k \in Thumbs' : Key[j] = Key[k] => j = k
        BY <3>2, <3>3
      <3> QED
        BY <3>4 DEF NoDuplicateThumbnail, Thumbs
    <2> QED
      BY <2>4, <2>5
  <1> QED
    BY <1>4, <1>5, <1>6

\* Every other step leaves the stack and the schedule alone, moves a job from one to the
\* other, or takes jobs away.
LEMMA NextThumbs == IInv /\ OwnInv /\ NoDuplicateThumbnail /\ [Next]_vars => NoDuplicateThumbnail'
  <1> SUFFICES ASSUME IInv, OwnInv, NoDuplicateThumbnail, [Next]_vars
               PROVE  NoDuplicateThumbnail'
    OBVIOUS
  <1> USE JobsAssumption, QueueNumbers
  <1>1. CASE UNCHANGED <<queues, job, queue>>
    BY <1>1 DEF NoDuplicateThumbnail
  <1>2. CASE \E c \in Clients : AddJob(c)
    <2>1. PICK c \in Clients : AddJob(c)
      BY <1>2
    <2>2. UNCHANGED <<queues, job>>
      BY <2>1 DEF AddJob, queueVars
    <2>3. \A i \in Jobs : state[i] # "UNBORN" => queue'[i] = queue[i]
      BY <2>1 DEF AddJob, IInv, TypeOK
    <2>4. \A w \in Workers : job[w] # NULL => job[w] \in Jobs /\ queue'[job[w]] = queue[job[w]]
      BY <2>3 DEF IInv, TypeOK, HeldOK
    <2>5. Thumbs' \subseteq Thumbs
      BY <2>2, <2>4 DEF Thumbs
    <2> QED
      BY <2>5, FewerThumbs
  <1>3. CASE \E c \in Clients : AddLocked(c)
    BY <1>3, AddLockedThumbs
  <1>4. CASE \E w \in Workers : Clear(w)
    <2>1. PICK w \in Workers : Clear(w)
      BY <1>4
    <2>2. UNCHANGED <<queues, queue>> /\ job' = [job EXCEPT ![w] = NULL]
      BY <2>1 DEF Clear, jobVars
    <2>3. \A v \in Workers : job'[v] = NULL \/ job'[v] = job[v]
      BY <2>2 DEF IInv, TypeOK
    <2>4. Thumbs' \subseteq Thumbs
      BY <2>2, <2>3 DEF Thumbs
    <2> QED
      BY <2>4, FewerThumbs
  <1>5. CASE \E w \in Workers : Schedule(w)
    <2>1. PICK w \in Workers : Schedule(w)
      BY <1>5
    <2>2. PICK q \in Queues : /\ IsWinner(q)
                              /\ queues' = [queues EXCEPT ![q] = Tail(@)]
                              /\ job' = [job EXCEPT ![w] = Head(queues[q])]
      BY <2>1 DEF Schedule
    <2>3. queue' = queue
      BY <2>1 DEF Schedule
    <2>4. queues[q] \in Seq(Jobs) /\ queues[q] # <<>> /\ IsInjective(queues[q])
      BY <2>2 DEF IsWinner, Candidates, IInv, TypeOK, OwnInv, DistinctOK
    <2>5. /\ ToSet(Tail(queues[q])) = ToSet(queues[q]) \ {Head(queues[q])}
          /\ Head(queues[q]) \in ToSet(queues[q])
      BY <2>4, TailDistinct
    <2>6. queue[Head(queues[q])] = q
      BY <2>5 DEF IInv, QueuesOK, ToSet
    <2>7. job'[w] = Head(queues[q]) /\ \A v \in Workers \ {w} : job'[v] = job[v]
      BY <2>2 DEF IInv, TypeOK
    <2>8. ToSet(queues'[DT_JOB_QUEUE_SYSTEM_FG]) \subseteq ToSet(queues[DT_JOB_QUEUE_SYSTEM_FG])
      BY <2>2, <2>5 DEF IInv, TypeOK
    <2>9. q = DT_JOB_QUEUE_SYSTEM_FG => Head(queues[q]) \in ToSet(queues[DT_JOB_QUEUE_SYSTEM_FG])
      BY <2>5
    <2>10. Thumbs' \subseteq Thumbs
      <3> SUFFICES ASSUME NEW k \in Thumbs' PROVE k \in Thumbs
        OBVIOUS
      <3>1. CASE k \in ToSet(queues'[DT_JOB_QUEUE_SYSTEM_FG])
        BY <2>8, <3>1 DEF Thumbs
      <3>2. CASE k \notin ToSet(queues'[DT_JOB_QUEUE_SYSTEM_FG])
        <4>1. PICK v \in Workers : k = job'[v] /\ k # NULL /\ queue[k] = DT_JOB_QUEUE_SYSTEM_FG
          BY <2>3, <3>2 DEF Thumbs
        <4>2. CASE v = w
          BY <2>6, <2>7, <2>9, <4>1, <4>2 DEF Thumbs
        <4>3. CASE v # w
          BY <2>7, <4>1, <4>3 DEF Thumbs
        <4> QED
          BY <4>2, <4>3
      <3> QED
        BY <3>1, <3>2
    <2> QED
      BY <2>10, FewerThumbs
  <1>6. CASE Drain
    <2>1. queues'[DT_JOB_QUEUE_SYSTEM_FG] = <<>> /\ UNCHANGED <<job, queue>>
      BY <1>6 DEF Drain, jobVars
    <2>2. Thumbs' \subseteq Thumbs
      BY <2>1 DEF Thumbs, ToSet
    <2> QED
      BY <2>2, FewerThumbs
  <1>7. \A c \in Clients : Submit(c) \/ ClientStep(c) =>
            AddJob(c) \/ AddLocked(c) \/ UNCHANGED <<queues, job, queue>>
    BY DEF Submit, ClientStep, AddJobRes, SyncStart, SyncFinish, Notify, Discard, Dispose, jobVars, queueVars, resVars, threadVars, stopVars, history
  <1>8. \A t \in WorkerThreads : WorkerStep(t) =>
            \/ t \in Workers /\ (Schedule(t) \/ Clear(t))
            \/ UNCHANGED <<queues, job, queue>>
    BY DEF WorkerStep, CheckRunning, Sleep, TestQueued, Start, Finish, Dispose,
           NothingToSchedule, TakeReserved, jobVars, queueVars, resVars, threadVars, stopVars, history
  <1>9. KickerStep \/ Cancel \/ EnterDarkroom \/ Quit \/ ShutdownStop \/ Shutdown =>
            Drain \/ UNCHANGED <<queues, job, queue>>
    BY DEF KickerStep, KickerCheck, Kick, Cancel, CancelJob, EnterDarkroom, Flush, Quit, ShutdownStop, Shutdown,
           ShutdownBroadcast, JoinKicker, JoinWorkers, DrainDispose, jobVars, queueVars, resVars, threadVars, stopVars, history
  <1>10. CASE UNCHANGED vars
    BY <1>1, <1>10 DEF vars, jobVars, queueVars, resVars, threadVars, stopVars, history
  <1> QED
    BY <1>1, <1>2, <1>3, <1>4, <1>5, <1>6, <1>7, <1>8, <1>9, <1>10 DEF Next

\* dt_control_add_job keeps its promise that "there can't be any further copy", for any
\* number of jobs on the stack and of workers.
THEOREM NoCopyOfAThumbnail == Spec => []NoDuplicateThumbnail
  <1>1. Init => NoDuplicateThumbnail
    BY QueueNumbers DEF Init, NoDuplicateThumbnail, ToSet
  <1>2. /\ NoDuplicateThumbnail /\ IInv /\ OwnInv /\ FateInv /\ [Next]_vars
        => NoDuplicateThumbnail'
    BY NextThumbs
  <1> QED
    BY <1>1, <1>2, Ownership, PTL DEF Spec

----------------------------------------------------------------------------
\* Only the two places that call the execute callback make a job RUNNING.
LEMMA OnlyStartRuns ==
    ASSUME IInv, [Next]_vars, NEW j \in Jobs, state[j] # "RUNNING", state'[j] = "RUNNING"
    PROVE  \/ \E c \in Clients : SyncStart(c) /\ j = cur[c]
           \/ \E t \in WorkerThreads : Start(t) /\ j = cur[t]
  <1> USE DEF set_state, IInv, TypeOK, jobVars, queueVars, resVars, threadVars, stopVars, history
  <1>1. ASSUME NEW c \in Clients, Submit(c) \/ ClientStep(c)
        PROVE  SyncStart(c) /\ j = cur[c]
    <2>1. CASE SyncStart(c)
      BY <2>1 DEF SyncStart
    <2>2. CASE AddJob(c) \/ SyncFinish(c) \/ Notify(c) \/ Discard(c)
      BY <2>2 DEF AddJob, SyncFinish, Notify, Discard
    <2>3. CASE AddJobRes(c)
      BY <2>3 DEF AddJobRes
    <2>4. CASE Dispose(c)
      BY <2>4 DEF Dispose, dispose
    <2>5. CASE AddLocked(c)
      <3>1. CASE AddToStack(c, cur[c])
        BY <3>1 DEF AddToStack
      <3>2. CASE ~AddToStack(c, cur[c])
        BY <2>5, <3>2 DEF AddLocked, AddToFifo
      <3> QED
        BY <3>1, <3>2
    <2> QED
      BY <1>1, <2>1, <2>2, <2>3, <2>4, <2>5 DEF Submit, ClientStep
  <1>2. ASSUME NEW t \in WorkerThreads, WorkerStep(t)
        PROVE  Start(t) /\ j = cur[t]
    <2>1. CASE Start(t)
      BY <2>1 DEF Start
    <2>2. CASE Finish(t)
      BY <2>2 DEF Finish
    <2>3. CASE Dispose(t)
      BY <2>3 DEF Dispose, dispose
    <2> QED
      BY <1>2, <2>1, <2>2, <2>3
      DEF WorkerStep, CheckRunning, Sleep, TestQueued, Schedule, NothingToSchedule, Clear,
          TakeReserved
  <1>3. ~Cancel
    BY DEF Cancel, CancelJob
  <1>4. ~EnterDarkroom
    <2>1. EnterDarkroom => \E S : \A k \in Jobs :
                             state'[k] = IF k \in S THEN "CANCELLED" ELSE state[k]
      BY DEF EnterDarkroom, Flush
    <2> QED
      BY <2>1
  <1>5. ~DrainDispose
    BY DEF DrainDispose, dispose
  <1>6. ~KickerStep /\ ~Quit /\ ~ShutdownStop /\ ~Shutdown
    BY <1>5 DEF KickerStep, KickerCheck, Kick, Quit, ShutdownStop, Shutdown, ShutdownBroadcast,
                JoinKicker, JoinWorkers, Drain
  <1>7. ~(UNCHANGED vars)
    BY DEF vars
  <1> QED
    BY <1>1, <1>2, <1>3, <1>4, <1>6, <1>7 DEF Next

\* The execute callback of a job is called at most once, whoever cancels, flushes or
\* resubmits an equal job in between.
THEOREM NoJobRunsTwice == Spec => ExecuteOnce
  <1> DEFINE Once == \A j \in Jobs :
               state[j] # "RUNNING" /\ state'[j] = "RUNNING" => j \notin executed
  <1>1. IInv /\ FateInv /\ [Next]_vars => [Once]_vars
    <2> SUFFICES ASSUME IInv, FateInv, [Next]_vars,
                        NEW j \in Jobs, state[j] # "RUNNING", state'[j] = "RUNNING"
                 PROVE  j \notin executed
      OBVIOUS
    <2>1. \E t \in Threads : pc[t] \in {"start", "syncstart"} /\ j = cur[t]
      BY OnlyStartRuns DEF SyncStart, Start, Threads, WorkerThreads
    <2> QED
      BY <2>1 DEF FateInv, ExecutedOK, Executing
  <1>2. Spec => [][Once]_vars
    BY <1>1, Ownership, PTL DEF Spec
  <1> QED
    BY <1>2 DEF ExecuteOnce
-----------------------------------------------------------------------------
(***************************************************************************)
(* For any number of engines, jobs, workers, viewports, moves and          *)
(* failures: the references of DevSnapshot are counted, so that the engine *)
(* of a snapshot is freed last and freed at the end; no two threads render *)
(* with one pipe; what the engine remembers as its job can be cancelled,   *)
(* unless entering the darkroom or the shutdown has taken it away; and     *)
(* nobody begins to render for a snapshot that has been cleared.           *)
(*                                                                         *)
(* Every step is a step of the job system, or cancels one job, or leaves   *)
(* the job system alone; so the ownership of jobs shown above carries      *)
(* over, and with it that a job is in the hands of one thread. The rest of *)
(* the invariant relates the engine's field job to the job that a thread   *)
(* is executing, and to where the GUI thread is in its clear.              *)
(***************************************************************************)
\* Where a thread of each kind can be.  The queue of the recompute jobs is a FIFO,
\* so that none is ever dropped, and nobody uses the reserved slot.
ThreadsOK ==
    /\ pc[GUI] \in {"idle", "add", "syncstart", "syncexec", "notify", "dispose"}
    /\ request[GUI] = DT_JOB_QUEUE_USER_FG
    /\ pc[GUI] = "notify" => cur[GUI] = NULL
    /\ \A w \in Workers : pc[w] \in {"check", "pick", "sleep", "wait", "test", "start",
                                     "exec", "clear", "dispose", "exit"}
    /\ \A r \in Reserved : pc[r] = "check" /\ job_res[r] = NULL

\* What the GUI thread has left behind once a shutdown has begun.
ShutdownOK ==
    /\ ~Up => pc[GUI] = "idle" /\ ~gui.capture
    /\ ~Up => gui.pc \in {"idle", "readjob", "cancel", "unref"}
    /\ ~Up /\ main # "cleanup" => gui.pc = "idle"
    /\ main \in {"disposeAgain", "done"} => snap = NULL /\ \A q \in Queues : queues[q] = <<>>

\* A job that waits was queued and perhaps cancelled since.
QueuedOK ==
    /\ \A j \in Jobs : Queued(j) => state[j] \in {"QUEUED", "CANCELLED"}
    /\ \A t \in Threads : pc[t] = "test" => state[cur[t]] \in {"QUEUED", "CANCELLED"}

\* Exactly the jobs that have not been disposed of refer to an engine.
ParamsOK ==
    /\ \A j \in Jobs : params[j] # NULL <=> Live(j)
    /\ IsFiniteSet({j \in Jobs : params[j] # NULL})

Users(e) == {j \in Jobs : params[j] = e}
Owned(e) == IF e \in {snap, gui.engine} THEN 1 ELSE 0
RefsOK == \A e \in Engines : engine[e].refs = Cardinality(Users(e)) + Owned(e)

\* What the GUI thread knows of the snapshot, at each point of its calls.
GuiOK ==
    /\ gui.pc \in {"clear", "schedule", "create"} => snap # NULL
    /\ gui.pc \in {"readjob", "cancel", "unref"} => gui.engine # NULL
    /\ gui.pc \in {"clear", "capture"} => gui.capture
    /\ gui.capture => gui.pc \in {"clear", "capture", "readjob", "cancel", "unref"}
    /\ gui.pc = "capture" => snap = NULL
    /\ gui.pc = "cancel" => gui.job # NULL
    /\ gui.pc = "create" => engine[snap].job = NULL
    /\ gui.engine # NULL => gui.pc \in {"readjob", "cancel", "unref"} /\ snap = NULL

\* The engine of the snapshot is not being destroyed, that of a clear is, and a capture
\* will find memory for another one.
EnginesOK ==
    /\ snap # NULL => ~engine[snap].destroying
    /\ gui.engine # NULL => engine[gui.engine].destroying
    /\ gui.capture => \E e \in Engines : engine[e] = NoEngine

\* The body of a job runs exactly while the job system says so, ...
BodyOK ==
    \A t \in Threads : body[t].pc # "none" <=> pc[t] \in {"exec", "syncexec"}

\* ... and it is in the engine's field while it uses the pipe.
FieldHeld ==
    \A t \in Threads : BodyAt(t, "process") \/ BodyAt(t, "publish") =>
        engine[Engine(t)].job = cur[t]

\* A remembered job is one of the engine's own, until it is disposed of.
FieldOwn ==
    /\ \A e \in Engines : engine[e].job # NULL =>
          /\ state[engine[e].job] # "UNBORN"
          /\ Live(engine[e].job) => params[engine[e].job] = e
    /\ gui.pc = "cancel" /\ Live(gui.job) => params[gui.job] = gui.engine

\* Two things cancel a job: entering the darkroom, and the clear of its snapshot.
CancelledOK ==
    \A j \in Jobs : state[j] = "CANCELLED" => j \in flushed \/ engine[params[j]].destroying

\* A job that is past its use of the pipe has reset the field, unless it never got there.
Past(t) == pc[t] \in {"clear", "dispose"} \/ body[t].pc \in {"redraw", "done"}
PastOK ==
    \A t \in Threads : Past(t) /\ engine[Engine(t)].job = cur[t] =>
        engine[Engine(t)].destroying \/ cur[t] \in flushed

FieldOK ==
    \A e \in Engines : engine[e].job # NULL /\ ~engine[e].destroying =>
        Live(engine[e].job) \/ engine[e].job \in flushed \cup drained

\* A job that has not looked at the engine again is cancelled before the clear goes on.
CaughtOK ==
    \A t \in Threads :
        BodyAt(t, "lock") /\ engine[Engine(t)].destroying /\ engine[Engine(t)].job = cur[t] =>
            \/ state[cur[t]] = "CANCELLED"
            \/ /\ gui.engine = Engine(t)
               /\ gui.pc = "readjob" \/ (gui.pc = "cancel" /\ gui.job = cur[t])

SInv ==
    /\ SnapTypeOK /\ fault # "engine"
    /\ ThreadsOK /\ ShutdownOK /\ QueuedOK
    /\ ParamsOK /\ RefsOK /\ GuiOK /\ EnginesOK
    /\ BodyOK /\ FieldHeld /\ FieldOwn
    /\ CancelledOK /\ PastOK /\ FieldOK /\ CaughtOK

JInv == IInv /\ OwnInv /\ FateInv

----------------------------------------------------------------------------
(* Engines and jobs *)

\* The job in the hands of a thread is live and has an engine.
LEMMA HeldHasEngine ==
    ASSUME JInv, SInv, NEW t \in Threads, cur[t] # NULL
    PROVE  cur[t] \in Jobs /\ Live(cur[t]) /\ Engine(t) \in Engines
  <1>1. cur[t] \in Jobs
    BY DEF JInv, IInv, TypeOK
  <1>2. Live(cur[t])
    BY <1>1 DEF JInv, OwnInv, PlacesOK, Held
  <1>3. params[cur[t]] # NULL /\ params \in [Jobs -> Engines \cup {NULL}]
    BY <1>1, <1>2 DEF SInv, ParamsOK, SnapTypeOK
  <1> QED
    BY <1>1, <1>2, <1>3 DEF Engine

\* The users of an engine are a finite set.
LEMMA UsersFinite ==
    ASSUME OneClient, SInv, NEW e \in Engines
    PROVE  /\ IsFiniteSet(Users(e)) /\ Cardinality(Users(e)) \in Nat
           /\ (Cardinality(Users(e)) = 0 <=> Users(e) = {})
  <1>1. Users(e) \subseteq {j \in Jobs : params[j] # NULL}
    BY SnapshotAssumption DEF Users, OneClient
  <1>2. IsFiniteSet(Users(e))
    BY <1>1, FS_Subset DEF SInv, ParamsOK
  <1> QED
    BY <1>2, FS_CardinalityType, FS_EmptySet

\* An engine with a user, or one that the GUI thread owns, is allocated.
LEMMA UsedIsAllocated ==
    ASSUME OneClient, SInv, NEW e \in Engines, Users(e) # {} \/ Owned(e) = 1
    PROVE  Allocated(e) /\ engine[e] # NoEngine
  <1>1. Cardinality(Users(e)) \in Nat /\ (Cardinality(Users(e)) = 0 <=> Users(e) = {})
    BY UsersFinite
  <1>2. Owned(e) \in {0, 1}
    BY DEF Owned
  <1>3. engine[e].refs = Cardinality(Users(e)) + Owned(e)
    BY DEF SInv, RefsOK
  <1>4. engine[e].refs > 0
    <2> HIDE DEF Owned, Users
    <2> QED
      BY <1>1, <1>2, <1>3
  <1>5. NoEngine.refs = 0
    BY DEF NoEngine
  <1> QED
    BY <1>4, <1>5 DEF Allocated

\* So is the engine of the job in the hands of a thread, ...
LEMMA HeldIsAllocated ==
    ASSUME OneClient, JInv, SInv, NEW t \in Threads, cur[t] # NULL
    PROVE  Allocated(Engine(t)) /\ engine[Engine(t)] # NoEngine
  <1>1. cur[t] \in Jobs /\ Engine(t) \in Engines
    BY HeldHasEngine
  <1>2. cur[t] \in Users(Engine(t))
    BY <1>1 DEF Users, Engine
  <1> QED
    BY <1>1, <1>2, UsedIsAllocated

\* ... and those of the GUI thread.
LEMMA OwnedIsAllocated ==
    ASSUME OneClient, SInv
    PROVE  /\ snap # NULL => snap \in Engines /\ Allocated(snap) /\ engine[snap] # NoEngine
           /\ gui.engine # NULL => /\ gui.engine \in Engines /\ Allocated(gui.engine)
                                   /\ engine[gui.engine] # NoEngine
  <1>1. snap \in Engines \cup {NULL} /\ gui.engine \in Engines \cup {NULL}
    BY DEF SInv, SnapTypeOK
  <1> QED
    BY <1>1, UsedIsAllocated DEF Owned

\* A thread whose body runs holds a job.
LEMMA BodyHolds ==
    ASSUME OneClient, JInv, SInv, NEW t \in Threads, body[t].pc # "none"
    PROVE  /\ cur[t] \in Jobs /\ cur[t] # NULL /\ Live(cur[t])
           /\ Engine(t) \in Engines /\ Allocated(Engine(t)) /\ engine[Engine(t)] # NoEngine
  <1>1. pc[t] \in Busy
    BY DEF SInv, BodyOK, Busy, Holding
  <1>2. cur[t] # NULL
    BY <1>1, JobsAssumption DEF JInv, IInv, CurOK
  <1> QED
    BY <1>2, HeldHasEngine, HeldIsAllocated

----------------------------------------------------------------------------
(* The job system *)

\* The variables of the job system, one by one.
LEMMA VarsUnchanged ==
    UNCHANGED vars <=>
        UNCHANGED <<state, priority, queue, progress, queues, queue_length, job,
                    export_scheduled, job_res, new_res, pc, cur, request, running, kicker,
                    main, doomed, drained, executed, refused>>
  BY DEF vars, jobVars, queueVars, resVars, threadVars, stopVars, history

\* Every step is one of the job system, a cancel, or none.
LEMMA JobSteps ==
    ASSUME OneClient, JInv, SInv, SnapNext
    PROVE  Next \/ UNCHANGED vars \/ \E j \in Jobs : CancelJob(j)
  <1> USE SnapshotAssumption DEF OneClient
  <1>1. CASE JobSystemStep
    BY <1>1 DEF JobSystemStep, Next, ClientStep, WorkerStep, WorkerThreads, Shutdown
  <1>2. ASSUME NEW t \in Threads, BodyStep(t) \/ DisposeJob(t)
        PROVE  Next \/ UNCHANGED vars
    <2>1. CASE t = GUI
      <3>1. ~Start(t) /\ ~Finish(t)
        BY <2>1 DEF SInv, ThreadsOK, Start, Finish
      <3>2. SyncStart(t) \/ SyncFinish(t) \/ Dispose(t) \/ UNCHANGED vars
        BY <1>2, <3>1 DEF BodyStep, BodyCall, BodyEnter, BodyLock, BodyProcess, BodyPublish,
                          BodyRedraw, BodyReturn, DisposeJob
      <3> QED
        BY <2>1, <3>2 DEF Next, ClientStep
    <2>2. CASE t # GUI
      <3>1. t \in WorkerThreads
        BY <2>2 DEF Threads, WorkerThreads
      <3>2. ~SyncStart(t) /\ ~SyncFinish(t)
        BY <2>2 DEF SInv, ThreadsOK, SyncStart, SyncFinish, Threads
      <3>3. Start(t) \/ Finish(t) \/ Dispose(t) \/ UNCHANGED vars
        BY <1>2, <3>2 DEF BodyStep, BodyCall, BodyEnter, BodyLock, BodyProcess, BodyPublish,
                          BodyRedraw, BodyReturn, DisposeJob
      <3> QED
        BY <3>1, <3>3 DEF Next, WorkerStep
    <2> QED
      BY <2>1, <2>2
  <1>3. CASE DrainJobs
    BY <1>3 DEF DrainJobs, Next, Shutdown
  <1>4. CASE GuiStep
    <2>1. CASE ScheduleJob
      BY <2>1 DEF ScheduleJob, Next, Submit
    <2>2. CASE ClearCancel
      <3>1. gui.job \in Jobs
        BY <2>2 DEF ClearCancel, GuiAt, SInv, GuiOK, SnapTypeOK
      <3> QED
        BY <2>2, <3>1 DEF ClearCancel
    <2> QED
      BY <1>4, <2>1, <2>2 DEF GuiStep, CaptureRender, CaptureClear, ClearBegin, ClearRead,
                              ClearUnref, Draw, ScheduleCheck
  <1>5. CASE User
    BY <1>5 DEF User, Move, Capture, Flushing, SnapClear, ClearBegin, Next
  <1> QED
    BY <1>1, <1>2, <1>3, <1>4, <1>5 DEF SnapNext

\* So what holds of the job system holds under the snapshots.
LEMMA JobsKept ==
    ASSUME OneClient, JInv, SInv, [SnapNext]_allVars
    PROVE  JInv'
  <1>1. CASE [Next]_vars
    BY <1>1, NextIInv, NextOwn DEF JInv
  <1>2. CASE \E j \in Jobs : CancelJob(j)
    BY <1>2, CancelStep, CancelOwn DEF JInv
  <1>3. UNCHANGED allVars => UNCHANGED vars
    BY DEF allVars
  <1> QED
    BY <1>1, <1>2, <1>3, JobSteps

\* What a step of the job system alone must show of jobs and threads.
Quiet ==
    /\ \A j \in Jobs : /\ Live(j)' <=> Live(j)
                       /\ state[j] # "UNBORN" => state'[j] # "UNBORN"
                       /\ state'[j] = "CANCELLED" => state[j] = "CANCELLED"
    /\ \A t \in Threads :
          /\ pc'[t] \in {"exec", "syncexec"} <=> pc[t] \in {"exec", "syncexec"}
          /\ pc[t] \in {"exec", "syncexec"} => cur'[t] = cur[t] /\ state'[cur[t]] = state[cur[t]]
          /\ pc'[t] \in {"clear", "dispose"} =>
                /\ cur'[t] = cur[t] /\ pc[t] \in Busy
                /\ pc[t] \in {"clear", "dispose"} \/ (pc[t] = "test" /\ state[cur[t]] # "QUEUED")
    /\ drained' = drained

\* It keeps the rest.
LEMMA JobFrame ==
    ASSUME OneClient, JInv, JInv', SInv, UNCHANGED snapVars, Quiet, ThreadsOK', ShutdownOK', QueuedOK'
    PROVE  SInv'
  <1> USE JobsAssumption, SnapshotAssumption DEF OneClient
  <1>1. UNCHANGED <<engine, params, snap, gui, body, view, redraw, moves, failures, flushed, fault>>
    BY DEF snapVars
  <1>2. SnapTypeOK' /\ (fault # "engine")'
    BY <1>1 DEF SInv, SnapTypeOK, JInv, IInv
  <1>3. ParamsOK' /\ RefsOK'
    <2>1. \A j \in Jobs : Live(j)' <=> Live(j)
      BY DEF Quiet
    <2> QED
      BY <1>1, <2>1 DEF SInv, ParamsOK, RefsOK, Users, Owned
  <1>4. GuiOK' /\ EnginesOK'
    BY <1>1 DEF SInv, GuiOK, EnginesOK
  <1>5. BodyOK'
    BY <1>1 DEF SInv, BodyOK, Quiet
  <1>6. FieldHeld'
    BY <1>1 DEF SInv, BodyOK, FieldHeld, Quiet, BodyAt, Engine
  <1>7. FieldOwn'
    <2>1. engine \in [Engines -> [refs : Nat, destroying : BOOLEAN,
                               job : Jobs \cup {NULL}, pending : Views \cup {NULL},
                               last : Views \cup {NULL}, backbuf : Views \cup {NULL}]]
          /\ gui.job \in Jobs \cup {NULL}
      BY DEF SInv, SnapTypeOK
    <2>2. gui.pc = "cancel" => gui.job # NULL
      BY DEF SInv, GuiOK
    <2> QED
      BY <1>1, <2>1, <2>2 DEF SInv, FieldOwn, Quiet
  <1>8. CancelledOK'
    BY <1>1 DEF SInv, CancelledOK, Quiet
  <1>9. PastOK'
    <2> SUFFICES ASSUME NEW t \in Threads, Past(t)', (engine[Engine(t)].job = cur[t])'
                 PROVE  (engine[Engine(t)].destroying \/ cur[t] \in flushed)'
      BY DEF PastOK
    <2>1. cur'[t] = cur[t]
      BY <1>1 DEF Past, Quiet, SInv, BodyOK
    <2>2. Engine(t)' = Engine(t)
      BY <1>1, <2>1 DEF Engine
    <2>3. CASE Past(t)
      BY <1>1, <2>1, <2>2, <2>3 DEF SInv, PastOK
    <2>4. CASE ~Past(t)
      <3>1. pc[t] = "test" /\ state[cur[t]] # "QUEUED" /\ cur[t] \in Jobs
        BY <1>1, <2>4 DEF Past, Quiet, JInv, IInv, CurOK, Busy, Holding
      <3>2. state[cur[t]] = "CANCELLED"
        BY <3>1 DEF SInv, QueuedOK
      <3> QED
        BY <1>1, <2>1, <2>2, <3>1, <3>2 DEF SInv, CancelledOK, Engine
    <2> QED
      BY <2>3, <2>4
  <1>10. FieldOK'
    <2>1. \A e \in Engines : engine[e].job \in Jobs \cup {NULL}
      BY DEF SInv, SnapTypeOK
    <2> QED
      BY <1>1, <2>1 DEF SInv, FieldOK, Quiet
  <1>11. CaughtOK'
    BY <1>1 DEF SInv, BodyOK, CaughtOK, Quiet, BodyAt, Engine
  <1> QED
    BY <1>2, <1>3, <1>4, <1>5, <1>6, <1>7, <1>8, <1>9, <1>10, <1>11 DEF SInv

\* Workers that do not take a job out of a queue.
LEMMA WorkerQuiet ==
    ASSUME OneClient, JInv, JInv', SInv, UNCHANGED snapVars, NEW w \in Workers,
           CheckRunning(w) \/ Sleep(w) \/ TestQueued(w) \/ NothingToSchedule(w) \/ Clear(w)
    PROVE  SInv'
  <1> USE JobsAssumption, SnapshotAssumption DEF OneClient
  <1>1. /\ UNCHANGED <<state, queues, job_res, cur, request, main, drained>>
        /\ \E at : pc' = [pc EXCEPT ![w] = at]
        /\ \A t \in Threads \ {w} : pc'[t] = pc[t]
        /\ w \in Threads /\ w # GUI
        /\ pc'[w] \in {"pick", "exit", "wait", "start", "clear", "sleep", "dispose"}
        /\ pc[w] \in {"check", "sleep", "test", "pick", "clear"}
        /\ pc'[w] \in {"clear", "dispose"} =>
              pc[w] = "clear" \/ (pc[w] = "test" /\ state[cur[w]] # "QUEUED")
    BY DEF CheckRunning, Sleep, TestQueued, NothingToSchedule, Clear, Goto, Threads, jobVars,
           queueVars, resVars, stopVars, history, JInv, IInv, TypeOK
  <1>2. ThreadsOK'
    BY <1>1 DEF SInv, ThreadsOK, Threads
  <1>3. ShutdownOK'
    BY <1>1 DEF SInv, ShutdownOK, Up, snapVars, Threads
  <1>4. QueuedOK'
    BY <1>1 DEF SInv, QueuedOK, Queued
  <1>5. Quiet
    BY <1>1 DEF Quiet, Live, Busy, Holding
  <1> QED
    BY <1>2, <1>3, <1>4, <1>5, JobFrame

\* A broadcast wakes the workers up.
LEMMA BroadcastQuiet ==
    ASSUME OneClient, JInv, JInv', SInv, UNCHANGED snapVars,
           Notify(GUI) \/ KickerStep \/ ShutdownBroadcast
    PROVE  SInv'
  <1> USE JobsAssumption, SnapshotAssumption DEF OneClient
  <1>0. GUI \in Threads /\ DOMAIN pc = Threads
    BY DEF Threads, JInv, IInv, TypeOK
  <1>1. /\ UNCHANGED <<state, queues, job_res, cur, request, drained>>
        /\ main' = main \/ (main = "broadcast" /\ main' = "joinKicker")
        /\ \A t \in Threads \ {GUI} : pc'[t] = pc[t] \/ (pc[t] = "wait" /\ pc'[t] = "check")
        /\ \/ pc'[GUI] = pc[GUI]
           \/ pc[GUI] = "notify" /\ pc'[GUI] = "idle"
    <2>1. pc[GUI] # "wait" /\ (pc[GUI] = "notify" => cur[GUI] = NULL)
      BY DEF SInv, ThreadsOK
    <2>2. CASE Notify(GUI)
      <3>1. /\ UNCHANGED <<state, queues, job_res, cur, request, drained, main>>
            /\ pc[GUI] = "notify" /\ pc' = [Broadcast EXCEPT ![GUI] = "idle"]
        BY <2>1, <2>2 DEF Notify, jobVars, queueVars, resVars, stopVars
      <3> QED
        BY <1>0, <3>1 DEF Broadcast
    <2>3. CASE KickerStep \/ ShutdownBroadcast
      <3>1. /\ UNCHANGED <<state, queues, job_res, cur, request, drained>>
            /\ main' = main \/ (main = "broadcast" /\ main' = "joinKicker")
            /\ pc' = pc \/ pc' = Broadcast
        BY <2>3 DEF KickerStep, KickerCheck, Kick, ShutdownBroadcast, jobVars, queueVars, resVars,
                    threadVars
      <3> QED
        BY <1>0, <2>1, <3>1 DEF Broadcast
    <2> QED
      BY <2>2, <2>3
  <1>2. ThreadsOK'
    BY <1>1 DEF SInv, ThreadsOK, Threads
  <1>3. ShutdownOK'
    BY <1>1 DEF SInv, ThreadsOK, ShutdownOK, Up, snapVars
  <1>4. QueuedOK'
    BY <1>1 DEF SInv, ThreadsOK, QueuedOK, Queued
  <1>5. Quiet
    BY <1>1 DEF Quiet, Live, Busy, Holding, SInv, ThreadsOK
  <1> QED
    BY <1>2, <1>3, <1>4, <1>5, JobFrame

\* Quit and shutdown begin when the GUI thread is idle.
LEMMA StopQuiet ==
    ASSUME OneClient, JInv, JInv', SInv, UNCHANGED snapVars,
           (GuiAt("idle") /\ (Quit \/ ShutdownStop)) \/ JoinKicker \/ JoinWorkers
    PROVE  SInv'
  <1>1. /\ UNCHANGED <<state, queues, job_res, pc, cur, request, drained>>
        /\ \/ GuiAt("idle") /\ main \in {"up", "quit"} /\ main' \in {"quit", "broadcast"}
           \/ main = "joinKicker" /\ main' = "joinWorkers"
           \/ main = "joinWorkers" /\ main' = "drain"
    BY DEF Quit, ShutdownStop, JoinKicker, JoinWorkers, jobVars, queueVars, resVars, threadVars,
           stopVars, history
  <1>2. ThreadsOK'
    BY <1>1 DEF SInv, ThreadsOK
  <1>3. ShutdownOK'
    BY <1>1 DEF SInv, GuiOK, GuiAt, ShutdownOK, Up, snapVars
  <1>4. QueuedOK'
    BY <1>1 DEF SInv, QueuedOK, Queued
  <1>5. Quiet
    BY <1>1 DEF Quiet, Live, Busy, Holding
  <1> QED
    BY <1>2, <1>3, <1>4, <1>5, JobFrame

\* The drain empties the queues.
LEMMA DrainQuiet ==
    ASSUME OneClient, JInv, JInv', SInv, UNCHANGED snapVars,
           main = "cleanup" => GuiAt("idle") /\ snap = NULL, Drain
    PROVE  SInv'
  <1>1. /\ UNCHANGED <<state, job_res, pc, cur, request, drained>>
        /\ \A q \in Queues : queues'[q] = <<>>
        /\ \/ main = "drain" /\ main' = "dispose"
           \/ main = "cleanup" /\ main' = "disposeAgain"
    BY DEF Drain, jobVars, resVars, threadVars, history
  <1>2. ThreadsOK'
    BY <1>1 DEF SInv, ThreadsOK
  <1>3. ShutdownOK'
    BY <1>1 DEF SInv, GuiOK, GuiAt, ShutdownOK, Up, snapVars
  <1>4. QueuedOK'
    BY <1>1 DEF SInv, QueuedOK, Queued, ToSet
  <1>5. Quiet
    BY <1>1 DEF Quiet, Live, Busy, Holding
  <1> QED
    BY <1>2, <1>3, <1>4, <1>5, JobFrame

\* dt_control_schedule_job hands a queued job to a worker.
LEMMA ScheduleQuiet ==
    ASSUME OneClient, JInv, JInv', SInv, UNCHANGED snapVars, NEW w \in Workers, Schedule(w)
    PROVE  SInv'
  <1> USE JobsAssumption, SnapshotAssumption DEF OneClient
  <1>1. PICK q \in Queues : /\ IsWinner(q)
                            /\ queues' = [queues EXCEPT ![q] = Tail(@)]
                            /\ cur' = [cur EXCEPT ![w] = Head(queues[q])]
    BY DEF Schedule
  <1>2. /\ UNCHANGED <<state, job_res, request, main, drained>>
        /\ pc[w] = "pick" /\ pc' = [pc EXCEPT ![w] = "test"]
    BY DEF Schedule, Goto, resVars, stopVars
  <1>3. queues[q] \in Seq(Jobs) /\ queues[q] # <<>> /\ IsInjective(queues[q])
    BY <1>1 DEF IsWinner, Candidates, JInv, IInv, TypeOK, OwnInv, DistinctOK
  <1>4. /\ ToSet(Tail(queues[q])) = ToSet(queues[q]) \ {Head(queues[q])}
        /\ Head(queues[q]) \in ToSet(queues[q])
    BY <1>3, TailDistinct
  <1>5. Queued(Head(queues[q])) /\ Head(queues[q]) \in Jobs
    BY <1>3, <1>4 DEF Queued
  <1>6. \A j \in Jobs : Queued(j)' => Queued(j)
    <2>1. \A p \in Queues : ToSet(queues'[p]) \subseteq ToSet(queues[p])
      BY <1>1, <1>4 DEF JInv, IInv, TypeOK
    <2> QED
      BY <2>1 DEF Queued
  <1>7. /\ w \in Threads /\ w # GUI /\ pc'[w] = "test" /\ cur'[w] = Head(queues[q])
        /\ \A t \in Threads \ {w} : pc'[t] = pc[t] /\ cur'[t] = cur[t]
    BY <1>1, <1>2 DEF Threads, JInv, IInv, TypeOK
  <1>8. ThreadsOK'
    BY <1>2, <1>7 DEF SInv, ThreadsOK, Threads
  <1>9. ShutdownOK'
    <2>1. main \notin {"disposeAgain", "done"}
      BY <1>2 DEF JInv, IInv, StoppedOK
    <2> QED
      BY <1>2, <1>7, <2>1 DEF SInv, ShutdownOK, Up, snapVars, Threads
  <1>10. QueuedOK'
    BY <1>2, <1>5, <1>6, <1>7 DEF SInv, QueuedOK
  <1>11. Quiet
    BY <1>2, <1>7 DEF Quiet, Live, Busy, Holding
  <1> QED
    BY <1>8, <1>9, <1>10, <1>11, JobFrame

\* dt_control_add_job appends the job to the queue.
LEMMA AddLockedQuiet ==
    ASSUME OneClient, JInv, JInv', SInv, UNCHANGED snapVars, AddLocked(GUI)
    PROVE  SInv'
  <1> USE JobsAssumption, SnapshotAssumption DEF OneClient
  <1>1. GUI \in Threads /\ GUI \in Clients /\ GUI \notin Workers /\ GUI \notin Reserved
    BY DEF Threads
  <1>2. request[GUI] = 0 /\ 0 \in Queues /\ DT_JOB_QUEUE_SYSTEM_FG # 0
    BY DEF SInv, ThreadsOK, DT_JOB_QUEUE_USER_FG, Queues, DT_JOB_QUEUE_MAX, DT_JOB_QUEUE_SYSTEM_FG
  <1>3. /\ pc[GUI] = "add" /\ AddToFifo(GUI, cur[GUI], 0)
        /\ UNCHANGED <<job_res, request, main, drained>>
    BY <1>2 DEF AddLocked, resVars, stopVars
  <1>4. cur[GUI] \in Jobs /\ Live(cur[GUI])
    <2>1. cur[GUI] \in Jobs
      BY <1>1, <1>3 DEF JInv, IInv, CurOK, Busy
    <2> QED
      BY <1>1, <2>1, HeldHasEngine
  <1>5. /\ queues' = [queues EXCEPT ![0] = Append(queues[0], cur[GUI])]
        /\ state' = [state EXCEPT ![cur[GUI]] = "QUEUED"]
        /\ cur' = [cur EXCEPT ![GUI] = NULL]
        /\ pc' = [pc EXCEPT ![GUI] = "notify"]
    BY <1>3 DEF AddToFifo, set_state, Goto
  <1>6. /\ pc'[GUI] = "notify" /\ cur'[GUI] = NULL
        /\ \A t \in Threads \ {GUI} : pc'[t] = pc[t] /\ cur'[t] = cur[t] /\ (cur[t] # cur[GUI])
        /\ state'[cur[GUI]] = "QUEUED"
        /\ \A j \in Jobs \ {cur[GUI]} : state'[j] = state[j]
    BY <1>1, <1>4, <1>5 DEF JInv, IInv, TypeOK, OwnInv, DistinctOK
  <1>7. \A j \in Jobs : Queued(j)' => Queued(j) \/ j = cur[GUI]
    <2>1. queues[0] \in Seq(Jobs)
      BY <1>2 DEF JInv, IInv, TypeOK
    <2>2. \A j : j \in ToSet(Append(queues[0], cur[GUI])) => j \in ToSet(queues[0]) \/ j = cur[GUI]
      BY <2>1 DEF ToSet
    <2>3. \A p \in Queues : queues'[p] = IF p = 0 THEN Append(queues[0], cur[GUI]) ELSE queues[p]
      BY <1>5 DEF JInv, IInv, TypeOK
    <2> QED
      BY <1>2, <2>2, <2>3 DEF Queued
  <1>8. ThreadsOK'
    BY <1>1, <1>3, <1>6 DEF SInv, ThreadsOK, Threads
  <1>9. ShutdownOK'
    BY <1>3 DEF SInv, ShutdownOK, Up, snapVars
  <1>10. QueuedOK'
    <2>1. \A j \in Jobs : Queued(j)' => state'[j] \in {"QUEUED", "CANCELLED"}
      BY <1>6, <1>7 DEF SInv, QueuedOK
    <2>2. ASSUME NEW t \in Threads, pc'[t] = "test"
          PROVE  state'[cur'[t]] \in {"QUEUED", "CANCELLED"}
      <3>1. t # GUI /\ pc[t] = "test" /\ cur'[t] = cur[t] /\ cur[t] # cur[GUI]
        BY <1>6, <2>2
      <3>2. cur[t] \in Jobs
        BY <3>1 DEF JInv, IInv, CurOK, Busy, Holding
      <3> QED
        BY <1>6, <3>1, <3>2 DEF SInv, QueuedOK
    <2> QED
      BY <2>1, <2>2 DEF QueuedOK
  <1>11. Quiet
    <2>1. \A j \in Jobs : /\ Live(j)' <=> Live(j)
                          /\ state[j] # "UNBORN" => state'[j] # "UNBORN"
                          /\ state'[j] = "CANCELLED" => state[j] = "CANCELLED"
      BY <1>4, <1>6 DEF Live
    <2>2. \A t \in Threads : pc[t] \in {"exec", "syncexec"} => cur[t] \in Jobs
      BY DEF JInv, IInv, CurOK, Busy, Holding
    <2> QED
      BY <1>3, <1>6, <2>1, <2>2 DEF Quiet, Busy, Holding
  <1> QED
    BY <1>8, <1>9, <1>10, <1>11, JobFrame

\* The steps of the job system that do not concern the snapshot.
LEMMA JobSystemKeeps ==
    ASSUME OneClient, JInv, JInv', SInv, JobSystemStep
    PROVE  SInv'
  BY WorkerQuiet, BroadcastQuiet, StopQuiet, DrainQuiet, ScheduleQuiet, AddLockedQuiet
  DEF JobSystemStep

----------------------------------------------------------------------------
(* The recompute job *)

\* The parts that speak of the job system only, when it does not move.
LEMMA StillKept ==
    ASSUME SInv, UNCHANGED vars, UNCHANGED <<params, gui>>, snap' = snap
    PROVE  ThreadsOK' /\ ShutdownOK' /\ QueuedOK' /\ ParamsOK'
  <1>1. UNCHANGED <<state, queues, job_res, pc, cur, request, main>>
    BY VarsUnchanged
  <1>2. ThreadsOK' /\ ShutdownOK'
    BY <1>1 DEF SInv, ThreadsOK, ShutdownOK, Up
  <1>3. QueuedOK' /\ ParamsOK'
    BY <1>1 DEF SInv, QueuedOK, ParamsOK, Queued, Live
  <1> QED
    BY <1>2, <1>3

\* What a step of the body must show of the engine and of its own progress.
BodyMoves(t) ==
    /\ \A s \in Threads \ {t} : body'[s] = body[s]
    /\ body'[t].pc # "none"
    /\ \A e \in Engines :
          /\ engine'[e].refs = engine[e].refs /\ engine'[e].destroying = engine[e].destroying
          /\ e # Engine(t) => engine'[e] = engine[e]
          /\ \/ engine'[e].job = engine[e].job
             \/ engine[e].job = cur[t] /\ engine'[e].job = NULL
    /\ body'[t].pc \in {"process", "publish"} => engine'[Engine(t)].job = cur[t]
    /\ body'[t].pc \in {"redraw", "done"} /\ engine'[Engine(t)].job = cur[t] =>
          engine[Engine(t)].destroying \/ cur[t] \in flushed
    /\ body'[t].pc = "lock" => ~engine[Engine(t)].destroying

\* It keeps the rest.
LEMMA BodyFrame ==
    ASSUME OneClient, JInv, SInv, NEW t \in Threads, body[t].pc # "none",
           UNCHANGED vars, UNCHANGED <<params, snap, gui, flushed, fault>>,
           SnapTypeOK', BodyMoves(t)
    PROVE  SInv'
  <1> USE JobsAssumption, SnapshotAssumption DEF OneClient
  <1>1. UNCHANGED <<state, pc, cur, main, drained, params, snap, gui, flushed, fault>>
    BY VarsUnchanged
  <1>2. ThreadsOK' /\ ShutdownOK' /\ QueuedOK' /\ ParamsOK'
    BY StillKept
  <1>3. RefsOK'
    <2>1. \A e \in Engines : engine'[e].refs = engine[e].refs
      BY DEF BodyMoves
    <2> QED
      BY <1>1, <2>1 DEF SInv, RefsOK, Users, Owned
  <1>4. /\ cur[t] \in Jobs /\ cur[t] # NULL /\ Engine(t) \in Engines
        /\ engine[Engine(t)] # NoEngine
    BY BodyHolds
  <1>5. /\ \A s \in Threads : (Engine(s))' = Engine(s)
        /\ \A s \in Threads \ {t} : cur[s] # cur[t]
    BY <1>1, <1>4 DEF Engine, JInv, OwnInv, DistinctOK
  <1>6. ASSUME NEW s \in Threads, cur[s] # NULL
        PROVE  /\ Engine(s) \in Engines
               /\ s # t => (engine'[Engine(s)].job = cur[s] <=> engine[Engine(s)].job = cur[s])
    <2>1. Engine(s) \in Engines
      BY <1>6, HeldHasEngine
    <2> QED
      BY <1>5, <1>6, <2>1 DEF BodyMoves
  <1>7. \A s \in Threads : body[s].pc # "none" \/ pc[s] \in {"clear", "dispose"} => cur[s] # NULL
    BY DEF SInv, BodyOK, JInv, IInv, CurOK, Busy, Holding
  <1>8. snap # NULL => snap \in Engines
    BY OwnedIsAllocated
  <1>9. gui.engine # NULL => gui.engine \in Engines
    BY OwnedIsAllocated
  <1>10. GuiOK'
    <2>1. gui.pc = "create" => engine'[snap].job = NULL
      BY <1>4, <1>8 DEF SInv, GuiOK, BodyMoves
    <2> QED
      BY <1>1, <2>1 DEF SInv, GuiOK
  <1>11. EnginesOK'
    <2>1. \A e \in Engines : engine[e] = NoEngine => engine'[e] = NoEngine
      BY <1>4 DEF BodyMoves
    <2> QED
      BY <1>1, <1>8, <1>9, <2>1 DEF SInv, EnginesOK, BodyMoves
  <1>12. BodyOK'
    BY <1>1 DEF SInv, BodyOK, BodyMoves
  <1>13. FieldHeld'
    BY <1>1, <1>5, <1>6, <1>7 DEF SInv, FieldHeld, BodyAt, BodyMoves
  <1>14. FieldOwn'
    BY <1>1 DEF SInv, FieldOwn, BodyMoves, Live
  <1>15. CancelledOK'
    <2>1. \A j \in Jobs : state[j] = "CANCELLED" => params[j] \in Engines
      BY DEF SInv, SnapTypeOK, ParamsOK, Live
    <2> QED
      BY <1>1, <2>1 DEF SInv, CancelledOK, BodyMoves
  <1>16. PastOK'
    <2> SUFFICES ASSUME NEW s \in Threads, Past(s)', (engine[Engine(s)].job = cur[s])'
                 PROVE  (engine[Engine(s)].destroying \/ cur[s] \in flushed)'
      BY DEF PastOK
    <2>1. CASE s = t
      <3>1. pc[t] \notin {"clear", "dispose"}
        BY DEF SInv, BodyOK
      <3> QED
        BY <1>1, <1>4, <1>5, <2>1, <3>1 DEF Past, BodyMoves
    <2>2. CASE s # t
      <3>1. Past(s) /\ cur[s] # NULL
        BY <1>1, <1>7, <2>2 DEF Past, BodyMoves
      <3>2. engine[Engine(s)].job = cur[s] /\ Engine(s) \in Engines
        BY <1>1, <1>5, <1>6, <2>2, <3>1
      <3>3. engine[Engine(s)].destroying \/ cur[s] \in flushed
        BY <3>1, <3>2 DEF SInv, PastOK
      <3> QED
        BY <1>1, <1>5, <3>2, <3>3 DEF BodyMoves
    <2> QED
      BY <2>1, <2>2
  <1>17. FieldOK'
    BY <1>1 DEF SInv, FieldOK, BodyMoves, Live
  <1>18. CaughtOK'
    <2> SUFFICES ASSUME NEW s \in Threads, BodyAt(s, "lock")',
                        (engine[Engine(s)].destroying)', (engine[Engine(s)].job = cur[s])'
                 PROVE  (\/ state[cur[s]] = "CANCELLED"
                         \/ /\ gui.engine = Engine(s)
                            /\ gui.pc = "readjob" \/ (gui.pc = "cancel" /\ gui.job = cur[s]))'
      BY DEF CaughtOK
    <2>1. s # t
      BY <1>4, <1>5 DEF BodyMoves, BodyAt
    <2>2. body[s].pc = "lock" /\ cur[s] # NULL
      BY <1>7, <2>1 DEF BodyMoves, BodyAt
    <2>3. /\ engine[Engine(s)].job = cur[s] /\ engine[Engine(s)].destroying
      BY <1>1, <1>5, <1>6, <2>1, <2>2 DEF BodyMoves
    <2> QED
      BY <1>1, <1>5, <2>2, <2>3 DEF SInv, CaughtOK, BodyAt
  <1>19. fault' # "engine"
    BY <1>1 DEF SInv
  <1> QED
    BY <1>2, <1>3, <1>10, <1>11, <1>12, <1>13, <1>14, <1>15, <1>16, <1>17, <1>18, <1>19 DEF SInv

\* The fields of an engine and the locals of a body have their types.
EngineRecords == [refs : Nat, destroying : BOOLEAN, job : Jobs \cup {NULL},
                  pending : Views \cup {NULL}, last : Views \cup {NULL},
                  backbuf : Views \cup {NULL}]
BodyRecords == [pc : {"none", "enter", "lock", "process", "publish", "redraw", "done"},
                roi : Views \cup {NULL}, ok : BOOLEAN]

\* Touching an allocated engine is no fault.
LEMMA NoFault ==
    ASSUME OneClient, JInv, SInv, NEW t \in Threads, body[t].pc # "none", Touch(Engine(t))
    PROVE  fault' = fault
  BY BodyHolds DEF Touch

\* Types of a step of the body.
LEMMA BodyTypes ==
    ASSUME JInv', SInv, UNCHANGED <<params, snap, gui, view, moves, flushed, fault>>,
           engine' \in [Engines -> EngineRecords], body' \in [Threads -> BodyRecords],
           redraw' \in BOOLEAN, failures' \in 0..MaxFailures
    PROVE  SnapTypeOK'
  BY DEF JInv, IInv, SInv, SnapTypeOK, EngineRecords, BodyRecords

\* The types a step starts from.
LEMMA SnapTypes ==
    ASSUME SInv
    PROVE  /\ engine \in [Engines -> EngineRecords] /\ body \in [Threads -> BodyRecords]
           /\ redraw \in BOOLEAN /\ failures \in 0..MaxFailures
  BY DEF SInv, SnapTypeOK, EngineRecords, BodyRecords

\* The first look at the engine.
LEMMA BodyEnterKeeps ==
    ASSUME OneClient, JInv, JInv', SInv, NEW t \in Threads, BodyEnter(t)
    PROVE  SInv'
  <1> USE SnapTypes
  <1>1. body[t].pc = "enter" /\ body[t].pc # "none"
    BY DEF BodyEnter, BodyAt
  <1>2. fault' = fault
    BY <1>1, NoFault DEF BodyEnter
  <1>3. /\ UNCHANGED vars
        /\ UNCHANGED <<engine, params, snap, gui, view, redraw, moves, failures, flushed>>
        /\ body' = [body EXCEPT ![t].pc = IF engine[Engine(t)].destroying THEN "done" ELSE "lock"]
    BY DEF BodyEnter, BodyGoto
  <1>4. body' \in [Threads -> BodyRecords]
    BY <1>3 DEF BodyRecords
  <1>5. SnapTypeOK'
    BY <1>2, <1>3, <1>4, BodyTypes
  <1>6. BodyMoves(t)
    <2>1. /\ \A s \in Threads \ {t} : body'[s] = body[s]
          /\ body'[t].pc = IF engine[Engine(t)].destroying THEN "done" ELSE "lock"
      BY <1>3 DEF BodyRecords
    <2> QED
      BY <1>3, <2>1 DEF BodyMoves
  <1> QED
    BY <1>1, <1>2, <1>3, <1>5, <1>6, BodyFrame

\* The second one: only the job in the field goes on.
LEMMA BodyLockKeeps ==
    ASSUME OneClient, JInv, JInv', SInv, NEW t \in Threads, BodyLock(t)
    PROVE  SInv'
  <1> USE SnapTypes
  <1>1. body[t].pc = "lock" /\ body[t].pc # "none"
    BY DEF BodyLock, BodyAt
  <1>2. fault' = fault
    BY <1>1, NoFault DEF BodyLock
  <1>3. /\ UNCHANGED vars
        /\ UNCHANGED <<engine, params, snap, gui, view, redraw, moves, failures, flushed>>
        /\ body' = [body EXCEPT ![t] = [pc |-> IF Stale(t) THEN "done" ELSE "process",
                                        roi |-> engine[Engine(t)].pending, ok |-> FALSE]]
    BY DEF BodyLock
  <1>4. cur[t] \in Jobs /\ Engine(t) \in Engines
    BY <1>1, BodyHolds
  <1>5. body' \in [Threads -> BodyRecords]
    BY <1>3, <1>4 DEF BodyRecords, EngineRecords
  <1>6. SnapTypeOK'
    BY <1>2, <1>3, <1>5, BodyTypes
  <1>7. BodyMoves(t)
    <2>1. /\ \A s \in Threads \ {t} : body'[s] = body[s]
          /\ body'[t].pc = IF Stale(t) THEN "done" ELSE "process"
      BY <1>3 DEF BodyRecords
    <2>2. ~Stale(t) => engine[Engine(t)].job = cur[t]
      BY DEF Stale
    <2>3. Stale(t) /\ engine[Engine(t)].job = cur[t] =>
            engine[Engine(t)].destroying \/ cur[t] \in flushed
      BY <1>4 DEF Stale, SInv, CancelledOK, Engine
    <2> QED
      BY <1>3, <2>1, <2>2, <2>3 DEF BodyMoves
  <1> QED
    BY <1>1, <1>2, <1>3, <1>6, <1>7, BodyFrame

\* Rendering.
LEMMA BodyProcessKeeps ==
    ASSUME OneClient, JInv, JInv', SInv, NEW t \in Threads, BodyProcess(t)
    PROVE  SInv'
  <1> USE SnapTypes
  <1>1. body[t].pc = "process" /\ body[t].pc # "none"
    BY DEF BodyProcess, BodyAt
  <1>2. fault' = fault
    BY <1>1, NoFault DEF BodyProcess
  <1>3. /\ UNCHANGED vars
        /\ UNCHANGED <<params, snap, gui, view, redraw, moves, flushed>>
        /\ \/ engine' = [engine EXCEPT ![Engine(t)].backbuf = body[t].roi]
           \/ engine' = engine
        /\ \/ body' = [body EXCEPT ![t].pc = "publish", ![t].ok = TRUE]
           \/ body' = [body EXCEPT ![t].pc = "publish"]
        /\ failures' = failures \/ (failures < MaxFailures /\ failures' = failures + 1)
    BY DEF BodyProcess, BodyGoto
  <1>4. cur[t] \in Jobs /\ Engine(t) \in Engines
    BY <1>1, BodyHolds
  <1>5. body' \in [Threads -> BodyRecords]
    BY <1>3 DEF BodyRecords
  <1>6. engine' \in [Engines -> EngineRecords]
    BY <1>3, <1>4 DEF EngineRecords, BodyRecords
  <1>7. failures' \in 0..MaxFailures
    BY <1>3, SnapshotAssumption DEF OneClient
  <1>8. SnapTypeOK'
    BY <1>2, <1>3, <1>5, <1>6, <1>7, BodyTypes
  <1>9. BodyMoves(t)
    <2>1. /\ \A s \in Threads \ {t} : body'[s] = body[s]
          /\ body'[t].pc = "publish"
      BY <1>3 DEF BodyRecords
    <2>2. \A e \in Engines :
             /\ engine'[e].refs = engine[e].refs /\ engine'[e].destroying = engine[e].destroying
             /\ e # Engine(t) => engine'[e] = engine[e]
             /\ engine'[e].job = engine[e].job
      BY <1>3, <1>4 DEF EngineRecords
    <2>3. engine[Engine(t)].job = cur[t]
      BY <1>1 DEF SInv, FieldHeld, BodyAt
    <2> QED
      BY <1>4, <2>1, <2>2, <2>3 DEF BodyMoves
  <1> QED
    BY <1>1, <1>2, <1>3, <1>8, <1>9, BodyFrame

\* Publishing resets the field.
LEMMA BodyPublishKeeps ==
    ASSUME OneClient, JInv, JInv', SInv, NEW t \in Threads, BodyPublish(t)
    PROVE  SInv'
  <1> USE SnapTypes
  <1>1. body[t].pc = "publish" /\ body[t].pc # "none"
    BY DEF BodyPublish, BodyAt
  <1>2. fault' = fault
    BY <1>1, NoFault DEF BodyPublish
  <1>3. cur[t] \in Jobs /\ cur[t] # NULL /\ Engine(t) \in Engines /\ engine[Engine(t)].job = cur[t]
    BY <1>1, BodyHolds DEF SInv, FieldHeld, BodyAt
  <1>4. /\ UNCHANGED vars
        /\ UNCHANGED <<params, snap, gui, view, redraw, moves, failures, flushed>>
        /\ engine' = [engine EXCEPT ![Engine(t)] = Published(t)]
        /\ body' = [body EXCEPT ![t].pc = "redraw"]
    BY <1>3 DEF BodyPublish, BodyGoto
  <1>5. /\ Published(t) \in EngineRecords /\ Published(t).job = NULL
        /\ Published(t).refs = engine[Engine(t)].refs
        /\ Published(t).destroying = engine[Engine(t)].destroying
    BY <1>3 DEF Published, EngineRecords, BodyRecords
  <1>6. body' \in [Threads -> BodyRecords]
    BY <1>4 DEF BodyRecords
  <1>7. engine' \in [Engines -> EngineRecords]
    BY <1>4, <1>5
  <1>8. SnapTypeOK'
    BY <1>2, <1>4, <1>6, <1>7, BodyTypes
  <1>9. BodyMoves(t)
    <2>1. /\ \A s \in Threads \ {t} : body'[s] = body[s]
          /\ body'[t].pc = "redraw"
      BY <1>4 DEF BodyRecords
    <2>2. \A e \in Engines : engine'[e] = IF e = Engine(t) THEN Published(t) ELSE engine[e]
      BY <1>4
    <2> QED
      BY <1>3, <1>5, <2>1, <2>2 DEF BodyMoves
  <1> QED
    BY <1>1, <1>2, <1>4, <1>8, <1>9, BodyFrame

\* The redraw.
LEMMA BodyRedrawKeeps ==
    ASSUME OneClient, JInv, JInv', SInv, NEW t \in Threads, BodyRedraw(t)
    PROVE  SInv'
  <1> USE SnapTypes
  <1>1. body[t].pc = "redraw" /\ body[t].pc # "none"
    BY DEF BodyRedraw, BodyAt
  <1>2. fault' = fault
    BY <1>1, NoFault DEF BodyRedraw
  <1>3. /\ UNCHANGED vars
        /\ UNCHANGED <<engine, params, snap, gui, view, moves, failures, flushed>>
        /\ body' = [body EXCEPT ![t].pc = "done"]
        /\ redraw' \in BOOLEAN
    BY DEF BodyRedraw, BodyGoto
  <1>4. body' \in [Threads -> BodyRecords]
    BY <1>3 DEF BodyRecords
  <1>5. SnapTypeOK'
    BY <1>2, <1>3, <1>4, BodyTypes
  <1>6. BodyMoves(t)
    <2>1. /\ \A s \in Threads \ {t} : body'[s] = body[s]
          /\ body'[t].pc = "done"
      BY <1>3 DEF BodyRecords
    <2>2. engine[Engine(t)].job = cur[t] => engine[Engine(t)].destroying \/ cur[t] \in flushed
      BY <1>1 DEF SInv, PastOK, Past
    <2> QED
      BY <1>3, <2>1, <2>2 DEF BodyMoves
  <1> QED
    BY <1>1, <1>2, <1>3, <1>5, <1>6, BodyFrame

\* The job system calls a body, or takes over from it.
Called(t) ==
    /\ \E at \in {"exec", "syncexec"} :
          pc' = [pc EXCEPT ![t] = at] /\ (at = "exec" <=> t # GUI)
    /\ state' = [state EXCEPT ![cur[t]] = "RUNNING"]
    /\ body' = [body EXCEPT ![t].pc = "enter"]

Returned(t) ==
    /\ body[t].pc = "done"
    /\ \E at \in {"clear", "dispose"} :
          pc' = [pc EXCEPT ![t] = at] /\ (at = "clear" <=> t # GUI)
    /\ state' = [state EXCEPT ![cur[t]] = "FINISHED"]
    /\ body' = [body EXCEPT ![t] = NoBody]

\* Either way only the thread's own job changes its state.
LEMMA HandOver ==
    ASSUME OneClient, JInv, JInv', SInv, NEW t \in Threads, t \notin Reserved, pc[t] \in Busy,
           t = GUI => pc[t] # "idle", Called(t) \/ Returned(t),
           UNCHANGED <<queues, job_res, cur, request, main, drained>>,
           UNCHANGED <<engine, params, snap, gui, view, redraw, moves, failures, flushed, fault>>
    PROVE  SInv'
  <1> USE JobsAssumption, SnapshotAssumption DEF OneClient
  <1>1. cur[t] \in Jobs /\ cur[t] # NULL /\ Live(cur[t])
    BY HeldHasEngine DEF JInv, IInv, CurOK
  <1>2. /\ \A s \in Threads \ {t} : cur[s] # cur[t]
        /\ ~Queued(cur[t])
    BY <1>1 DEF JInv, OwnInv, DistinctOK, PlacesOK, Held
  <1>3. /\ \A j \in Jobs \ {cur[t]} : state'[j] = state[j]
        /\ state'[cur[t]] \in {"RUNNING", "FINISHED"}
    BY <1>1 DEF JInv, IInv, TypeOK, Called, Returned
  <1>4. \A j \in Jobs : Live(j)' <=> Live(j)
    BY <1>1, <1>3 DEF Live
  <1>5. /\ \A s \in Threads \ {t} : pc'[s] = pc[s]
        /\ pc'[t] \in IF t = GUI THEN {"syncexec", "dispose"} ELSE {"exec", "clear"}
    BY DEF JInv, IInv, TypeOK, Called, Returned
  <1>6. body \in [Threads -> BodyRecords]
    BY SnapTypes
  <1>7. /\ \A s \in Threads \ {t} : body'[s] = body[s]
        /\ \/ body'[t].pc = "enter" /\ pc'[t] \in {"exec", "syncexec"}
           \/ body'[t].pc = "none" /\ pc'[t] \in {"clear", "dispose"} /\ body[t].pc = "done"
    BY <1>5, <1>6 DEF Called, Returned, NoBody, BodyRecords, JInv, IInv, TypeOK
  <1>8. SnapTypeOK' /\ fault' # "engine"
    <2>1. body' \in [Threads -> BodyRecords]
      <3>1. CASE Called(t)
        BY <1>6, <3>1 DEF Called, BodyRecords
      <3>2. CASE Returned(t)
        BY <1>6, <3>2 DEF Returned, BodyRecords, NoBody
      <3> QED
        BY <3>1, <3>2
    <2> QED
      BY <2>1, SnapTypes, BodyTypes DEF SInv
  <1>9. ThreadsOK' /\ ShutdownOK'
    BY <1>5 DEF SInv, ThreadsOK, ShutdownOK, Up, Threads
  <1>10. QueuedOK'
    <2>1. \A s \in Threads : pc[s] = "test" => cur[s] \in Jobs
      BY DEF JInv, IInv, CurOK, Busy, Holding
    <2>2. \A j \in Jobs : Queued(j)' => Queued(j)
      BY DEF Queued
    <2> QED
      BY <1>2, <1>3, <1>5, <2>1, <2>2 DEF SInv, QueuedOK
  <1>11. ParamsOK' /\ RefsOK'
    BY <1>4 DEF SInv, ParamsOK, RefsOK, Users, Owned
  <1>12. GuiOK' /\ EnginesOK'
    BY DEF SInv, GuiOK, EnginesOK
  <1>13. BodyOK'
    BY <1>5, <1>7 DEF SInv, BodyOK
  <1>14. \A s \in Threads : Engine(s)' = Engine(s)
    BY DEF Engine
  <1>15. FieldHeld'
    BY <1>7, <1>14 DEF SInv, FieldHeld, BodyAt
  <1>16. FieldOwn'
    <2>1. \A e \in Engines : engine[e].job \in Jobs \cup {NULL}
      BY DEF SInv, SnapTypeOK
    <2>2. gui.pc = "cancel" => gui.job \in Jobs
      BY DEF SInv, SnapTypeOK, GuiOK
    <2>3. \A j \in Jobs : state[j] # "UNBORN" => state'[j] # "UNBORN"
      BY <1>3
    <2> QED
      BY <1>4, <2>1, <2>2, <2>3 DEF SInv, FieldOwn
  <1>17. CancelledOK'
    BY <1>3 DEF SInv, CancelledOK
  <1>18. PastOK'
    BY <1>5, <1>7, <1>14 DEF SInv, PastOK, Past
  <1>19. FieldOK'
    <2>1. \A e \in Engines : engine[e].job \in Jobs \cup {NULL}
      BY DEF SInv, SnapTypeOK
    <2> QED
      BY <1>4, <2>1 DEF SInv, FieldOK
  <1>20. CaughtOK'
    <2>1. \A s \in Threads : body[s].pc = "lock" => cur[s] \in Jobs
      BY BodyHolds
    <2> QED
      BY <1>2, <1>3, <1>7, <1>14, <2>1 DEF SInv, CaughtOK, BodyAt
  <1> QED
    BY <1>8, <1>9, <1>10, <1>11, <1>12, <1>13, <1>15, <1>16, <1>17, <1>18, <1>19, <1>20 DEF SInv

\* The call of a body.
LEMMA BodyCallKeeps ==
    ASSUME OneClient, JInv, JInv', SInv, NEW t \in Threads, BodyCall(t)
    PROVE  SInv'
  <1> USE JobsAssumption, SnapshotAssumption DEF OneClient
  <1>1. t \notin Reserved /\ pc[t] \in {"start", "syncstart"} /\ (pc[t] = "start" <=> t # GUI)
    BY DEF BodyCall, Start, SyncStart, SInv, ThreadsOK, Threads
  <1>2. Called(t)
    BY <1>1 DEF BodyCall, BodyGoto, Start, SyncStart, set_state, Goto, Called
  <1>3. UNCHANGED <<queues, job_res, cur, request, main, drained>>
    BY DEF BodyCall, Start, SyncStart, queueVars, resVars, stopVars
  <1>4. UNCHANGED <<engine, params, snap, gui, view, redraw, moves, failures, flushed, fault>>
    BY DEF BodyCall
  <1>5. pc[t] \in Busy /\ (t = GUI => pc[t] # "idle")
    BY <1>1 DEF Busy, Holding
  <1> QED
    BY <1>1, <1>2, <1>3, <1>4, <1>5, HandOver

\* The return from one.
LEMMA BodyReturnKeeps ==
    ASSUME OneClient, JInv, JInv', SInv, NEW t \in Threads, BodyReturn(t)
    PROVE  SInv'
  <1> USE JobsAssumption, SnapshotAssumption DEF OneClient
  <1>1. t \notin Reserved /\ pc[t] \in {"exec", "syncexec"} /\ (pc[t] = "exec" <=> t # GUI)
    BY DEF BodyReturn, Finish, SyncFinish, SInv, ThreadsOK, Threads
  <1>2. Returned(t)
    BY <1>1 DEF BodyReturn, BodyAt, Finish, SyncFinish, set_state, Goto, Returned
  <1>3. UNCHANGED <<queues, job_res, cur, request, main, drained>>
    BY DEF BodyReturn, Finish, SyncFinish, queueVars, resVars, stopVars
  <1>4. UNCHANGED <<engine, params, snap, gui, view, redraw, moves, failures, flushed, fault>>
    BY DEF BodyReturn
  <1>5. pc[t] \in Busy /\ (t = GUI => pc[t] # "idle")
    BY <1>1 DEF Busy, Holding
  <1> QED
    BY <1>1, <1>2, <1>3, <1>4, <1>5, HandOver

----------------------------------------------------------------------------
(* Disposing of jobs *)

\* _engine_unref() for every job of a set of live jobs keeps the count, and nothing
\* else of the engines changes.
LEMMA UnrefKeeps ==
    ASSUME OneClient, SInv, NEW S \in SUBSET Jobs, \A j \in S : Live(j), Unref(S),
           \A j \in Jobs : Live(j)' <=> Live(j) /\ j \notin S,
           UNCHANGED <<snap, gui>>
    PROVE  /\ engine' \in [Engines -> EngineRecords] /\ params' \in [Jobs -> Engines \cup {NULL}]
           /\ ParamsOK' /\ RefsOK'
           /\ \A e \in Engines : /\ engine'[e].destroying = engine[e].destroying
                                 /\ engine'[e].job = engine[e].job
                                 /\ engine[e] = NoEngine => engine'[e] = NoEngine
           /\ \A j \in Jobs \ S : params'[j] = params[j]
  <1> USE SnapshotAssumption DEF OneClient
  <1> DEFINE Gone(e) == {j \in S : params[j] = e}
  <1>1. engine \in [Engines -> EngineRecords] /\ params \in [Jobs -> Engines \cup {NULL}]
    BY DEF SInv, SnapTypeOK, EngineRecords
  <1>2. params' = [j \in Jobs |-> IF j \in S THEN NULL ELSE params[j]]
    BY DEF Unref
  <1>3. \A e \in Engines : engine'[e] = [engine[e] EXCEPT !.refs = @ - Cardinality(Gone(e))]
    BY DEF Unref
  <1>4. ASSUME NEW e \in Engines
        PROVE  /\ Cardinality(Users(e)') = Cardinality(Users(e)) - Cardinality(Gone(e))
               /\ Cardinality(Users(e)') \in Nat /\ Cardinality(Gone(e)) \in Nat
               /\ Users(e) = {} => Cardinality(Gone(e)) = 0
    <2>1. IsFiniteSet(Users(e))
      BY UsersFinite
    <2>2. Users(e)' = Users(e) \ S /\ Gone(e) = Users(e) \cap S
      BY <1>2 DEF Users
    <2>3. /\ IsFiniteSet(Users(e) \ S) /\ IsFiniteSet(Users(e) \cap S)
          /\ Cardinality(Users(e) \ S) = Cardinality(Users(e)) - Cardinality(Users(e) \cap S)
      BY <2>1, FS_Difference, FS_Intersection
    <2>4. Users(e) = {} => Users(e) \cap S = {}
      OBVIOUS
    <2> QED
      BY <2>2, <2>3, <2>4, FS_CardinalityType, FS_EmptySet
  <1>5. ASSUME NEW e \in Engines
        PROVE  /\ engine'[e].refs = Cardinality(Users(e)') + Owned(e)
               /\ engine'[e].refs \in Nat
    <2>1. engine[e].refs = Cardinality(Users(e)) + Owned(e) /\ Owned(e) \in {0, 1}
      BY DEF SInv, RefsOK, Owned
    <2>2. engine'[e].refs = engine[e].refs - Cardinality(Gone(e))
      BY <1>1, <1>3 DEF EngineRecords
    <2>3. Cardinality(Users(e)) \in Nat
      BY UsersFinite
    <2> HIDE DEF Gone, Owned, Users
    <2> QED
      BY <1>4, <2>1, <2>2, <2>3
  <1>6. engine' \in [Engines -> EngineRecords]
    <2>1. DOMAIN engine' = Engines /\ engine' = [e \in Engines |-> engine'[e]]
      BY DEF Unref
    <2>2. \A e \in Engines : engine'[e] \in EngineRecords
      <3> SUFFICES ASSUME NEW e \in Engines PROVE engine'[e] \in EngineRecords
        OBVIOUS
      <3>1. engine'[e].refs \in Nat
        BY <1>5
      <3> DEFINE n == engine[e].refs - Cardinality(Gone(e))
      <3>2. engine'[e] = [engine[e] EXCEPT !.refs = n]
        BY <1>3
      <3>3. n \in Nat
        BY <1>1, <3>1, <3>2 DEF EngineRecords
      <3> HIDE DEF n
      <3> QED
        BY <1>1, <3>2, <3>3 DEF EngineRecords
    <2> QED
      BY <2>1, <2>2
  <1>7. ParamsOK'
    <2>1. {j \in Jobs : params'[j] # NULL} \subseteq {j \in Jobs : params[j] # NULL}
      BY <1>2
    <2>2. IsFiniteSet({j \in Jobs : params'[j] # NULL})
      BY <2>1, FS_Subset DEF SInv, ParamsOK
    <2>3. \A j \in Jobs : params'[j] # NULL <=> Live(j)'
      BY <1>2 DEF SInv, ParamsOK
    <2> QED
      BY <2>2, <2>3 DEF ParamsOK
  <1>8. RefsOK'
    <2>1. \A e \in Engines : Owned(e)' = Owned(e)
      BY DEF Owned
    <2> QED
      BY <1>5, <2>1 DEF RefsOK
  <1>9. ASSUME NEW e \in Engines
        PROVE  /\ engine'[e].destroying = engine[e].destroying
               /\ engine'[e].job = engine[e].job
               /\ engine[e] = NoEngine => engine'[e] = NoEngine
    <2>1. /\ engine'[e].destroying = engine[e].destroying
          /\ engine'[e].job = engine[e].job
      BY <1>1, <1>3 DEF EngineRecords
    <2>2. CASE engine[e] = NoEngine
      <3>1. Users(e) = {}
        BY <2>2, UsedIsAllocated
      <3>2. Cardinality(Gone(e)) = 0
        BY <1>4, <3>1
      <3>3. engine'[e] = [engine[e] EXCEPT !.refs = engine[e].refs - 0]
        BY <1>3, <3>2
      <3>4. engine[e].refs \in Nat /\ engine[e] \in EngineRecords
        BY <1>1 DEF EngineRecords
      <3>5. engine[e].refs - 0 = engine[e].refs
        BY <3>4
      <3>6. engine'[e] = [engine[e] EXCEPT !.refs = engine[e].refs]
        BY <3>3, <3>5
      <3>7. engine'[e] = engine[e]
        BY <3>4, <3>6 DEF EngineRecords
      <3> QED
        BY <2>2, <3>7
    <2> QED
      BY <2>1, <2>2
  <1>10. \A j \in Jobs \ S : params'[j] = params[j]
    BY <1>2
  <1>11. params' \in [Jobs -> Engines \cup {NULL}]
    BY <1>1, <1>2
  <1> QED
    BY <1>6, <1>7, <1>8, <1>9, <1>10, <1>11

\* What disposing of a set of jobs must show of the threads: nobody keeps one of them.
Released(S) ==
    /\ \A j \in Jobs : state'[j] = IF j \in S THEN "DISPOSED" ELSE state[j]
    /\ \A s \in Threads :
          \/ cur'[s] = cur[s] /\ pc'[s] = pc[s] /\ cur[s] \notin S
          \/ pc[s] = "dispose" /\ pc'[s] \in {"idle", "check"}
    /\ \A e \in Engines : engine[e].job \in S /\ ~engine[e].destroying =>
          engine[e].job \in flushed \cup drained'
    /\ drained \subseteq drained'

\* It keeps the rest.
LEMMA ReleaseFrame ==
    ASSUME OneClient, JInv, JInv', SInv, NEW S \in SUBSET Jobs, \A j \in S : Live(j), Unref(S), Released(S),
           ThreadsOK', ShutdownOK', queues' = queues,
           UNCHANGED <<snap, gui, body, view, redraw, moves, failures, flushed, fault>>
    PROVE  SInv'
  <1> USE JobsAssumption, SnapshotAssumption DEF OneClient
  <1>1. \A j \in Jobs : Live(j)' <=> Live(j) /\ j \notin S
    BY DEF Released, Live
  <1>2. /\ engine' \in [Engines -> EngineRecords] /\ params' \in [Jobs -> Engines \cup {NULL}]
        /\ ParamsOK' /\ RefsOK'
        /\ \A e \in Engines : /\ engine'[e].destroying = engine[e].destroying
                              /\ engine'[e].job = engine[e].job
                              /\ engine[e] = NoEngine => engine'[e] = NoEngine
        /\ \A j \in Jobs \ S : params'[j] = params[j]
    BY <1>1, UnrefKeeps
  <1>3. SnapTypeOK' /\ fault' # "engine"
    BY <1>2 DEF SInv, SnapTypeOK, EngineRecords, JInv, IInv
  <1>4. snap \in Engines \cup {NULL} /\ gui.engine \in Engines \cup {NULL}
    BY DEF SInv, SnapTypeOK
  <1>5. QueuedOK'
    <2>1. \A j \in Jobs : Queued(j)' => Queued(j)
      BY DEF Queued
    <2>2. \A j \in Jobs : Queued(j)' => Live(j)'
      BY DEF JInv, OwnInv, PlacesOK
    <2>3. \A s \in Threads : pc[s] = "test" => cur[s] \in Jobs
      BY DEF JInv, IInv, CurOK, Busy, Holding
    <2> QED
      BY <1>1, <2>1, <2>2, <2>3 DEF SInv, QueuedOK, Released
  <1>6. GuiOK' /\ EnginesOK'
    <2>1. GuiOK'
      BY <1>2, <1>4 DEF SInv, GuiOK
    <2>2. EnginesOK'
      BY <1>2, <1>4 DEF SInv, EnginesOK
    <2> QED
      BY <2>1, <2>2
  <1>7. BodyOK'
    BY DEF SInv, BodyOK, Released
  <1>8. ASSUME NEW s \in Threads, body[s].pc # "none" \/ Past(s)'
        PROVE  /\ cur'[s] = cur[s] /\ pc'[s] = pc[s] /\ cur[s] \notin S /\ cur[s] \in Jobs
               /\ Engine(s)' = Engine(s) /\ Engine(s) \in Engines
    <2>1. cur'[s] = cur[s] /\ pc'[s] = pc[s] /\ cur[s] \notin S
      BY <1>8 DEF SInv, BodyOK, Released, Past
    <2>2. pc[s] \in Busy
      BY <1>8, <2>1 DEF SInv, BodyOK, Busy, Holding, Past
    <2>3. cur[s] \in Jobs /\ Engine(s) \in Engines
      BY <2>2, HeldHasEngine DEF JInv, IInv, CurOK
    <2> QED
      BY <1>2, <2>1, <2>3 DEF Engine
  <1>9. FieldHeld'
    BY <1>2, <1>8 DEF SInv, FieldHeld, BodyAt
  <1>10. FieldOwn'
    <2>1. \A e \in Engines : engine[e].job \in Jobs \cup {NULL}
      BY DEF SInv, SnapTypeOK
    <2>2. gui.pc = "cancel" => gui.job \in Jobs
      BY DEF SInv, SnapTypeOK, GuiOK
    <2>3. \A e \in Engines : engine'[e].job # NULL =>
             /\ state'[engine'[e].job] # "UNBORN"
             /\ Live(engine[e].job)' => params'[engine[e].job] = e
      BY <1>1, <1>2, <2>1 DEF SInv, FieldOwn, Released
    <2>4. gui.pc = "cancel" /\ Live(gui.job)' => params'[gui.job] = gui.engine
      BY <1>1, <1>2, <2>2 DEF SInv, FieldOwn
    <2> QED
      BY <1>2, <2>3, <2>4 DEF FieldOwn, Live
  <1>11. CancelledOK'
    <2>1. \A j \in Jobs : state[j] = "CANCELLED" => params[j] \in Engines
      BY DEF SInv, SnapTypeOK, ParamsOK, Live
    <2> QED
      BY <1>2, <2>1 DEF SInv, CancelledOK, Released
  <1>12. PastOK'
    <2> SUFFICES ASSUME NEW s \in Threads, Past(s)', (engine[Engine(s)].job = cur[s])'
                 PROVE  (engine[Engine(s)].destroying \/ cur[s] \in flushed)'
      BY DEF PastOK
    <2>1. Past(s) /\ engine[Engine(s)].job = cur[s]
      BY <1>2, <1>8 DEF Past
    <2> QED
      BY <1>2, <1>8, <2>1 DEF SInv, PastOK
  <1>13. FieldOK'
    <2>1. \A e \in Engines : engine[e].job \in Jobs \cup {NULL}
      BY DEF SInv, SnapTypeOK
    <2>2. \A e \in Engines : engine[e].job # NULL /\ ~engine[e].destroying =>
             Live(engine[e].job)' \/ engine[e].job \in flushed \cup drained'
      BY <1>1, <1>2, <2>1 DEF SInv, FieldOK, Released
    <2> QED
      BY <1>2, <2>2 DEF FieldOK, Live
  <1>14. CaughtOK'
    <2> SUFFICES ASSUME NEW s \in Threads, BodyAt(s, "lock")',
                        (engine[Engine(s)].destroying)', (engine[Engine(s)].job = cur[s])'
                 PROVE  (\/ state[cur[s]] = "CANCELLED"
                         \/ /\ gui.engine = Engine(s)
                            /\ gui.pc = "readjob" \/ (gui.pc = "cancel" /\ gui.job = cur[s]))'
      BY DEF CaughtOK
    <2>1. body[s].pc = "lock"
      BY DEF BodyAt
    <2>2. engine[Engine(s)].job = cur[s] /\ engine[Engine(s)].destroying
      BY <1>2, <1>8, <2>1
    <2>3. state'[cur[s]] = state[cur[s]]
      BY <1>8, <2>1 DEF Released
    <2> QED
      BY <1>8, <2>1, <2>2, <2>3 DEF SInv, CaughtOK, BodyAt
  <1> QED
    BY <1>2, <1>3, <1>5, <1>6, <1>7, <1>9, <1>10, <1>11, <1>12, <1>13, <1>14 DEF SInv

\* A thread disposes of its job.
LEMMA DisposeJobKeeps ==
    ASSUME OneClient, JInv, JInv', SInv, NEW t \in Threads, DisposeJob(t)
    PROVE  SInv'
  <1> USE JobsAssumption, SnapshotAssumption DEF OneClient
  <1>1. /\ pc[t] = "dispose" /\ cur[t] \in Jobs /\ cur[t] # NULL /\ Live(cur[t])
        /\ Engine(t) \in Engines
    BY HeldHasEngine DEF DisposeJob, Dispose, JInv, IInv, CurOK, Busy
  <1>2. /\ dispose({cur[t]}) /\ Unref({cur[t]}) /\ cur' = [cur EXCEPT ![t] = NULL]
        /\ pc' = [pc EXCEPT ![t] = IF t \in Clients THEN "idle" ELSE "check"]
        /\ UNCHANGED <<queues, job_res, request, main, drained>>
        /\ UNCHANGED <<snap, gui, body, view, redraw, moves, failures, flushed, fault>>
    BY DEF DisposeJob, Dispose, Goto, queueVars, resVars, stopVars
  <1>3. /\ \A s \in Threads \ {t} : cur'[s] = cur[s] /\ pc'[s] = pc[s] /\ cur[s] # cur[t]
        /\ pc'[t] = IF t = GUI THEN "idle" ELSE "check"
        /\ cur'[t] = NULL
    BY <1>1, <1>2 DEF JInv, IInv, TypeOK, OwnInv, DistinctOK
  <1>4. Released({cur[t]})
    <2>1. \A j \in Jobs : state'[j] = IF j \in {cur[t]} THEN "DISPOSED" ELSE state[j]
      BY <1>2 DEF dispose
    <2>2. ASSUME NEW e \in Engines, engine[e].job \in {cur[t]}, ~engine[e].destroying
          PROVE  engine[e].job \in flushed
      <3>1. Engine(t) = e
        BY <1>1, <2>2 DEF SInv, FieldOwn, Engine
      <3> QED
        BY <1>1, <2>2, <3>1 DEF SInv, PastOK, Past
    <2> QED
      BY <1>1, <1>2, <1>3, <2>1, <2>2 DEF Released
  <1>5. ThreadsOK'
    BY <1>1, <1>2, <1>3 DEF SInv, ThreadsOK, Threads
  <1>6. ShutdownOK'
    BY <1>1, <1>2, <1>3 DEF SInv, ShutdownOK, Up, Threads
  <1>7. {cur[t]} \in SUBSET Jobs /\ \A j \in {cur[t]} : Live(j)
    BY <1>1
  <1> QED
    BY <1>2, <1>4, <1>5, <1>6, <1>7, ReleaseFrame

\* The drain disposes of the jobs it has detached.
LEMMA DrainJobsKeeps ==
    ASSUME OneClient, JInv, JInv', SInv, DrainJobs
    PROVE  SInv'
  <1> USE JobsAssumption, SnapshotAssumption DEF OneClient
  <1>1. /\ dispose(doomed) /\ Unref(doomed) /\ drained' = drained \cup doomed
        /\ UNCHANGED <<queues, job_res, pc, cur, request>>
        /\ \/ main = "dispose" /\ main' = "cleanup"
           \/ main = "disposeAgain" /\ main' = "done"
        /\ UNCHANGED <<snap, gui, body, view, redraw, moves, failures, flushed, fault>>
    BY DEF DrainJobs, DrainDispose, queueVars, resVars, threadVars
  <1>2. doomed \in SUBSET Jobs /\ \A j \in doomed : Live(j) /\ ~Held(j)
    BY DEF JInv, IInv, TypeOK, OwnInv, PlacesOK
  <1>3. Released(doomed)
    <2>1. \A s \in Threads : cur[s] \notin doomed
      BY <1>2 DEF Held
    <2>2. \A j \in Jobs : state'[j] = IF j \in doomed THEN "DISPOSED" ELSE state[j]
      BY <1>1 DEF dispose
    <2> QED
      BY <1>1, <2>1, <2>2 DEF Released
  <1>4. ThreadsOK'
    BY <1>1 DEF SInv, ThreadsOK
  <1>5. ShutdownOK'
    BY <1>1 DEF SInv, ShutdownOK, Up
  <1> QED
    BY <1>1, <1>2, <1>3, <1>4, <1>5, ReleaseFrame

----------------------------------------------------------------------------
(* The GUI thread *)

\* What a step of the GUI thread that leaves the jobs alone must show: no engine gets
\* or loses its job, none is revived, and a clear that has reached its cancel knows a
\* job of its engine.
GuiMoves ==
    /\ \A e \in Engines : /\ engine'[e].job = engine[e].job
                          /\ engine[e].destroying => engine'[e].destroying
    /\ gui'.pc = "cancel" /\ Live(gui'.job) => params[gui'.job] = gui'.engine

\* It keeps the rest.
LEMMA GuiFrame ==
    ASSUME JInv, SInv, UNCHANGED vars, UNCHANGED <<params, body, flushed>>,
           SnapTypeOK', fault' # "engine", ShutdownOK', RefsOK', GuiOK', EnginesOK', CaughtOK',
           GuiMoves
    PROVE  SInv'
  <1>1. UNCHANGED <<state, queues, job_res, pc, cur, request, main, drained>>
    BY VarsUnchanged
  <1>2. ThreadsOK' /\ QueuedOK' /\ ParamsOK' /\ BodyOK'
    <2>1. ThreadsOK' /\ BodyOK'
      BY <1>1 DEF SInv, ThreadsOK, BodyOK
    <2>2. QueuedOK' /\ ParamsOK'
      BY <1>1 DEF SInv, QueuedOK, ParamsOK, Queued, Live
    <2> QED
      BY <2>1, <2>2
  <1>3. \A t \in Threads : Engine(t)' = Engine(t)
    BY <1>1 DEF Engine
  <1>4. \A t \in Threads : Past(t) \/ body[t].pc # "none" => Engine(t) \in Engines
    <2>1. \A t \in Threads : Past(t) \/ body[t].pc # "none" => cur[t] # NULL
      BY JobsAssumption DEF SInv, BodyOK, Past, JInv, IInv, CurOK, Busy, Holding
    <2> QED
      BY <2>1, HeldHasEngine
  <1>5. FieldHeld'
    BY <1>1, <1>3, <1>4 DEF SInv, FieldHeld, BodyAt, GuiMoves
  <1>6. FieldOwn'
    BY <1>1 DEF SInv, FieldOwn, GuiMoves, Live
  <1>7. CancelledOK'
    <2>1. \A j \in Jobs : state[j] = "CANCELLED" => params[j] \in Engines
      BY DEF SInv, SnapTypeOK, ParamsOK, Live
    <2> QED
      BY <1>1, <2>1 DEF SInv, CancelledOK, GuiMoves
  <1>8. PastOK'
    <2> SUFFICES ASSUME NEW t \in Threads, Past(t)', (engine[Engine(t)].job = cur[t])'
                 PROVE  (engine[Engine(t)].destroying \/ cur[t] \in flushed)'
      BY DEF PastOK
    <2>1. Past(t) /\ Engine(t) \in Engines
      BY <1>1, <1>4 DEF Past
    <2> QED
      BY <1>1, <1>3, <2>1 DEF SInv, PastOK, GuiMoves
  <1>9. FieldOK'
    BY <1>1 DEF SInv, FieldOK, GuiMoves, Live
  <1> QED
    BY <1>2, <1>5, <1>6, <1>7, <1>8, <1>9 DEF SInv

\* A step outside of the critical part of a clear does not let a job escape.
LEMMA CaughtKept ==
    ASSUME OneClient, JInv, SInv, UNCHANGED vars, UNCHANGED <<params, body>>,
           gui.pc \notin {"readjob", "cancel"},
           \A e \in Engines : /\ engine'[e].job = engine[e].job
                              /\ engine'[e].destroying = engine[e].destroying
    PROVE  CaughtOK'
  <1>1. UNCHANGED <<state, cur>>
    BY VarsUnchanged
  <1>2. \A t \in Threads : body[t].pc = "lock" => Engine(t) \in Engines
    BY BodyHolds
  <1>3. \A t \in Threads : Engine(t)' = Engine(t)
    BY <1>1 DEF Engine
  <1> QED
    BY <1>1, <1>2, <1>3 DEF SInv, CaughtOK, BodyAt

\* The locals of the GUI thread have their types.
GuiRecords == [pc : {"idle", "clear", "capture", "readjob", "cancel", "unref", "schedule", "create"},
               engine : Engines \cup {NULL}, job : Jobs \cup {NULL}, capture : BOOLEAN]

\* Types of a step of the GUI thread.
LEMMA GuiTypes ==
    ASSUME JInv', SInv, UNCHANGED <<params, body, flushed, fault>>,
           engine' \in [Engines -> EngineRecords], snap' \in Engines \cup {NULL},
           gui' \in GuiRecords, view' \in Views, redraw' \in BOOLEAN, moves' \in 0..MaxMoves,
           failures' \in 0..MaxFailures
    PROVE  SnapTypeOK' /\ fault' # "engine"
  BY DEF JInv, IInv, SInv, SnapTypeOK, EngineRecords, GuiRecords

\* The types such a step starts from.
LEMMA GuiTypesBefore ==
    ASSUME SInv
    PROVE  /\ engine \in [Engines -> EngineRecords] /\ snap \in Engines \cup {NULL}
           /\ gui \in GuiRecords /\ view \in Views /\ redraw \in BOOLEAN /\ moves \in 0..MaxMoves
           /\ failures \in 0..MaxFailures
  BY DEF SInv, SnapTypeOK, EngineRecords, GuiRecords

\* The step leaves the engines alone, too, and the GUI thread owns none but the snapshot's.
LEMMA GuiOnly ==
    ASSUME OneClient, JInv, JInv', SInv, UNCHANGED vars, UNCHANGED <<engine, params, snap, body, flushed, fault>>,
           gui.pc \notin {"readjob", "cancel", "unref"}, gui'.engine = NULL,
           gui'.pc \notin {"readjob", "cancel", "unref"},
           gui' \in GuiRecords, view' \in Views, redraw' \in BOOLEAN, moves' \in 0..MaxMoves,
           failures' \in 0..MaxFailures, ShutdownOK', GuiOK',
           gui'.capture => \E e \in Engines : engine[e] = NoEngine
    PROVE  SInv'
  <1> USE GuiTypesBefore
  <1>1. gui.engine = NULL
    BY DEF SInv, GuiOK
  <1>2. SnapTypeOK' /\ fault' # "engine"
    BY GuiTypes
  <1>3. RefsOK'
    BY <1>1 DEF SInv, RefsOK, Users, Owned
  <1>4. EnginesOK'
    BY DEF SInv, EnginesOK
  <1>5. CaughtOK'
    BY CaughtKept
  <1>6. GuiMoves
    BY DEF GuiMoves
  <1> QED
    BY <1>2, <1>3, <1>4, <1>5, <1>6, GuiFrame

\* Panning, zooming, beginning a capture, and drawing.
LEMMA GuiCallKeeps ==
    ASSUME OneClient, JInv, JInv', SInv, Move \/ Capture \/ Draw
    PROVE  SInv'
  <1> USE GuiTypesBefore, SnapshotAssumption DEF OneClient
  <1>1. /\ gui.pc = "idle" /\ main \in {"up", "quit"}
        /\ UNCHANGED vars /\ UNCHANGED <<engine, params, snap, body, flushed, fault>>
    BY DEF Move, Capture, Draw, GuiAt, Up
  <1>2. gui.engine = NULL /\ ~gui.capture
    BY <1>1 DEF SInv, GuiOK
  <1>3. view' \in Views /\ redraw' \in BOOLEAN /\ moves' \in 0..MaxMoves
        /\ failures' \in 0..MaxFailures
    <2>1. CASE Move
      <3>1. moves < MaxMoves /\ moves' = moves + 1
        BY <2>1 DEF Move
      <3>2. view' \in Views /\ redraw' = TRUE /\ failures' = failures
        BY <2>1 DEF Move
      <3> QED
        BY <3>1, <3>2
    <2>2. CASE Capture \/ Draw
      BY <2>2 DEF Capture, Draw
    <2> QED
      BY <2>1, <2>2
  <1>4. /\ gui' \in GuiRecords /\ gui'.engine = NULL
        /\ \/ gui'.pc = "idle" /\ ~gui'.capture
           \/ gui'.pc = "schedule" /\ snap # NULL /\ ~gui'.capture
           \/ gui'.pc = "capture" /\ snap = NULL /\ gui'.capture /\ Capture
           \/ gui'.pc = "clear" /\ snap # NULL /\ gui'.capture /\ Capture
    <2>1. CASE Move
      BY <1>1, <1>2, <2>1 DEF Move
    <2>2. CASE Capture
      BY <2>2 DEF Capture, GuiIdle, GuiRecords
    <2>3. CASE Draw
      BY <1>1, <1>2, <2>3 DEF Draw, GuiRecords
    <2> QED
      BY <2>1, <2>2, <2>3
  <1>5. ShutdownOK'
    <2>1. main' = main
      BY <1>1, VarsUnchanged
    <2> QED
      BY <1>1, <2>1 DEF ShutdownOK, Up
  <1>6. GuiOK'
    BY <1>1, <1>4 DEF GuiOK
  <1>7. gui'.capture => \E e \in Engines : engine[e] = NoEngine
    BY <1>4 DEF Capture
  <1> QED
    BY <1>1, <1>3, <1>4, <1>5, <1>6, <1>7, GuiOnly

\* A capture publishes a new engine, or gives it up.
LEMMA CaptureRenderKeeps ==
    ASSUME OneClient, JInv, JInv', SInv, CaptureRender
    PROVE  SInv'
  <1> USE GuiTypesBefore, SnapshotAssumption DEF OneClient
  <1> DEFINE new == CHOOSE e \in Engines : engine[e] = NoEngine
             fresh == [NoEngine EXCEPT !.refs = 1, !.last = view, !.backbuf = view]
  <1>1. /\ gui.pc = "capture" /\ UNCHANGED vars
        /\ UNCHANGED <<params, body, view, moves, flushed, fault>> /\ gui' = GuiIdle
    BY DEF CaptureRender, GuiAt
  <1>2. gui.capture /\ snap = NULL /\ gui.engine = NULL
    BY <1>1 DEF SInv, GuiOK
  <1>3. main \in {"up", "quit"} /\ main' = main
    BY <1>1, VarsUnchanged DEF SInv, ShutdownOK, Up
  <1>4. new \in Engines /\ engine[new] = NoEngine
    BY <1>2 DEF SInv, EnginesOK
  <1>5. gui' \in GuiRecords /\ gui'.pc = "idle" /\ gui'.engine = NULL /\ ~gui'.capture
    BY <1>1 DEF GuiIdle, GuiRecords
  <1>6. ShutdownOK' /\ GuiOK'
    <2>1. ShutdownOK'
      BY <1>3 DEF ShutdownOK, Up
    <2>2. GuiOK'
      BY <1>5 DEF GuiOK
    <2> QED
      BY <2>1, <2>2
  <1>7. CASE UNCHANGED <<engine, snap, redraw>> /\ failures < MaxFailures /\ failures' = failures + 1
    BY <1>1, <1>5, <1>6, <1>7, GuiOnly
  <1>8. CASE /\ engine' = [engine EXCEPT ![new] = fresh] /\ snap' = new /\ redraw' = TRUE
             /\ failures' = failures
    <2>1. /\ fresh \in EngineRecords /\ fresh.refs = 1 /\ fresh.job = NULL /\ fresh.destroying = FALSE
          /\ NoEngine.job = NULL /\ NoEngine.destroying = FALSE
      BY DEF NoEngine, EngineRecords
    <2> HIDE DEF new, fresh
    <2>2. \A e \in Engines : engine'[e] = IF e = new THEN fresh ELSE engine[e]
      BY <1>8
    <2>3. engine' \in [Engines -> EngineRecords]
      BY <1>8, <2>1
    <2>4. SnapTypeOK' /\ fault' # "engine"
      BY <1>1, <1>4, <1>5, <1>8, <2>3, GuiTypes
    <2>5. \A e \in Engines : /\ engine'[e].job = engine[e].job
                             /\ engine'[e].destroying = engine[e].destroying
      BY <1>4, <2>1, <2>2
    <2>6. RefsOK'
      <3>1. Users(new) = {}
        BY <1>4, UsedIsAllocated
      <3>2. Cardinality(Users(new)) = 0
        BY <1>4, <3>1, UsersFinite
      <3> SUFFICES ASSUME NEW e \in Engines
                   PROVE  engine'[e].refs = Cardinality(Users(e)') + Owned(e)'
        BY DEF RefsOK
      <3>3. Users(e)' = Users(e)
        BY <1>1 DEF Users
      <3>4. Owned(e)' = IF e = new THEN 1 ELSE 0
        BY <1>5, <1>8 DEF Owned
      <3>5. Owned(e) = 0
        BY <1>2 DEF Owned
      <3>6. engine[e].refs = Cardinality(Users(e)) + 0 /\ Cardinality(Users(e)) \in Nat
        BY <3>5, UsersFinite DEF SInv, RefsOK
      <3>7. CASE e = new
        BY <2>1, <2>2, <3>2, <3>3, <3>4, <3>7
      <3>8. CASE e # new
        BY <2>2, <3>3, <3>4, <3>6, <3>8
      <3> QED
        BY <3>7, <3>8
    <2>7. EnginesOK'
      BY <1>4, <1>5, <1>8, <2>1, <2>2 DEF EnginesOK
    <2>8. CaughtOK'
      BY <1>1, <2>5, CaughtKept
    <2>9. GuiMoves
      BY <1>5, <2>5 DEF GuiMoves
    <2> QED
      BY <1>1, <1>6, <2>4, <2>6, <2>7, <2>8, <2>9, GuiFrame
  <1> QED
    BY <1>7, <1>8 DEF CaptureRender

\* A clear takes the engine out of the snapshot and marks it.
LEMMA ClearBeginKeeps ==
    ASSUME OneClient, JInv, JInv', SInv, CaptureClear \/ SnapClear
    PROVE  SInv'
  <1> USE GuiTypesBefore, SnapshotAssumption DEF OneClient
  <1>1. /\ gui.pc \in {"clear", "idle"} /\ snap # NULL /\ UNCHANGED vars
        /\ UNCHANGED <<params, body, view, redraw, moves, failures, flushed, fault>>
        /\ snap' = NULL /\ engine' = [engine EXCEPT ![snap].destroying = TRUE]
    BY DEF CaptureClear, SnapClear, ClearBegin, GuiAt, SInv, GuiOK
  <1>2. /\ gui'.pc = "readjob" /\ gui'.engine = snap /\ gui' \in GuiRecords
        /\ gui'.capture => gui.capture
    <2>1. CASE CaptureClear
      BY <2>1 DEF CaptureClear, ClearBegin, GuiAt, SInv, GuiOK, GuiRecords
    <2>2. CASE SnapClear
      BY <2>2 DEF SnapClear, ClearBegin, GuiRecords
    <2> QED
      BY <2>1, <2>2
  <1>3. snap \in Engines /\ engine[snap] # NoEngine /\ gui.engine = NULL
    BY <1>1, OwnedIsAllocated DEF SInv, GuiOK
  <1> DEFINE marked == [engine[snap] EXCEPT !.destroying = TRUE]
  <1>13. /\ marked \in EngineRecords /\ marked.destroying = TRUE
         /\ marked.refs = engine[snap].refs /\ marked.job = engine[snap].job
    <2>1. engine[snap] \in EngineRecords
      BY <1>3
    <2> QED
      BY <2>1 DEF EngineRecords
  <1>14. engine' = [engine EXCEPT ![snap] = marked]
    BY <1>1, <1>3
  <1> HIDE DEF marked
  <1>4. engine' \in [Engines -> EngineRecords]
    BY <1>3, <1>13, <1>14
  <1>5. \A e \in Engines : /\ engine'[e].refs = engine[e].refs /\ engine'[e].job = engine[e].job
                           /\ e = snap => engine'[e].destroying = TRUE
                           /\ e # snap => engine'[e] = engine[e]
    BY <1>3, <1>13, <1>14
  <1>6. SnapTypeOK' /\ fault' # "engine"
    BY <1>1, <1>2, <1>4, GuiTypes
  <1>7. ShutdownOK'
    <2>1. main' = main /\ pc' = pc /\ queues' = queues
      BY <1>1, VarsUnchanged
    <2>2. CASE CaptureClear
      <3>1. main \in {"up", "quit"}
        BY <2>2 DEF CaptureClear, GuiAt, SInv, ShutdownOK, Up
      <3> QED
        BY <2>1, <3>1 DEF ShutdownOK, Up
    <2>3. CASE SnapClear
      <3>1. main \in {"up", "quit", "cleanup"} /\ pc[GUI] = "idle" /\ gui'.capture = FALSE
        BY <2>3 DEF SnapClear, ClearBegin, GuiAt, Up, GuiRecords
      <3> QED
        BY <1>1, <1>2, <2>1, <3>1 DEF ShutdownOK, Up
    <2> QED
      BY <2>2, <2>3
  <1>8. RefsOK'
    <2>1. \A e \in Engines : Owned(e)' = Owned(e) /\ Users(e)' = Users(e)
      BY <1>1, <1>2, <1>3 DEF Owned, Users
    <2> QED
      BY <1>5, <2>1 DEF SInv, RefsOK
  <1>9. GuiOK'
    BY <1>1, <1>2, <1>3 DEF GuiOK
  <1>10. EnginesOK'
    <2>1. gui'.capture => \E e \in Engines : engine'[e] = NoEngine
      BY <1>2, <1>3, <1>5 DEF SInv, EnginesOK
    <2> QED
      BY <1>1, <1>2, <1>3, <1>5, <2>1 DEF EnginesOK
  <1>11. CaughtOK'
    <2> SUFFICES ASSUME NEW t \in Threads, BodyAt(t, "lock")',
                        (engine[Engine(t)].destroying)', (engine[Engine(t)].job = cur[t])'
                 PROVE  (\/ state[cur[t]] = "CANCELLED"
                         \/ /\ gui.engine = Engine(t)
                            /\ gui.pc = "readjob" \/ (gui.pc = "cancel" /\ gui.job = cur[t]))'
      BY DEF CaughtOK
    <2>1. body[t].pc = "lock" /\ Engine(t)' = Engine(t) /\ state' = state /\ cur' = cur
      BY <1>1, VarsUnchanged DEF BodyAt, Engine
    <2>2. Engine(t) \in Engines
      BY <2>1, BodyHolds
    <2>3. CASE Engine(t) = snap
      BY <1>2, <2>1, <2>3
    <2>4. CASE Engine(t) # snap
      <3>1. engine[Engine(t)].destroying /\ engine[Engine(t)].job = cur[t]
        BY <1>5, <2>1, <2>2, <2>4
      <3> QED
        BY <1>3, <2>1, <2>2, <3>1 DEF SInv, CaughtOK, BodyAt
    <2> QED
      BY <2>3, <2>4
  <1>12. GuiMoves
    BY <1>2, <1>5 DEF GuiMoves
  <1> QED
    BY <1>1, <1>6, <1>7, <1>8, <1>9, <1>10, <1>11, <1>12, GuiFrame

\* It reads the job that the engine remembers ...
LEMMA ClearReadKeeps ==
    ASSUME OneClient, JInv, JInv', SInv, ClearRead
    PROVE  SInv'
  <1> USE GuiTypesBefore, SnapshotAssumption DEF OneClient
  <1> DEFINE found == engine[gui.engine].job
  <1>1. /\ gui.pc = "readjob" /\ UNCHANGED vars
        /\ UNCHANGED <<engine, params, snap, body, view, redraw, moves, failures, flushed, fault>>
        /\ gui' = [gui EXCEPT !.job = found, !.pc = IF found = NULL THEN "unref" ELSE "cancel"]
    BY DEF ClearRead, GuiAt
  <1>2. gui.engine \in Engines /\ gui.engine # NULL /\ snap = NULL
    BY <1>1, OwnedIsAllocated DEF SInv, GuiOK
  <1>3. found \in Jobs \cup {NULL}
    BY <1>2 DEF EngineRecords
  <1> HIDE DEF found
  <1>4. /\ gui' \in GuiRecords /\ gui'.engine = gui.engine /\ gui'.capture = gui.capture
        /\ gui'.pc = IF found = NULL THEN "unref" ELSE "cancel"
        /\ gui'.job = found
    BY <1>1, <1>3 DEF GuiRecords
  <1>5. SnapTypeOK' /\ fault' # "engine"
    BY <1>1, <1>4, GuiTypes
  <1>6. ShutdownOK'
    <2>1. main' = main /\ pc' = pc /\ queues' = queues
      BY <1>1, VarsUnchanged
    <2> QED
      BY <1>1, <1>4, <2>1 DEF SInv, ShutdownOK, Up
  <1>7. RefsOK' /\ EnginesOK'
    BY <1>1, <1>4 DEF SInv, RefsOK, EnginesOK, Owned, Users
  <1>8. GuiOK'
    BY <1>1, <1>2, <1>4 DEF SInv, GuiOK
  <1>9. CaughtOK'
    <2>1. UNCHANGED <<state, cur>>
      BY <1>1, VarsUnchanged
    <2>2. \A t \in Threads : body[t].pc = "lock" => cur[t] # NULL
      BY BodyHolds
    <2>3. \A t \in Threads : Engine(t)' = Engine(t)
      BY <1>1, <2>1 DEF Engine
    <2> QED
      BY <1>1, <1>4, <2>1, <2>2, <2>3 DEF SInv, CaughtOK, BodyAt, found
  <1>10. GuiMoves
    BY <1>1, <1>2, <1>4 DEF GuiMoves, SInv, FieldOwn, found
  <1> QED
    BY <1>1, <1>5, <1>6, <1>7, <1>8, <1>9, <1>10, GuiFrame

\* ... and gives up its reference at last.
LEMMA ClearUnrefKeeps ==
    ASSUME OneClient, JInv, JInv', SInv, ClearUnref
    PROVE  SInv'
  <1> USE GuiTypesBefore, SnapshotAssumption DEF OneClient
  <1>1. /\ gui.pc = "unref" /\ UNCHANGED vars
        /\ UNCHANGED <<params, snap, body, view, redraw, moves, failures, flushed, fault>>
        /\ engine' = [engine EXCEPT ![gui.engine].refs = @ - 1]
        /\ gui' = [GuiIdle EXCEPT !.pc = IF gui.capture THEN "capture" ELSE "idle",
                                  !.capture = gui.capture]
    BY DEF ClearUnref, GuiAt
  <1>2. /\ gui.engine \in Engines /\ gui.engine # NULL /\ snap = NULL
        /\ engine[gui.engine] # NoEngine
    BY <1>1, OwnedIsAllocated DEF SInv, GuiOK
  <1>3. /\ gui' \in GuiRecords /\ gui'.engine = NULL /\ gui'.capture = gui.capture
        /\ gui'.pc = IF gui.capture THEN "capture" ELSE "idle"
    BY <1>1 DEF GuiRecords, GuiIdle
  <1>4. ASSUME NEW e \in Engines
        PROVE  /\ engine[e].refs - 1 = Cardinality(Users(e)) + Owned(e) - 1
               /\ Cardinality(Users(e)) \in Nat
               /\ e = gui.engine => Owned(e) = 1
               /\ e # gui.engine => Owned(e) = 0
    BY <1>2, UsersFinite DEF SInv, RefsOK, Owned
  <1>5. engine[gui.engine].refs - 1 \in Nat
    <2>1. /\ engine[gui.engine].refs - 1 = Cardinality(Users(gui.engine)) + Owned(gui.engine) - 1
          /\ Cardinality(Users(gui.engine)) \in Nat /\ Owned(gui.engine) = 1
      BY <1>2, <1>4
    <2> HIDE DEF Users, Owned
    <2> QED
      BY <2>1
  <1>6. engine' \in [Engines -> EngineRecords]
    BY <1>1, <1>2, <1>5 DEF EngineRecords
  <1>7. \A e \in Engines : /\ engine'[e].job = engine[e].job
                           /\ engine'[e].destroying = engine[e].destroying
                           /\ e # gui.engine => engine'[e] = engine[e]
    BY <1>1, <1>2 DEF EngineRecords
  <1>8. SnapTypeOK' /\ fault' # "engine"
    BY <1>1, <1>3, <1>6, GuiTypes
  <1>9. ShutdownOK'
    <2>1. main' = main /\ pc' = pc /\ queues' = queues
      BY <1>1, VarsUnchanged
    <2> QED
      BY <1>1, <1>3, <2>1 DEF SInv, ShutdownOK, Up
  <1>10. RefsOK'
    <2> SUFFICES ASSUME NEW e \in Engines
                 PROVE  engine'[e].refs = Cardinality(Users(e)') + Owned(e)'
      BY DEF RefsOK
    <2>1. Users(e)' = Users(e) /\ Owned(e)' = 0
      BY <1>1, <1>2, <1>3 DEF Users, Owned
    <2>2. engine[e].refs = Cardinality(Users(e)) + Owned(e)
      BY DEF SInv, RefsOK
    <2>3. engine'[e].refs = IF e = gui.engine THEN engine[e].refs - 1 ELSE engine[e].refs
      BY <1>1, <1>2 DEF EngineRecords
    <2>4. CASE e = gui.engine
      <3>1. engine'[e].refs = engine[e].refs - 1 /\ Owned(e) = 1 /\ Cardinality(Users(e)) \in Nat
        BY <1>4, <2>3, <2>4
      <3> HIDE DEF Users, Owned
      <3> QED
        BY <2>1, <2>2, <3>1
    <2>5. CASE e # gui.engine
      BY <1>4, <2>1, <2>2, <2>3, <2>5
    <2> QED
      BY <2>4, <2>5
  <1>11. GuiOK'
    BY <1>1, <1>2, <1>3 DEF GuiOK
  <1>12. EnginesOK'
    <2>1. gui.capture => \E e \in Engines : engine'[e] = NoEngine
      BY <1>2, <1>7 DEF SInv, EnginesOK
    <2> QED
      BY <1>1, <1>2, <1>3, <2>1 DEF EnginesOK
  <1>13. CaughtOK'
    BY <1>1, <1>7, CaughtKept
  <1>14. GuiMoves
    BY <1>3, <1>7 DEF GuiMoves
  <1> QED
    BY <1>1, <1>8, <1>9, <1>10, <1>11, <1>12, <1>13, <1>14, GuiFrame

\* _schedule_main_recompute() looks at the field and notes the region.
LEMMA ScheduleCheckKeeps ==
    ASSUME OneClient, JInv, JInv', SInv, ScheduleCheck
    PROVE  SInv'
  <1> USE GuiTypesBefore, SnapshotAssumption DEF OneClient
  <1>1. /\ gui.pc = "schedule" /\ UNCHANGED vars
        /\ UNCHANGED <<params, snap, body, view, redraw, moves, failures, flushed, fault>>
        /\ \/ gui' = GuiIdle /\ engine' = engine
           \/ /\ engine[snap].job = NULL /\ gui' = [gui EXCEPT !.pc = "create"]
              /\ engine' = [engine EXCEPT ![snap].pending = view]
    BY DEF ScheduleCheck, GuiAt, JobActive
  <1>2. /\ snap \in Engines /\ snap # NULL /\ engine[snap] # NoEngine
        /\ gui.engine = NULL /\ ~gui.capture
    BY <1>1, OwnedIsAllocated DEF SInv, GuiOK
  <1>3. main \in {"up", "quit"} /\ main' = main
    BY <1>1, VarsUnchanged DEF SInv, ShutdownOK, Up
  <1>4. /\ gui' \in GuiRecords /\ gui'.engine = NULL /\ ~gui'.capture
        /\ gui'.pc \in {"idle", "create"} /\ (gui'.pc = "create" => engine[snap].job = NULL)
    <2>1. CASE gui' = GuiIdle
      BY <2>1 DEF GuiRecords, GuiIdle
    <2>2. CASE gui' = [gui EXCEPT !.pc = "create"] /\ engine[snap].job = NULL
      <3>1. /\ gui' \in GuiRecords /\ gui'.engine = gui.engine /\ gui'.capture = gui.capture
            /\ gui'.pc = "create"
        BY <2>2 DEF GuiRecords
      <3> QED
        BY <1>2, <2>2, <3>1
    <2> QED
      BY <1>1, <2>1, <2>2
  <1>5. engine' \in [Engines -> EngineRecords]
    BY <1>1, <1>2 DEF EngineRecords
  <1>6. \A e \in Engines : /\ engine'[e].refs = engine[e].refs /\ engine'[e].job = engine[e].job
                           /\ engine'[e].destroying = engine[e].destroying
    BY <1>1, <1>2 DEF EngineRecords
  <1>7. SnapTypeOK' /\ fault' # "engine"
    BY <1>1, <1>4, <1>5, GuiTypes
  <1>8. ShutdownOK' /\ GuiOK'
    <2>1. ShutdownOK'
      BY <1>3 DEF ShutdownOK, Up
    <2>2. GuiOK'
      BY <1>1, <1>2, <1>4, <1>6 DEF GuiOK
    <2> QED
      BY <2>1, <2>2
  <1>9. RefsOK'
    <2>1. \A e \in Engines : Owned(e)' = Owned(e) /\ Users(e)' = Users(e)
      BY <1>1, <1>2, <1>4 DEF Owned, Users
    <2> QED
      BY <1>6, <2>1 DEF SInv, RefsOK
  <1>10. EnginesOK'
    BY <1>1, <1>2, <1>4, <1>6 DEF SInv, EnginesOK
  <1>11. CaughtOK'
    BY <1>1, <1>6, CaughtKept
  <1>12. GuiMoves
    BY <1>4, <1>6 DEF GuiMoves
  <1> QED
    BY <1>1, <1>7, <1>8, <1>9, <1>10, <1>11, <1>12, GuiFrame

----------------------------------------------------------------------------
(* Cancelling *)

\* What a step that cancels a set of jobs must show: the set is flushed, or its engines
\* are being destroyed.
Cancelled(S) ==
    /\ \A j \in Jobs : state'[j] = IF j \in S THEN "CANCELLED" ELSE state[j]
    /\ \A j \in S : Live(j) /\ (j \in flushed' \/ engine[params[j]].destroying)
    /\ flushed \subseteq flushed'
    /\ gui'.engine = gui.engine /\ gui'.capture = gui.capture
    /\ gui'.pc = "cancel" => gui' = gui

\* It keeps the rest.
LEMMA CancelFrame ==
    ASSUME OneClient, JInv, JInv', SInv, NEW S \in SUBSET Jobs, Cancelled(S),
           UNCHANGED <<queues, job_res, pc, cur, request, main, drained>>,
           UNCHANGED <<engine, params, snap, body>>,
           SnapTypeOK', fault' # "engine", ShutdownOK', GuiOK', CaughtOK'
    PROVE  SInv'
  <1> USE JobsAssumption, SnapshotAssumption DEF OneClient
  <1>1. \A j \in Jobs : /\ Live(j)' <=> Live(j)
                        /\ state[j] # "UNBORN" => state'[j] # "UNBORN"
    BY DEF Cancelled, Live
  <1>2. ThreadsOK' /\ BodyOK'
    BY DEF SInv, ThreadsOK, BodyOK
  <1>3. QueuedOK'
    <2>1. \A j \in Jobs : Queued(j)' <=> Queued(j)
      BY DEF Queued
    <2>2. \A t \in Threads : pc[t] = "test" => cur[t] \in Jobs
      BY DEF JInv, IInv, CurOK, Busy, Holding
    <2> QED
      BY <2>1, <2>2 DEF SInv, QueuedOK, Cancelled
  <1>4. ParamsOK'
    BY <1>1 DEF SInv, ParamsOK
  <1>5. RefsOK' /\ EnginesOK'
    BY DEF SInv, RefsOK, EnginesOK, Users, Owned, Cancelled
  <1>6. FieldHeld'
    BY DEF SInv, FieldHeld, BodyAt, Engine
  <1>7. FieldOwn'
    <2>1. \A e \in Engines : engine[e].job \in Jobs \cup {NULL}
      BY DEF SInv, SnapTypeOK
    <2>2. gui.pc = "cancel" => gui.job \in Jobs
      BY DEF SInv, SnapTypeOK, GuiOK
    <2>3. \A e \in Engines : engine[e].job # NULL =>
             /\ state'[engine[e].job] # "UNBORN"
             /\ Live(engine[e].job)' => params[engine[e].job] = e
      BY <1>1, <2>1 DEF SInv, FieldOwn
    <2>4. gui'.pc = "cancel" /\ Live(gui.job)' => params[gui'.job] = gui'.engine
      BY <1>1, <2>2 DEF SInv, FieldOwn, Cancelled
    <2> QED
      BY <2>3, <2>4 DEF FieldOwn, Live
  <1>8. CancelledOK'
    BY DEF SInv, CancelledOK, Cancelled
  <1>9. PastOK'
    BY DEF SInv, PastOK, Past, Engine, Cancelled
  <1>10. FieldOK'
    <2>1. \A e \in Engines : engine[e].job \in Jobs \cup {NULL}
      BY DEF SInv, SnapTypeOK
    <2>2. \A e \in Engines : engine[e].job # NULL /\ ~engine[e].destroying =>
             Live(engine[e].job)' \/ engine[e].job \in flushed' \cup drained
      BY <1>1, <2>1 DEF SInv, FieldOK, Cancelled
    <2> QED
      BY <2>2 DEF FieldOK, Live
  <1> QED
    BY <1>2, <1>3, <1>4, <1>5, <1>6, <1>7, <1>8, <1>9, <1>10 DEF SInv

\* A clear cancels the job it has read, which is one of its engine or has been freed.
LEMMA ClearCancelKeeps ==
    ASSUME OneClient, JInv, JInv', SInv, ClearCancel
    PROVE  SInv'
  <1> USE GuiTypesBefore, JobsAssumption, SnapshotAssumption DEF OneClient
  <1>1. /\ gui.pc = "cancel" /\ gui' = [gui EXCEPT !.pc = "unref", !.job = NULL]
        /\ UNCHANGED <<engine, params, snap, body, view, redraw, moves, failures, flushed>>
    BY DEF ClearCancel, GuiAt
  <1>2. /\ gui' \in GuiRecords /\ gui'.pc = "unref" /\ gui'.engine = gui.engine
        /\ gui'.capture = gui.capture /\ gui'.job = NULL
    BY <1>1 DEF GuiRecords
  <1>3. gui.job \in Jobs /\ gui.engine \in Engines /\ gui.engine # NULL /\ snap = NULL
    BY <1>1, OwnedIsAllocated DEF SInv, GuiOK, GuiRecords
  <1>4. engine[gui.engine].destroying
    BY <1>3 DEF SInv, EnginesOK
  <1> DEFINE S == {gui.job} \cap {j \in Jobs : Live(j)}
  <1>5. /\ UNCHANGED <<queues, job_res, pc, cur, request, main, drained>>
        /\ \A j \in Jobs : state'[j] = IF j \in S THEN "CANCELLED" ELSE state[j]
        /\ fault' \in {fault, "job"}
    <2>1. CASE CancelJob(gui.job) /\ UNCHANGED fault
      BY <1>3, <2>1 DEF CancelJob, set_state, queueVars, resVars, threadVars, stopVars, JInv, IInv,
                        TypeOK
    <2>2. CASE ~Live(gui.job) /\ fault' = "job" /\ UNCHANGED vars
      BY <2>2, VarsUnchanged
    <2> QED
      BY <2>1, <2>2 DEF ClearCancel
  <1>6. \A j \in S : Live(j) /\ engine[params[j]].destroying
    BY <1>1, <1>4 DEF SInv, FieldOwn
  <1>7. SnapTypeOK' /\ fault' # "engine"
    BY <1>1, <1>2, <1>5 DEF JInv, IInv, SInv, SnapTypeOK, GuiRecords
  <1>8. ShutdownOK'
    BY <1>1, <1>2, <1>5 DEF SInv, ShutdownOK, Up
  <1>9. GuiOK'
    BY <1>1, <1>2, <1>3 DEF SInv, GuiOK
  <1>10. CaughtOK'
    <2> SUFFICES ASSUME NEW t \in Threads, BodyAt(t, "lock")',
                        (engine[Engine(t)].destroying)', (engine[Engine(t)].job = cur[t])'
                 PROVE  state'[cur'[t]] = "CANCELLED"
      BY DEF CaughtOK
    <2>1. body[t].pc = "lock" /\ Engine(t)' = Engine(t) /\ cur' = cur
      BY <1>1, <1>5 DEF BodyAt, Engine
    <2>2. cur[t] \in Jobs /\ Live(cur[t])
      BY <2>1, BodyHolds
    <2>3. state[cur[t]] = "CANCELLED" \/ gui.job = cur[t]
      BY <1>1, <2>1 DEF SInv, CaughtOK, BodyAt
    <2> QED
      BY <1>5, <2>1, <2>2, <2>3
  <1>11. Cancelled(S)
    BY <1>1, <1>2, <1>5, <1>6 DEF Cancelled
  <1>12. S \in SUBSET Jobs
    OBVIOUS
  <1> HIDE DEF S
  <1> QED
    BY <1>1, <1>5, <1>7, <1>8, <1>9, <1>10, <1>11, <1>12, CancelFrame

\* Entering the darkroom cancels what the workers have scheduled.
LEMMA FlushingKeeps ==
    ASSUME OneClient, JInv, JInv', SInv, Flushing
    PROVE  SInv'
  <1> USE JobsAssumption, SnapshotAssumption DEF OneClient
  <1> DEFINE hit == {job[w] : w \in Workers} \ {NULL}
  <1>1. \A w \in Workers : job[w] # NULL => job[w] = cur[w] /\ job[w] \in Jobs
    BY DEF JInv, IInv, HeldOK, TypeOK
  <1>2. \A j \in hit : j \in Jobs /\ Live(j)
    <2>1. \A w \in Workers : job[w] # NULL => Live(cur[w])
      BY <1>1, HeldHasEngine DEF Threads
    <2> QED
      BY <1>1, <2>1
  <1>3. /\ state' = [j \in Jobs |-> IF j \in hit THEN "CANCELLED" ELSE state[j]]
        /\ flushed' = flushed \cup hit
        /\ UNCHANGED <<queues, job_res, pc, cur, request, main, drained>>
        /\ UNCHANGED <<engine, params, snap, gui, body, view, redraw, moves, failures, fault>>
    BY DEF Flushing, EnterDarkroom, Flush, queueVars, resVars, threadVars, stopVars
  <1>4. hit \in SUBSET Jobs
    BY <1>2
  <1> HIDE DEF hit
  <1>5. SnapTypeOK' /\ fault' # "engine"
    BY <1>3, <1>4 DEF JInv, IInv, SInv, SnapTypeOK
  <1>6. ShutdownOK' /\ GuiOK'
    BY <1>3 DEF SInv, ShutdownOK, GuiOK, Up
  <1>7. Cancelled(hit)
    BY <1>2, <1>3 DEF Cancelled
  <1>8. CaughtOK'
    <2> SUFFICES ASSUME NEW t \in Threads, BodyAt(t, "lock")',
                        (engine[Engine(t)].destroying)', (engine[Engine(t)].job = cur[t])'
                 PROVE  (\/ state[cur[t]] = "CANCELLED"
                         \/ /\ gui.engine = Engine(t)
                            /\ gui.pc = "readjob" \/ (gui.pc = "cancel" /\ gui.job = cur[t]))'
      BY DEF CaughtOK
    <2>1. body[t].pc = "lock" /\ Engine(t)' = Engine(t) /\ cur' = cur
      BY <1>3 DEF BodyAt, Engine
    <2>2. cur[t] \in Jobs
      BY <2>1, BodyHolds
    <2>3. state[cur[t]] = "CANCELLED" => state'[cur[t]] = "CANCELLED"
      BY <2>2, <1>3
    <2> QED
      BY <1>3, <2>1, <2>3 DEF SInv, CaughtOK, BodyAt
  <1> QED
    BY <1>3, <1>4, <1>5, <1>6, <1>7, <1>8, CancelFrame

----------------------------------------------------------------------------
(* Scheduling *)

\* A new job gets its reference and is remembered by the engine.
LEMMA ScheduleJobKeeps ==
    ASSUME OneClient, JInv, JInv', SInv, ScheduleJob
    PROVE  SInv'
  <1> USE GuiTypesBefore, JobsAssumption, SnapshotAssumption DEF OneClient
  <1>1. /\ gui.pc = "create" /\ pc[GUI] = "idle" /\ gui' = GuiIdle
        /\ engine' = [engine EXCEPT ![snap].refs = @ + 1, ![snap].job = cur'[GUI]]
        /\ params' = [params EXCEPT ![cur'[GUI]] = snap]
        /\ UNCHANGED <<snap, body, view, redraw, moves, failures, flushed, fault>>
    BY DEF ScheduleJob, GuiAt, JobRefs
  <1>2. PICK j \in Jobs : /\ state[j] = "UNBORN" /\ state' = [state EXCEPT ![j] = "INITIALIZED"]
                          /\ cur' = [cur EXCEPT ![GUI] = j]
                          /\ request' = [request EXCEPT ![GUI] = DT_JOB_QUEUE_USER_FG]
                          /\ \/ pc' = [pc EXCEPT ![GUI] = "add"]
                             \/ pc' = [pc EXCEPT ![GUI] = "syncstart"]
                          /\ UNCHANGED <<queues, job_res, main, drained>>
    <2>1. PICK j \in Jobs, q \in Requests :
             /\ state[j] = "UNBORN" /\ state' = [state EXCEPT ![j] = "INITIALIZED"]
             /\ cur' = [cur EXCEPT ![GUI] = j]
             /\ request' = [request EXCEPT ![GUI] = q]
             /\ Goto(GUI, CASE q \notin Queues -> "dispose"
                            [] q \in Queues /\ running -> "add"
                            [] OTHER -> "syncstart")
             /\ UNCHANGED <<queueVars, resVars, stopVars>>
      BY DEF ScheduleJob, AddJob
    <2>2. q = DT_JOB_QUEUE_USER_FG /\ q \in Queues
      BY QueueNumbers DEF DT_JOB_QUEUE_USER_FG
    <2>3. \/ pc' = [pc EXCEPT ![GUI] = "add"]
          \/ pc' = [pc EXCEPT ![GUI] = "syncstart"]
      BY <2>1, <2>2 DEF Goto
    <2>4. UNCHANGED <<queues, job_res, main, drained>>
      BY <2>1 DEF queueVars, resVars, stopVars
    <2> QED
      BY <2>1, <2>2, <2>3, <2>4
  <1>3. GUI \in Threads
    BY DEF Threads
  <1>4. /\ \A t \in Threads \ {GUI} : cur'[t] = cur[t] /\ pc'[t] = pc[t]
        /\ cur'[GUI] = j /\ pc'[GUI] \in {"add", "syncstart"}
        /\ request'[GUI] = DT_JOB_QUEUE_USER_FG
    BY <1>2, <1>3 DEF JInv, IInv, TypeOK
  <1>5. /\ ~Live(j) /\ state'[j] = "INITIALIZED" /\ \A i \in Jobs \ {j} : state'[i] = state[i]
        /\ \A i \in Jobs : Live(i)' <=> Live(i) \/ i = j
    BY <1>2 DEF Live, JInv, IInv, TypeOK
  <1>6. /\ snap \in Engines /\ snap # NULL /\ gui.engine = NULL
        /\ engine[snap].job = NULL /\ ~engine[snap].destroying
    BY <1>1, OwnedIsAllocated DEF SInv, GuiOK, EnginesOK
  <1>7. /\ params[j] = NULL /\ params'[j] = snap /\ \A i \in Jobs \ {j} : params'[i] = params[i]
        /\ params' \in [Jobs -> Engines \cup {NULL}]
    BY <1>1, <1>4, <1>5, <1>6 DEF SInv, ParamsOK, SnapTypeOK
  <1> DEFINE busy == [engine[snap] EXCEPT !.refs = @ + 1, !.job = j]
  <1>8. /\ busy \in EngineRecords /\ busy.job = j /\ ~busy.destroying
        /\ busy.refs = engine[snap].refs + 1
    <2>1. engine[snap] \in EngineRecords
      BY <1>6
    <2>2. busy \in EngineRecords
      <3> DEFINE n == engine[snap].refs + 1
                 old == engine[snap]
      <3>1. n \in Nat /\ old \in EngineRecords
        BY <2>1 DEF EngineRecords
      <3>2. busy = [old EXCEPT !.refs = n, !.job = j]
        OBVIOUS
      <3> HIDE DEF n, old, busy
      <3> QED
        BY <3>1, <3>2 DEF EngineRecords
    <2>3. busy.job = j /\ busy.refs = engine[snap].refs + 1
      BY <2>1 DEF EngineRecords
    <2>4. busy.destroying = engine[snap].destroying
      BY <2>1 DEF EngineRecords
    <2> QED
      BY <1>6, <2>2, <2>3, <2>4
  <1>9. engine' = [engine EXCEPT ![snap] = busy]
    BY <1>1, <1>4, <1>6
  <1> HIDE DEF busy
  <1>10. /\ engine' \in [Engines -> EngineRecords]
         /\ engine'[snap].job = j /\ engine'[snap].refs = engine[snap].refs + 1
         /\ ~engine'[snap].destroying
         /\ \A e \in Engines \ {snap} : engine'[e] = engine[e]
    BY <1>6, <1>8, <1>9
  <1>11. /\ gui' \in GuiRecords /\ gui'.pc = "idle" /\ gui'.engine = NULL /\ ~gui'.capture
    BY <1>1 DEF GuiIdle, GuiRecords
  <1>12. SnapTypeOK' /\ fault' # "engine"
    BY <1>1, <1>7, <1>10, <1>11 DEF JInv, IInv, SInv, SnapTypeOK, GuiRecords, EngineRecords
  <1>13. ThreadsOK'
    <2>1. GUI \notin Workers /\ GUI \notin Reserved
      OBVIOUS
    <2> QED
      BY <1>2, <1>4, <2>1 DEF SInv, ThreadsOK, Threads
  <1>14. ShutdownOK'
    <2>1. Up
      BY <1>1 DEF SInv, ShutdownOK
    <2> QED
      BY <1>2, <2>1 DEF ShutdownOK, Up
  <1>15. ASSUME NEW t \in Threads, t # GUI, cur[t] # NULL
         PROVE  /\ cur[t] \in Jobs /\ cur[t] # j /\ cur'[t] = cur[t] /\ pc'[t] = pc[t]
                /\ Engine(t)' = Engine(t) /\ Engine(t) \in Engines
    <2>1. cur[t] \in Jobs /\ Live(cur[t]) /\ Engine(t) \in Engines
      BY <1>15, HeldHasEngine
    <2> QED
      BY <1>4, <1>5, <1>7, <1>15, <2>1 DEF Engine
  <1>16. \A t \in Threads : body[t].pc # "none" \/ pc'[t] \in {"test", "clear", "dispose"} =>
            t # GUI /\ cur[t] # NULL
    <2>1. body[GUI].pc = "none"
      BY <1>1, <1>3 DEF SInv, BodyOK
    <2>2. \A t \in Threads : body[t].pc # "none" \/ pc[t] \in {"test", "clear", "dispose"} =>
             cur[t] # NULL
      BY DEF SInv, BodyOK, JInv, IInv, CurOK, Busy, Holding
    <2> QED
      BY <1>4, <2>1, <2>2
  <1>17. QueuedOK'
    <2>1. \A i \in Jobs : Queued(i)' => Queued(i) /\ Live(i)
      BY <1>2 DEF Queued, JInv, OwnInv, PlacesOK
    <2>2. \A i \in Jobs : Queued(i)' => state'[i] \in {"QUEUED", "CANCELLED"}
      BY <1>5, <2>1 DEF SInv, QueuedOK
    <2>3. \A t \in Threads : pc'[t] = "test" => state'[cur'[t]] \in {"QUEUED", "CANCELLED"}
      BY <1>5, <1>15, <1>16 DEF SInv, QueuedOK
    <2> QED
      BY <2>2, <2>3 DEF QueuedOK
  <1>18. ParamsOK'
    <2>1. {i \in Jobs : params'[i] # NULL} = {i \in Jobs : params[i] # NULL} \cup {j}
      BY <1>6, <1>7
    <2>2. IsFiniteSet({i \in Jobs : params'[i] # NULL})
      BY <2>1, FS_AddElement DEF SInv, ParamsOK
    <2>3. \A i \in Jobs : params'[i] # NULL <=> Live(i)'
      BY <1>5, <1>6, <1>7 DEF SInv, ParamsOK
    <2> QED
      BY <2>2, <2>3 DEF ParamsOK
  <1>19. RefsOK'
    <2> SUFFICES ASSUME NEW e \in Engines
                 PROVE  engine'[e].refs = Cardinality(Users(e)') + Owned(e)'
      BY DEF RefsOK
    <2>1. Owned(e)' = Owned(e) /\ Owned(e) \in {0, 1}
      BY <1>1, <1>6, <1>11 DEF Owned
    <2>2. engine[e].refs = Cardinality(Users(e)) + Owned(e) /\ Cardinality(Users(e)) \in Nat
      BY UsersFinite DEF SInv, RefsOK
    <2>3. CASE e = snap
      <3>1. Users(e)' = Users(e) \cup {j} /\ j \notin Users(e)
        BY <1>6, <1>7, <2>3 DEF Users
      <3>2. Cardinality(Users(e)') = Cardinality(Users(e)) + 1
        BY <3>1, UsersFinite, FS_AddElement
      <3>3. engine'[e].refs = engine[e].refs + 1
        BY <1>10, <2>3
      <3> HIDE DEF Users, Owned
      <3> QED
        BY <2>1, <2>2, <3>2, <3>3
    <2>4. CASE e # snap
      <3>1. Users(e)' = Users(e)
        BY <1>7, <2>4 DEF Users
      <3>2. engine'[e].refs = engine[e].refs
        BY <1>10, <2>4
      <3> QED
        BY <2>1, <2>2, <3>1, <3>2
    <2> QED
      BY <2>3, <2>4
  <1>20. GuiOK' /\ EnginesOK'
    BY <1>1, <1>10, <1>11 DEF GuiOK, EnginesOK
  <1>21. BodyOK'
    BY <1>1, <1>4 DEF SInv, BodyOK
  <1>22. ASSUME NEW t \in Threads, cur[t] # NULL, t # GUI
         PROVE  engine'[Engine(t)].job = cur[t] <=> engine[Engine(t)].job = cur[t] /\ Engine(t) # snap
    BY <1>6, <1>10, <1>15, <1>22
  <1>23. FieldHeld'
    <2> SUFFICES ASSUME NEW t \in Threads, body[t].pc \in {"process", "publish"}
                 PROVE  engine'[Engine(t)'].job = cur'[t]
      BY <1>1 DEF FieldHeld, BodyAt
    <2>1. t # GUI /\ cur[t] # NULL
      BY <1>16
    <2>2. engine[Engine(t)].job = cur[t]
      BY DEF SInv, FieldHeld, BodyAt
    <2> QED
      BY <1>6, <1>15, <1>22, <2>1, <2>2
  <1>24. FieldOwn'
    <2>1. \A e \in Engines : engine[e].job \in Jobs \cup {NULL}
      BY DEF SInv, SnapTypeOK
    <2>2. ASSUME NEW e \in Engines, engine'[e].job # NULL
          PROVE  /\ state'[engine'[e].job] # "UNBORN"
                 /\ Live(engine[e].job)' => params'[engine'[e].job] = e
      <3>1. CASE e = snap
        BY <1>5, <1>7, <1>10, <3>1
      <3>2. CASE e # snap
        <4>1. engine'[e] = engine[e] /\ engine[e].job \in Jobs /\ state[engine[e].job] # "UNBORN"
          BY <1>10, <2>1, <2>2, <3>2 DEF SInv, FieldOwn
        <4> QED
          BY <1>2, <1>5, <1>7, <2>2, <4>1 DEF SInv, FieldOwn
      <3> QED
        BY <3>1, <3>2
    <2> QED
      BY <1>11, <2>2 DEF FieldOwn
  <1>25. CancelledOK'
    <2> SUFFICES ASSUME NEW i \in Jobs, state'[i] = "CANCELLED"
                 PROVE  i \in flushed \/ engine'[params'[i]].destroying
      BY <1>1 DEF CancelledOK
    <2>1. i # j /\ state[i] = "CANCELLED" /\ params'[i] = params[i]
      BY <1>5, <1>7
    <2>2. params[i] \in Engines
      BY <2>1 DEF SInv, SnapTypeOK, ParamsOK, Live
    <2> QED
      BY <1>6, <1>10, <2>1, <2>2 DEF SInv, CancelledOK
  <1>26. PastOK'
    <2> SUFFICES ASSUME NEW t \in Threads, Past(t)', (engine[Engine(t)].job = cur[t])'
                 PROVE  engine'[Engine(t)'].destroying \/ cur'[t] \in flushed
      BY <1>1 DEF PastOK
    <2>1. t # GUI /\ cur[t] # NULL
      BY <1>1, <1>16 DEF Past
    <2>2. Past(t)
      BY <1>1, <1>15, <2>1 DEF Past
    <2>3. engine[Engine(t)].job = cur[t] /\ Engine(t) # snap
      BY <1>15, <1>22, <2>1
    <2> QED
      BY <1>10, <1>15, <2>1, <2>2, <2>3 DEF SInv, PastOK
  <1>27. FieldOK'
    <2>1. \A e \in Engines : engine[e].job \in Jobs \cup {NULL}
      BY DEF SInv, SnapTypeOK
    <2>2. ASSUME NEW e \in Engines, engine'[e].job # NULL, ~engine'[e].destroying
          PROVE  Live(engine[e].job)' \/ engine'[e].job \in flushed \cup drained
      <3>1. CASE e = snap
        BY <1>5, <1>10, <3>1
      <3>2. CASE e # snap
        BY <1>5, <1>10, <2>1, <2>2, <3>2 DEF SInv, FieldOK
      <3> QED
        BY <3>1, <3>2
    <2> QED
      BY <1>1, <1>2, <2>2 DEF FieldOK
  <1>28. CaughtOK'
    <2> SUFFICES ASSUME NEW t \in Threads, BodyAt(t, "lock")',
                        (engine[Engine(t)].destroying)', (engine[Engine(t)].job = cur[t])'
                 PROVE  state'[cur'[t]] = "CANCELLED"
      BY DEF CaughtOK
    <2>1. body[t].pc = "lock" /\ t # GUI /\ cur[t] # NULL
      BY <1>1, <1>16 DEF BodyAt
    <2>2. engine[Engine(t)].job = cur[t] /\ Engine(t) # snap
      BY <1>15, <1>22, <2>1
    <2>3. engine[Engine(t)].destroying
      BY <1>10, <1>15, <2>1, <2>2
    <2>4. state[cur[t]] = "CANCELLED"
      BY <1>1, <2>1, <2>2, <2>3 DEF SInv, CaughtOK, BodyAt
    <2> QED
      BY <1>5, <1>15, <2>1, <2>4
  <1> QED
    BY <1>12, <1>13, <1>14, <1>17, <1>18, <1>19, <1>20, <1>21, <1>23, <1>24, <1>25, <1>26, <1>27,
       <1>28 DEF SInv

----------------------------------------------------------------------------
(* The invariant *)

\* In the beginning there is neither a snapshot nor a job.
LEMMA InitSInv ==
  ASSUME OneClient
  PROVE  SnapInit => JInv /\ SInv
  <1> SUFFICES ASSUME SnapInit PROVE JInv /\ SInv
    OBVIOUS
  <1> USE JobsAssumption, SnapshotAssumption DEF OneClient
  <1>1. JInv
    BY InitIInv, InitOwn DEF JInv, SnapInit
  <1>2. /\ \A e \in Engines : engine[e] = NoEngine
        /\ \A j \in Jobs : params[j] = NULL /\ state[j] = "UNBORN"
        /\ snap = NULL /\ gui = GuiIdle /\ flushed = {} /\ fault = NULL /\ main = "up"
        /\ \A t \in Threads : body[t] = NoBody /\ pc[t] = IF t = GUI THEN "idle" ELSE "check"
        /\ cur = [t \in Threads |-> NULL] /\ request = [c \in Clients |-> 0]
        /\ job_res = [r \in Reserved |-> NULL]
    BY DEF SnapInit, Init
  <1>3. NoEngine.refs = 0 /\ NoEngine.job = NULL /\ NoEngine.destroying = FALSE
    BY DEF NoEngine
  <1>4. /\ gui.pc = "idle" /\ gui.engine = NULL /\ gui.job = NULL /\ ~gui.capture
        /\ gui \in GuiRecords
    BY <1>2 DEF GuiIdle, GuiRecords
  <1>5. SnapTypeOK /\ fault # "engine"
    <2>1. view \in Views
      BY DEF SnapInit
    <2>2. NoEngine \in EngineRecords
      BY DEF NoEngine, EngineRecords
    <2>3. NoBody \in BodyRecords
      BY DEF NoBody, BodyRecords
    <2>4. engine \in [Engines -> EngineRecords] /\ body \in [Threads -> BodyRecords]
          /\ params \in [Jobs -> Engines \cup {NULL}]
      BY <2>2, <2>3 DEF SnapInit
    <2>5. redraw \in BOOLEAN /\ moves \in 0..MaxMoves /\ failures \in 0..MaxFailures
      <3>1. redraw \in BOOLEAN
        BY DEF SnapInit
      <3>2. moves = 0 /\ failures = 0 /\ MaxMoves \in Nat /\ MaxFailures \in Nat
        BY DEF SnapInit
      <3>3. moves \in 0..MaxMoves /\ failures \in 0..MaxFailures
        BY <3>2
      <3> QED
        BY <3>1, <3>3
    <2>6. TypeOK /\ snap \in Engines \cup {NULL} /\ flushed \subseteq Jobs
          /\ fault \in {NULL, "engine", "job"} /\ fault # "engine"
      BY <1>1, <1>2 DEF JInv, IInv
    <2> QED
      BY <1>4, <2>1, <2>4, <2>5, <2>6 DEF SnapTypeOK, EngineRecords, BodyRecords, GuiRecords
  <1>6. ThreadsOK
    BY <1>2 DEF ThreadsOK, Threads, DT_JOB_QUEUE_USER_FG
  <1>7. ShutdownOK
    BY <1>2 DEF ShutdownOK, Up
  <1>8. QueuedOK
    <2>1. \A j \in Jobs : ~Live(j)
      BY <1>2 DEF Live
    <2>2. \A j \in Jobs : ~Queued(j)
      BY <1>1, <2>1 DEF JInv, OwnInv, PlacesOK
    <2> QED
      BY <1>2, <2>2 DEF QueuedOK
  <1>9. ParamsOK
    <2>1. {j \in Jobs : params[j] # NULL} = {}
      BY <1>2
    <2> QED
      BY <1>2, <2>1, FS_EmptySet DEF ParamsOK, Live
  <1>10. RefsOK
    <2>1. \A e \in Engines : Users(e) = {} /\ Owned(e) = 0
      BY <1>2, <1>4 DEF Users, Owned
    <2> QED
      BY <1>2, <1>3, <2>1, FS_EmptySet DEF RefsOK
  <1>11. GuiOK /\ EnginesOK
    BY <1>2, <1>4 DEF GuiOK, EnginesOK
  <1>12. BodyOK
    BY <1>2 DEF BodyOK, NoBody
  <1>13. FieldHeld /\ CaughtOK
    BY <1>2 DEF FieldHeld, CaughtOK, BodyAt, NoBody
  <1>14. FieldOwn /\ FieldOK
    BY <1>2, <1>3, <1>4 DEF FieldOwn, FieldOK
  <1>15. CancelledOK
    BY <1>2 DEF CancelledOK
  <1>16. PastOK
    BY <1>2 DEF PastOK, Past, NoBody
  <1> QED
    BY <1>1, <1>5, <1>6, <1>7, <1>8, <1>9, <1>10, <1>11, <1>12, <1>13, <1>14, <1>15, <1>16 DEF SInv

\* Every step keeps the invariant.
LEMMA NextSInv ==
  ASSUME OneClient
  PROVE  JInv /\ SInv /\ [SnapNext]_allVars => JInv' /\ SInv'
  <1> SUFFICES ASSUME JInv, SInv, [SnapNext]_allVars PROVE JInv' /\ SInv'
    OBVIOUS
  <1>1. JInv'
    BY JobsKept
  <1>2. CASE JobSystemStep
    BY <1>1, <1>2, JobSystemKeeps
  <1>3. ASSUME NEW t \in Threads, BodyStep(t) \/ DisposeJob(t)
        PROVE  SInv'
    <2>1. CASE BodyCall(t)
      BY <1>1, <2>1, BodyCallKeeps
    <2>2. CASE BodyEnter(t)
      BY <1>1, <2>2, BodyEnterKeeps
    <2>3. CASE BodyLock(t)
      BY <1>1, <2>3, BodyLockKeeps
    <2>4. CASE BodyProcess(t)
      BY <1>1, <2>4, BodyProcessKeeps
    <2>5. CASE BodyPublish(t)
      BY <1>1, <2>5, BodyPublishKeeps
    <2>6. CASE BodyRedraw(t)
      BY <1>1, <2>6, BodyRedrawKeeps
    <2>7. CASE BodyReturn(t)
      BY <1>1, <2>7, BodyReturnKeeps
    <2>8. CASE DisposeJob(t)
      BY <1>1, <2>8, DisposeJobKeeps
    <2> QED
      BY <1>3, <2>1, <2>2, <2>3, <2>4, <2>5, <2>6, <2>7, <2>8 DEF BodyStep
  <1>4. CASE DrainJobs
    BY <1>1, <1>4, DrainJobsKeeps
  <1>5. CASE GuiStep
    BY <1>1, <1>5, CaptureRenderKeeps, ClearBeginKeeps, ClearReadKeeps, ClearCancelKeeps,
       ClearUnrefKeeps, GuiCallKeeps, ScheduleCheckKeeps, ScheduleJobKeeps DEF GuiStep
  <1>6. CASE User
    BY <1>1, <1>6, GuiCallKeeps, FlushingKeeps, ClearBeginKeeps DEF User
  <1>7. CASE UNCHANGED allVars
    <2>1. /\ UNCHANGED <<state, queues, job_res, pc, cur, request, main, drained>>
          /\ UNCHANGED snapVars
      BY <1>7, VarsUnchanged DEF allVars
    <2>2. UNCHANGED <<snap, gui>>
      BY <2>1 DEF snapVars
    <2>3. Quiet
      BY <2>1 DEF Quiet, Live, Busy, Holding
    <2>4. ThreadsOK' /\ ShutdownOK' /\ QueuedOK'
      <3>1. ThreadsOK'
        BY <2>1 DEF SInv, ThreadsOK
      <3>2. ShutdownOK'
        BY <2>1, <2>2 DEF SInv, ShutdownOK, Up
      <3>3. QueuedOK'
        BY <2>1 DEF SInv, QueuedOK, Queued
      <3> QED
        BY <3>1, <3>2, <3>3
    <2> QED
      BY <1>1, <2>1, <2>3, <2>4, JobFrame
  <1> QED
    BY <1>1, <1>2, <1>3, <1>4, <1>5, <1>6, <1>7 DEF SnapNext

\* The inductive invariant of the snapshots on top of the job system.
THEOREM SnapInvariant ==
  ASSUME OneClient
  PROVE  SnapSpec => [](JInv /\ SInv)
  <1>1. SnapInit => JInv /\ SInv
    BY InitSInv
  <1>2. JInv /\ SInv /\ [SnapNext]_allVars => (JInv /\ SInv)'
    BY NextSInv
  <1> QED
    BY <1>1, <1>2, PTL DEF SnapSpec

----------------------------------------------------------------------------
(* What it shows *)

\* Every field and local variable of the snapshots keeps its type; in particular no
\* reference count of an engine ever falls below zero.
THEOREM SnapTypeCorrect ==
  ASSUME OneClient
  PROVE  SnapSpec => []SnapTypeOK
  <1>1. JInv /\ SInv => SnapTypeOK
    BY DEF SInv
  <1> QED
    BY <1>1, SnapInvariant, PTL

\* Recomputing, clearing and entering the darkroom leave the job system intact: each
\* job still has one owner, and none is lost silently, although the GUI thread cancels
\* jobs through the pointer that an engine remembers.
THEOREM SnapshotsKeepTheJobs ==
  ASSUME OneClient
  PROVE  SnapSpec => [](OneOwner /\ NoSilentLoss)
  <1>1. JInv /\ SInv => OneOwner /\ NoSilentLoss
    BY OwnersCounted DEF JInv, OneOwner, OwnInv, FateInv
  <1> QED
    BY <1>1, SnapInvariant, PTL

\* When the shutdown is over, every job has been disposed of.
LEMMA NobodyLeft ==
    ASSUME OneClient, JInv, SInv, main = "done"
    PROVE  snap = NULL /\ gui.engine = NULL /\ \A e \in Engines : Users(e) = {}
  <1> USE JobsAssumption, SnapshotAssumption DEF OneClient
  <1>1. /\ snap = NULL /\ gui.pc = "idle" /\ pc[GUI] = "idle"
        /\ \A q \in Queues : queues[q] = <<>>
    BY DEF SInv, ShutdownOK, Up
  <1>2. gui.engine = NULL
    BY <1>1 DEF SInv, GuiOK
  <1>3. \A j \in Jobs : ~Queued(j)
    BY <1>1 DEF Queued, ToSet
  <1>4. doomed = {}
    BY DEF JInv, OwnInv, DoomedOK
  <1>5. \A j \in Jobs : ~Slotted(j)
    BY DEF Slotted, SInv, ThreadsOK
  <1>6. \A j \in Jobs : ~Held(j)
    <2>1. \A t \in Threads : pc[t] \in {"idle", "exit", "check"}
      BY <1>1 DEF Threads, JInv, IInv, StoppedOK, SInv, ThreadsOK
    <2>2. \A t \in Threads : cur[t] = NULL
      BY <2>1 DEF JInv, OwnInv, EmptyHanded, Busy, Holding
    <2> QED
      BY <2>2 DEF Held
  <1>7. \A j \in Jobs : ~Live(j)
    BY <1>3, <1>4, <1>5, <1>6 DEF JInv, OwnInv, PlacesOK
  <1> QED
    BY <1>1, <1>2, <1>7 DEF SInv, ParamsOK, Users

\* "whichever happens last" frees the engine, for any number of engines, jobs and
\* workers: its count is that of its owners, so nobody touches it after it was freed,
\* and none is left when the program has shut down.
THEOREM EnginesFreedLast ==
  ASSUME OneClient
  PROVE  SnapSpec => []EngineFreedLast
  <1>1. ASSUME JInv, SInv PROVE EngineFreedLast
    <2> USE <1>1, JobsAssumption, SnapshotAssumption DEF OneClient
    <2>1. \A e \in Engines : {j \in Jobs : params[j] = e /\ Live(j)} = Users(e)
      BY DEF Users, SInv, ParamsOK
    <2>2. \A e \in Engines :
             engine[e].refs = Cardinality({j \in Jobs : params[j] = e /\ Live(j)})
                              + (IF e \in {snap, gui.engine} THEN 1 ELSE 0)
      BY <2>1 DEF SInv, RefsOK, Owned
    <2>3. ASSUME main = "done", NEW e \in Engines
          PROVE  ~Allocated(e)
      <3>1. Users(e) = {} /\ Owned(e) = 0
        BY <2>3, NobodyLeft DEF Owned
      <3>2. engine[e].refs = Cardinality(Users(e)) + Owned(e) /\ Cardinality(Users(e)) = 0
        BY <3>1, UsersFinite DEF SInv, RefsOK
      <3> QED
        BY <3>1, <3>2 DEF Allocated
    <2> QED
      BY <2>2, <2>3 DEF EngineFreedLast, SInv
  <1> QED
    BY <1>1, SnapInvariant, PTL

\* "never run two jobs concurrently on the same `pipe`": who processes the pipe of an
\* engine holds the one job that the engine remembers, and a job is in one hand.
THEOREM OneWriterPerPipe ==
  ASSUME OneClient
  PROVE  SnapSpec => []OneWriter
  <1>1. ASSUME JInv, SInv PROVE OneWriter
    <2> USE <1>1
    <2> SUFFICES ASSUME NEW s \in Threads, NEW t \in Threads, BodyAt(s, "process"),
                        BodyAt(t, "process"), Engine(s) = Engine(t)
                 PROVE  s = t
      BY DEF OneWriter
    <2>1. cur[s] = cur[t]
      BY DEF SInv, FieldHeld
    <2>2. cur[s] # NULL
      BY BodyHolds DEF BodyAt
    <2> QED
      BY <2>1, <2>2 DEF JInv, OwnInv, DistinctOK
  <1> QED
    BY <1>1, SnapInvariant, PTL

\* The job that the engine of a snapshot remembers can still be cancelled, unless
\* entering the darkroom or the shutdown has taken it away.
THEOREM RememberedJobLive ==
  ASSUME OneClient
  PROVE  SnapSpec => []JobFieldLive
  <1>1. ASSUME JInv, SInv PROVE JobFieldLive
    <2> USE <1>1
    <2>1. snap # NULL => snap \in Engines /\ ~engine[snap].destroying
      BY OwnedIsAllocated DEF SInv, EnginesOK
    <2> QED
      BY <2>1 DEF SInv, FieldOK, JobFieldLive
  <1> QED
    BY <1>1, SnapInvariant, PTL

\* Only the look at the engine under its lock lets a body process the pipe.
LEMMA OnlyLockProcesses ==
    ASSUME JInv, SInv, [SnapNext]_allVars, NEW t \in Threads, body[t].pc # "process",
           body'[t].pc = "process"
    PROVE  BodyLock(t)
  <1>1. \E s \in Threads : body'[t] # body[t] => BodyStep(s)
    BY DEF SnapNext, JobSystemStep, snapVars, DisposeJob, DrainJobs, GuiStep, CaptureRender,
           CaptureClear, ClearBegin, ClearRead, ClearCancel, ClearUnref, Draw, ScheduleCheck,
           ScheduleJob, User, Move, Capture, Flushing, SnapClear, allVars
  <1>2. PICK s \in Threads : BodyStep(s)
    BY <1>1
  <1>3. body \in [Threads -> BodyRecords]
    BY SnapTypes
  <1>4. CASE ~BodyLock(s)
    <2>1. CASE BodyReturn(s)
      BY <1>3, <2>1 DEF BodyReturn, NoBody
    <2>2. CASE ~BodyReturn(s)
      <3>1. \E at \in {"enter", "lock", "done", "publish", "redraw"} :
               \/ body' = [body EXCEPT ![s].pc = at]
               \/ body' = [body EXCEPT ![s].pc = at, ![s].ok = TRUE]
        BY <1>2, <1>4, <2>2 DEF BodyStep, BodyCall, BodyEnter, BodyProcess, BodyPublish,
                                BodyRedraw, BodyGoto
      <3> QED
        BY <1>3, <3>1 DEF BodyRecords
    <2> QED
      BY <2>1, <2>2
  <1>5. CASE BodyLock(s)
    <2>1. s = t
      BY <1>3, <1>5 DEF BodyLock
    <2> QED
      BY <1>5, <2>1
  <1> QED
    BY <1>4, <1>5

\* "A cancelled or superseded job must not touch the pipe": whatever the threads do
\* between the mark of the clear and its cancel, no job begins to process the pipe of a
\* snapshot whose clear has cancelled it.
THEOREM ClearedIsNotRendered ==
  ASSUME OneClient
  PROVE  SnapSpec => NoRenderAfterClear
  <1> DEFINE Kept == \A t \in Threads : ~BodyAt(t, "process") /\ BodyAt(t, "process")' =>
                \/ ~engine[Engine(t)].destroying
                \/ gui.engine = Engine(t) /\ gui.pc \in {"readjob", "cancel"}
  <1>1. JInv /\ SInv /\ [SnapNext]_allVars => [Kept]_allVars
    <2> SUFFICES ASSUME JInv, SInv, [SnapNext]_allVars, NEW t \in Threads,
                        ~BodyAt(t, "process"), BodyAt(t, "process")'
                 PROVE  \/ ~engine[Engine(t)].destroying
                        \/ gui.engine = Engine(t) /\ gui.pc \in {"readjob", "cancel"}
      OBVIOUS
    <2>1. BodyLock(t)
      BY OnlyLockProcesses DEF BodyAt
    <2>2. body \in [Threads -> BodyRecords]
      BY SnapTypes
    <2>3. ~Stale(t)
      BY <2>1, <2>2 DEF BodyLock, BodyAt
    <2> QED
      BY <2>1, <2>3 DEF BodyLock, SInv, CaughtOK, Stale
  <1>2. SnapSpec => [][Kept]_allVars
    <2> HIDE DEF Kept
    <2> QED
      BY <1>1, SnapInvariant, PTL DEF SnapSpec
  <1> QED
    BY <1>2 DEF NoRenderAfterClear
============================================================================
