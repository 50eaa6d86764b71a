------------------------------ MODULE DtRwlock ------------------------------
(***************************************************************************)
(* The read-write lock of system/dtpthread.h: a pthread rwlock on which    *)
(* the thread that holds the write side may lock again, as a reader or as  *)
(* a writer, counted in writer_depth.                                      *)
(*                                                                         *)
(* One step is one access to the pthread lock or to a field that another   *)
(* thread may write meanwhile.  The increments and decrements of           *)
(* writer_depth are one step each: only the recorded writer makes them.    *)
(* The diagnostic fields of named locks (name, last_holder_tid,            *)
(* active_reader_count...) are left out.                                   *)
(***************************************************************************)
EXTENDS Naturals, Sequences, FiniteSets

CONSTANTS
    Threads,      \* the threads that use the lock
    Writers,      \* those that take it for writing
    MaxNesting,   \* bound: how many locks a thread holds at a time
    NULL          \* no thread (the writer field's 0)

ASSUME RwlockAssumption ==
    /\ NULL \notin Threads
    /\ Writers \subseteq Threads
    /\ MaxNesting \in Nat \ {0}

VARIABLES
    writer, writer_depth,  \* the fields of dt_pthread_rwlock_t
    wrHolder,              \* pthread: the thread that holds the write side
    rdHolds,               \* pthread: how often each thread holds the read side
    pc,                    \* where each thread is in a call
    owed                   \* the unlocks each thread owes: the modes it asked for, in order

vars == <<writer, writer_depth, wrHolder, rdHolds, pc, owed>>

\* dt_pthread_rwlock_init
Init ==
    /\ writer = NULL
    /\ writer_depth = 0
    /\ wrHolder = NULL
    /\ rdHolds = [t \in Threads |-> 0]
    /\ pc = [t \in Threads |-> "idle"]
    /\ owed = [t \in Threads |-> <<>>]

\* The calling thread is the recorded writer: the test every lock call starts with.
IsRecordedWriter(t) == writer = t /\ writer_depth >= 1

MayLock(t) == pc[t] = "idle" /\ Len(owed[t]) < MaxNesting

Owe(t, mode) == owed' = [owed EXCEPT ![t] = Append(@, mode)]

\* Mutant: locking again is not counted.
LockAgainUncounted(t) ==
    /\ MayLock(t)
    /\ IsRecordedWriter(t)
    /\ \E mode \in {"r", "w"} : Owe(t, mode)
    /\ UNCHANGED <<writer, writer_depth, wrHolder, rdHolds, pc>>

\* rdlock or wrlock by the recorded writer: one level deeper.
LockAgain(t) ==
    /\ MayLock(t)
    /\ IsRecordedWriter(t)
    /\ writer_depth' = writer_depth + 1
    /\ \E mode \in {"r", "w"} : Owe(t, mode)
    /\ UNCHANGED <<writer, wrHolder, rdHolds, pc>>

\* rdlock or tryrdlock by anyone else, once pthread grants it.  A thread that holds the
\* write side and is not recorded as the writer waits for itself.
RdLock(t) ==
    /\ MayLock(t)
    /\ ~IsRecordedWriter(t)
    /\ wrHolder = NULL
    /\ rdHolds' = [rdHolds EXCEPT ![t] = @ + 1]
    /\ Owe(t, "r")
    /\ UNCHANGED <<writer, writer_depth, wrHolder, pc>>

\* wrlock or trywrlock by anyone else, once pthread grants it.
WrLock(t) ==
    /\ t \in Writers
    /\ MayLock(t)
    /\ ~IsRecordedWriter(t)
    /\ owed[t] = <<>>                 \* callers do not upgrade a read lock
    /\ wrHolder = NULL
    /\ \A u \in Threads : rdHolds[u] = 0
    /\ wrHolder' = t
    /\ pc' = [pc EXCEPT ![t] = "setWriter"]
    /\ UNCHANGED <<writer, writer_depth, rdHolds, owed>>

SetWriter(t) ==
    /\ pc[t] = "setWriter"
    /\ writer' = t
    /\ pc' = [pc EXCEPT ![t] = "setDepth"]
    /\ UNCHANGED <<writer_depth, wrHolder, rdHolds, owed>>

SetDepth(t) ==
    /\ pc[t] = "setDepth"
    /\ writer_depth' = 1
    /\ Owe(t, "w")
    /\ pc' = [pc EXCEPT ![t] = "idle"]
    /\ UNCHANGED <<writer, wrHolder, rdHolds>>

MayUnlock(t) == pc[t] = "idle" /\ owed[t] # <<>>

Pay(t) == owed' = [owed EXCEPT ![t] = SubSeq(@, 1, Len(@) - 1)]

\* The unlock of an inner level.
IsNested(t) == writer = t /\ writer_depth > 1

UnlockInner(t) ==
    /\ MayUnlock(t)
    /\ IsNested(t)
    /\ writer_depth' = writer_depth - 1
    /\ Pay(t)
    /\ UNCHANGED <<writer, wrHolder, rdHolds, pc>>

\* The pthread unlock of the outermost level; the writer then clears its record.
\* Unlocking a pthread lock that the thread does not hold changes nothing here.
UnlockOuter(t) ==
    /\ MayUnlock(t)
    /\ ~IsNested(t)
    /\ wrHolder' = IF wrHolder = t THEN NULL ELSE wrHolder
    /\ rdHolds' = [rdHolds EXCEPT ![t] = IF @ > 0 THEN @ - 1 ELSE @]
    /\ pc' = [pc EXCEPT ![t] = IF writer = t THEN "zeroDepth" ELSE "idle"]
    /\ Pay(t)
    /\ UNCHANGED <<writer, writer_depth>>

ZeroDepth(t) ==
    /\ pc[t] = "zeroDepth"
    /\ writer_depth' = 0
    /\ pc' = [pc EXCEPT ![t] = "clearWriter"]
    /\ UNCHANGED <<writer, wrHolder, rdHolds, owed>>

\* __sync_bool_compare_and_swap(&writer, self, 0)
ClearWriter(t) ==
    /\ pc[t] = "clearWriter"
    /\ writer' = IF writer = t THEN NULL ELSE writer
    /\ pc' = [pc EXCEPT ![t] = "idle"]
    /\ UNCHANGED <<writer_depth, wrHolder, rdHolds, owed>>

Step(t) ==
    \/ LockAgain(t) \/ RdLock(t) \/ WrLock(t) \/ SetWriter(t) \/ SetDepth(t)
    \/ UnlockInner(t) \/ UnlockOuter(t) \/ ZeroDepth(t) \/ ClearWriter(t)

Next == \E t \in Threads : Step(t)

Spec == Init /\ [][Next]_vars

----------------------------------------------------------------------------
(* Properties *)

\* Every variable has the type of the field it models.
TypeOK ==
    /\ writer \in Threads \cup {NULL}
    /\ writer_depth \in Nat
    /\ wrHolder \in Threads \cup {NULL}
    /\ rdHolds \in [Threads -> Nat]
    /\ pc \in [Threads -> {"idle", "setWriter", "setDepth", "zeroDepth", "clearWriter"}]
    /\ owed \in [Threads -> Seq({"r", "w"})]

\* The thread's first lock is a write lock that it has not given back.
Writing(t) == owed[t] # <<>> /\ owed[t][1] = "w"

\* A thread that locked for writing first stays alone until its last unlock, however it
\* locked again in between ("letting that same thread re-enter (as reader or writer) is
\* safe", dtpthread.h).  Two writers violate it: the one that leaves clears writer_depth after
\* its pthread unlock (dtpthread.h:238), when it counts the levels of the next writer already.
Exclusion ==
    \A t, u \in Threads : t # u /\ Writing(t) => owed[u] = <<>>

\* Who holds the pthread lock and who owes an unlock are the same: no unlock is of a
\* lock the thread does not hold, and none is forgotten.
HoldsMatchOwed ==
    \A t \in Threads :
        /\ Writing(t) <=> (wrHolder = t /\ pc[t] = "idle")
        /\ ~Writing(t) => rdHolds[t] = Len(owed[t])
============================================================================
