--------------------------- MODULE CacheContract ---------------------------
(***************************************************************************)
(* What the cache of caches/cache.c promises the caches built on it: a     *)
(* table from keys to entries, each behind a read-write lock.  A caller    *)
(* gets the entry of its key locked, and an entry that nobody holds and    *)
(* nobody demotes may vanish at any time.  Which entries are collected,    *)
(* and when, is left open: DtCache, with its list and its costs, is one    *)
(* way to choose.                                                          *)
(***************************************************************************)
EXTENDS Naturals

CONSTANTS
    Threads,      \* the threads that use the cache
    Demoters,     \* those that demote a lock they hold to a read lock
    Keys,
    Entries,      \* bound: the entries that may ever be allocated
    HasAllocate,  \* cache->allocate is set
    NULL

ASSUME ContractAssumption ==
    /\ NULL \notin Entries /\ NULL \notin Threads /\ NULL \notin Keys
    /\ Demoters \subseteq Threads
    /\ HasAllocate \in BOOLEAN

VARIABLES
    hashtable,    \* Keys -> entry
    ekey,         \* entry->key
    demoting,     \* entry->_lock_demoting
    wr, rd,       \* entry->lock: the writing thread, the reading threads
    alive, born,  \* the entries that are allocated, and that ever were
    pc, ptr,      \* where each thread is, and its pointer to an entry
    closed        \* dt_cache_cleanup has run

tableVars == <<hashtable, ekey, alive, born>>
lockVars == <<wr, rd>>
callVars == <<pc, ptr>>
vars == <<tableVars, lockVars, callVars, demoting, closed>>

Init ==
    /\ hashtable = [k \in Keys |-> NULL]
    /\ ekey = [e \in Entries |-> NULL]
    /\ demoting = [e \in Entries |-> FALSE]
    /\ wr = [e \in Entries |-> NULL]
    /\ rd = [e \in Entries |-> {}]
    /\ alive = {}
    /\ born = {}
    /\ pc = [t \in Threads |-> "idle"]
    /\ ptr = [t \in Threads |-> NULL]
    /\ closed = FALSE

Lockable(e, mode) == wr[e] = NULL /\ (mode = "w" => rd[e] = {})

Lock(t, e, mode) ==
    /\ wr' = IF mode = "w" THEN [wr EXCEPT ![e] = t] ELSE wr
    /\ rd' = IF mode = "w" THEN rd ELSE [rd EXCEPT ![e] = @ \cup {t}]

Unlock(t, e) ==
    /\ wr' = IF wr[e] = t THEN [wr EXCEPT ![e] = NULL] ELSE wr
    /\ rd' = [rd EXCEPT ![e] = @ \ {t}]

Goto(t, label, e) ==
    /\ pc' = [pc EXCEPT ![t] = label]
    /\ ptr' = [ptr EXCEPT ![t] = e]

\* The entries that nobody uses.
Unused == {e \in alive : wr[e] = NULL /\ rd[e] = {} /\ ~demoting[e]}

Vanish(S) ==
    /\ hashtable' = [k \in Keys |-> IF hashtable[k] \in S THEN NULL ELSE hashtable[k]]
    /\ alive' = alive \ S

\* The entry of the key is there and its lock is granted.
Hit(t, k, mode) ==
    /\ hashtable[k] # NULL
    /\ Lockable(hashtable[k], mode)
    /\ Lock(t, hashtable[k], mode)
    /\ Goto(t, "hold", hashtable[k])
    /\ UNCHANGED tableVars

\* A new entry takes the place of some unused ones.
Insert(e, k) ==
    /\ \E S \in SUBSET Unused :
        /\ hashtable' = [[j \in Keys |-> IF hashtable[j] \in S THEN NULL ELSE hashtable[j]]
                            EXCEPT ![k] = e]
        /\ alive' = (alive \ S) \cup {e}
    /\ born' = born \cup {e}
    /\ ekey' = [ekey EXCEPT ![e] = k]

Miss(t, k, mode) ==
    /\ hashtable[k] = NULL
    /\ \E e \in Entries \ born :
        /\ Insert(e, k)
        /\ Lock(t, e, IF HasAllocate THEN "w" ELSE mode)
        /\ Goto(t, "hold", e)

Idle(t) == pc[t] = "idle" /\ ~closed

Get(t) ==
    /\ Idle(t)
    /\ \E k \in Keys, mode \in {"r", "w"} : Hit(t, k, mode) \/ Miss(t, k, mode)
    /\ UNCHANGED <<demoting, closed>>

Release(t) ==
    /\ pc[t] = "hold"
    /\ Unlock(t, ptr[t])
    /\ IF wr[ptr[t]] = t THEN Goto(t, "tail", ptr[t]) ELSE Goto(t, "idle", NULL)
    /\ UNCHANGED <<tableVars, demoting, closed>>

\* The last writes of the unlock, after the lock is free.
ReleaseTail(t) ==
    /\ pc[t] = "tail"
    /\ Goto(t, "idle", NULL)
    /\ UNCHANGED <<tableVars, lockVars, demoting, closed>>

Demote(t) ==
    /\ t \in Demoters
    /\ pc[t] = "hold"
    /\ demoting' = [demoting EXCEPT ![ptr[t]] = TRUE]
    /\ Unlock(t, ptr[t])
    /\ Goto(t, IF wr[ptr[t]] = t THEN "demoteTail" ELSE "demote", ptr[t])
    /\ UNCHANGED <<tableVars, closed>>

\* Thread t has given up its lock and relies on the flag of its entry.
Demotes(t) == pc[t] \in {"demoteTail", "demote"}

DemoteTail(t) ==
    /\ pc[t] = "demoteTail"
    /\ Goto(t, "demote", ptr[t])
    /\ UNCHANGED <<tableVars, lockVars, demoting, closed>>

DemoteGet(t) ==
    /\ pc[t] = "demote"
    /\ Hit(t, ekey[ptr[t]], "r") \/ Miss(t, ekey[ptr[t]], "r")
    /\ demoting' = [demoting EXCEPT ![ptr'[t]] = FALSE]
    /\ UNCHANGED closed

\* Some unused entries vanish: a removal, or a collection before a failed allocation.
Evict(t) ==
    /\ Idle(t)
    /\ \E S \in SUBSET Unused : Vanish(S)
    /\ UNCHANGED <<ekey, born, lockVars, callVars, demoting, closed>>

\* An entry appears that nobody holds.
Seed(t) ==
    /\ Idle(t)
    /\ \E k \in Keys, e \in Entries \ born : hashtable[k] = NULL /\ Insert(e, k)
    /\ UNCHANGED <<lockVars, callVars, demoting, closed>>

Cleanup ==
    /\ ~closed
    /\ \A t \in Threads : pc[t] = "idle"
    /\ closed' = TRUE
    /\ hashtable' = [k \in Keys |-> NULL]
    /\ alive' \in SUBSET alive
    /\ UNCHANGED <<ekey, born, lockVars, callVars, demoting>>

Next ==
    \/ \E t \in Threads :
        \/ Get(t) \/ Release(t) \/ ReleaseTail(t)
        \/ Demote(t) \/ DemoteTail(t) \/ DemoteGet(t)
        \/ Evict(t) \/ Seed(t)
    \/ Cleanup

Spec == Init /\ [][Next]_vars

----------------------------------------------------------------------------
(* Properties *)

\* Every variable has the type of the field or local variable it models.
TypeOK ==
    /\ hashtable \in [Keys -> Entries \cup {NULL}]
    /\ ekey \in [Entries -> Keys \cup {NULL}]
    /\ demoting \in [Entries -> BOOLEAN]
    /\ wr \in [Entries -> Threads \cup {NULL}]
    /\ rd \in [Entries -> SUBSET Threads]
    /\ alive \in SUBSET Entries
    /\ born \in SUBSET Entries
    /\ pc \in [Threads -> {"idle", "hold", "tail", "demoteTail", "demote"}]
    /\ ptr \in [Threads -> Entries \cup {NULL}]
    /\ closed \in BOOLEAN

\* What a thread holds is allocated, and the lock of each entry is held by exactly the
\* threads that were given it, alone if for writing.
HeldIsLocked ==
    /\ \A t \in Threads : pc[t] = "hold" => ptr[t] \in alive
    /\ \A e \in Entries :
        /\ \A t \in Threads : (t \in rd[e] \/ t = wr[e]) <=> (pc[t] = "hold" /\ ptr[t] = e)
        /\ wr[e] # NULL => rd[e] = {}

\* A key leads to an allocated entry that was made for that key.
TableSound ==
    \A k \in Keys : hashtable[k] # NULL => hashtable[k] \in alive /\ ekey[hashtable[k]] = k

\* The entry is allocated, and its flag keeps it from being deleted.
Protected(e) == e \in alive /\ demoting[e]

\* A demotion begins with its entry protected, and loses that protection only to the end of
\* another thread's demotion of the same entry: no deletion, no collection and no request
\* takes it.
DemotionProtected ==
    [][\A t \in Threads : Demotes(t)' =>
        \/ Protected(ptr[t])'
        \/ Demotes(t) /\ ~Protected(ptr[t])
        \/ \E u \in Threads \ {t} : Demotes(u) /\ ~Demotes(u)' /\ ptr'[u] = ptr[t]]_vars
============================================================================
