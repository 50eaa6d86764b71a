------------------------------ MODULE DtCache ------------------------------
(***************************************************************************)
(* The concurrent LRU cache of caches/cache.c, under the image cache and   *)
(* the thumbnail caches, with the w -> r demotion that both of them build  *)
(* on it (image_cache.c, mipmap_cache.c).                                  *)
(*                                                                         *)
(* Everything a function does under cache->lock is one step.  Entry locks  *)
(* are only tried under that lock: a caller that does not get one gives    *)
(* the lock up and comes back, so its step waits.  The release of an entry *)
(* takes no cache lock, and the unlock of a writer touches the entry again *)
(* after the pthread unlock (dtpthread.h): two steps.  An entry is a model *)
(* value that is allocated once, so a pointer to a freed entry stays       *)
(* recognisable.                                                           *)
(***************************************************************************)
EXTENDS Naturals, Sequences, FiniteSets, SequencesExt, FiniteSetsExt

CONSTANTS
    Threads,      \* the threads that use the cache
    Demoters,     \* those that demote a lock they hold to a read lock
    Keys,
    Entries,      \* bound: the entries that may ever be allocated
    Costs,        \* bound: what allocate callbacks and seeds make of entry->cost
    cost_quota,
    HasAllocate,  \* cache->allocate is set
    NULL

ASSUME CacheAssumption ==
    /\ NULL \notin Entries /\ NULL \notin Threads /\ NULL \notin Keys
    /\ Demoters \subseteq Threads
    /\ Costs \subseteq Nat
    /\ cost_quota \in Nat
    /\ HasAllocate \in BOOLEAN

VARIABLES
    hashtable,    \* Keys -> entry
    lru,          \* the entries, least recently used first
    cost,
    ekey, ecost,  \* entry->key, entry->cost
    demoting,     \* entry->_lock_demoting
    wr, rd,       \* entry->lock: the writing thread, the reading threads
    alive, born,  \* the entries that are allocated, and that ever were
    pc, ptr,      \* where each thread is, and its pointer to an entry
    closed        \* dt_cache_cleanup has run

entryVars == <<ekey, ecost, born>>
tableVars == <<hashtable, lru, cost, alive>>
lockVars == <<wr, rd>>
vars == <<entryVars, tableVars, lockVars, demoting, pc, ptr, closed>>

\* dt_cache_init
Init ==
    /\ hashtable = [k \in Keys |-> NULL]
    /\ lru = <<>>
    /\ cost = 0
    /\ ekey = [e \in Entries |-> NULL]
    /\ ecost = [e \in Entries |-> 0]
    /\ demoting = [e \in Entries |-> FALSE]
    /\ wr = [e \in Entries |-> NULL]
    /\ rd = [e \in Entries |-> {}]
    /\ alive = {}
    /\ born = {}
    /\ pc = [t \in Threads |-> "idle"]
    /\ ptr = [t \in Threads |-> NULL]
    /\ closed = FALSE

----------------------------------------------------------------------------
(* Helpers *)

CostOf(S) == MapThenSumSet(LAMBDA e : ecost[e], S)

\* What the try-locks of dtpthread.h grant.
Free(e) == wr[e] = NULL /\ rd[e] = {}

Lockable(e, mode) == IF mode = "w" THEN Free(e) ELSE wr[e] = NULL

Lock(t, e, mode) ==
    /\ wr' = IF mode = "w" THEN [wr EXCEPT ![e] = t] ELSE wr
    /\ rd' = IF mode = "w" THEN rd ELSE [rd EXCEPT ![e] = @ \cup {t}]

Goto(t, label, e) ==
    /\ pc' = [pc EXCEPT ![t] = label]
    /\ ptr' = [ptr EXCEPT ![t] = e]

\* Mutant: an entry that somebody demotes counts as unused.
DeletableIgnoresDemotion(e) == Free(e)

\* Mutant: the collector takes readers for nobody.
DeletableIgnoresReaders(e) == wr[e] = NULL /\ ~demoting[e]

\* An entry that dt_cache_gc and dt_cache_remove may delete.
Deletable(e) == Free(e) /\ ~demoting[e]

\* Mutant: the collector walks the list from its most recently used end.
GcVictimsFromTail ==
    {e \in alive :
        LET newer == {lru[i] : i \in {i \in DOMAIN lru : \E k \in DOMAIN lru :
                                         k < i /\ lru[k] = e}}
        IN  /\ Deletable(e)
            /\ (cost - CostOf({f \in newer : Deletable(f)})) * 5 >= cost_quota * 4}

\* dt_cache_gc(cache, 0.8): it walks the list from its head and deletes what it can
\* until the cost is below 80 % of the quota.
GcVictims ==
    {e \in alive :
        LET older == {lru[i] : i \in {i \in DOMAIN lru : \E k \in DOMAIN lru :
                                         i < k /\ lru[k] = e}}
        IN  /\ Deletable(e)
            /\ (cost - CostOf({f \in older : Deletable(f)})) * 5 >= cost_quota * 4}

\* Before it allocates, a miss collects if the cost is above 80 % of the quota.
MissVictims == IF cost * 5 > cost_quota * 4 THEN GcVictims ELSE {}

\* The list, in its order, after g_list_delete_link() of the entries in S.
Without(S) == FoldLeft(LAMBDA kept, x : IF x \in S THEN kept ELSE Append(kept, x), <<>>, lru)

\* Mutant: what is deleted stays in the table.
TableWithoutNothing(S) == hashtable

TableWithout(S) == [k \in Keys |-> IF hashtable[k] \in S THEN NULL ELSE hashtable[k]]

----------------------------------------------------------------------------
(* dt_cache_get, dt_cache_testget *)

\* The entry is there and its lock is granted: it moves to the end of the list.
Hit(t, k, mode) ==
    LET e == hashtable[k]
    IN  /\ e # NULL
        /\ Lockable(e, mode)
        /\ Lock(t, e, mode)
        /\ lru' = Append(Without({e}), e)
        /\ Goto(t, "hold", e)
        /\ UNCHANGED <<hashtable, cost, alive, entryVars>>

\* Mutant: the cost of what was collected is not given back.
InsertKeepsCost(e, k, c) ==
    /\ hashtable' = [TableWithout(MissVictims) EXCEPT ![k] = e]
    /\ lru' = Append(Without(MissVictims), e)
    /\ cost' = cost + c
    /\ alive' = (alive \ MissVictims) \cup {e}
    /\ born' = born \cup {e}
    /\ ekey' = [ekey EXCEPT ![e] = k]
    /\ ecost' = [ecost EXCEPT ![e] = c]

\* A new entry, after the collection.
Insert(e, k, c) ==
    /\ hashtable' = [TableWithout(MissVictims) EXCEPT ![k] = e]
    /\ lru' = Append(Without(MissVictims), e)
    /\ cost' = (cost - CostOf(MissVictims)) + c
    /\ alive' = (alive \ MissVictims) \cup {e}
    /\ born' = born \cup {e}
    /\ ekey' = [ekey EXCEPT ![e] = k]
    /\ ecost' = [ecost EXCEPT ![e] = c]

\* The entry is not there: the caller gets a write lock if it asks for one or if there
\* is an allocate callback.
Miss(t, k, mode) ==
    /\ hashtable[k] = NULL
    /\ \E e \in Entries \ born, c \in IF HasAllocate THEN Costs ELSE {1} :
        /\ Insert(e, k, c)
        /\ Lock(t, e, IF HasAllocate THEN "w" ELSE mode)
        /\ Goto(t, "hold", e)

\* The allocation fails after the collection: the caller gets NULL.
MissFails(k) ==
    /\ hashtable[k] = NULL
    /\ MissVictims # {}
    /\ hashtable' = TableWithout(MissVictims)
    /\ lru' = Without(MissVictims)
    /\ cost' = cost - CostOf(MissVictims)
    /\ alive' = alive \ MissVictims
    /\ UNCHANGED <<entryVars, lockVars, pc, ptr>>

dt_cache_get(t) ==
    /\ pc[t] = "idle" /\ ~closed
    /\ \E k \in Keys, mode \in {"r", "w"} : Hit(t, k, mode) \/ Miss(t, k, mode) \/ MissFails(k)
    /\ UNCHANGED <<demoting, closed>>

\* dt_cache_testget returns NULL at once when the entry is missing or locked.
dt_cache_testget(t) ==
    /\ pc[t] = "idle" /\ ~closed
    /\ \E k \in Keys, mode \in {"r", "w"} : Hit(t, k, mode)
    /\ UNCHANGED <<demoting, closed>>

----------------------------------------------------------------------------
(* dt_cache_release and the demotion of a lock *)

Unlock(t, e) ==
    /\ wr' = IF wr[e] = t THEN [wr EXCEPT ![e] = NULL] ELSE wr
    /\ rd' = [rd EXCEPT ![e] = @ \ {t}]

dt_cache_release(t) ==
    /\ pc[t] = "hold"
    /\ Unlock(t, ptr[t])
    /\ IF wr[ptr[t]] = t THEN Goto(t, "tail", ptr[t]) ELSE Goto(t, "idle", NULL)
    /\ UNCHANGED <<tableVars, entryVars, demoting, closed>>

\* The end of the unlock: writer_depth and writer are cleared in the entry.
ReleaseTail(t) ==
    /\ pc[t] = "tail"
    /\ Goto(t, "idle", NULL)
    /\ UNCHANGED <<tableVars, entryVars, lockVars, demoting, closed>>

\* The caller announces the demotion, then gives its lock up.
Demote(t) ==
    /\ t \in Demoters
    /\ pc[t] = "hold"
    /\ demoting' = [demoting EXCEPT ![ptr[t]] = TRUE]
    /\ Unlock(t, ptr[t])
    /\ Goto(t, IF wr[ptr[t]] = t THEN "demoteTail" ELSE "demote", ptr[t])
    /\ UNCHANGED <<tableVars, entryVars, closed>>

DemoteTail(t) ==
    /\ pc[t] = "demoteTail"
    /\ Goto(t, "demote", ptr[t])
    /\ UNCHANGED <<tableVars, entryVars, lockVars, demoting, closed>>

\* It looks the entry up again by its key, for reading, and ends the demotion of what
\* it finds.
DemoteGet(t) ==
    /\ pc[t] = "demote"
    /\ LET k == ekey[ptr[t]] IN Hit(t, k, "r") \/ Miss(t, k, "r")
    /\ demoting' = [demoting EXCEPT ![ptr'[t]] = FALSE]
    /\ UNCHANGED closed

----------------------------------------------------------------------------
(* dt_cache_remove, dt_cache_seed, dt_cache_cleanup *)

Delete(e) ==
    /\ hashtable' = TableWithout({e})
    /\ lru' = Without({e})
    /\ cost' = cost - ecost[e]
    /\ alive' = alive \ {e}

\* A caller that does not get the lock, or sees a demotion, tries again.
dt_cache_remove(t) ==
    /\ pc[t] = "idle" /\ ~closed
    /\ \E e \in {hashtable[k] : k \in Keys} \ {NULL} : Deletable(e) /\ Delete(e)
    /\ UNCHANGED <<entryVars, lockVars, demoting, pc, ptr, closed>>

\* A seed inserts an entry that nobody holds.
Seed(k) ==
    /\ hashtable[k] = NULL
    /\ \E e \in Entries \ born, c \in Costs : Insert(e, k, c)
    /\ UNCHANGED <<lockVars, pc, ptr>>

dt_cache_seed(t) ==
    /\ pc[t] = "idle" /\ ~closed
    /\ \E k \in Keys : Seed(k) \/ MissFails(k)
    /\ UNCHANGED <<demoting, closed>>

\* At exit, when no other thread is left, everything in the list is freed.
dt_cache_cleanup ==
    /\ ~closed
    /\ \A t \in Threads : pc[t] = "idle"
    /\ closed' = TRUE
    /\ alive' = alive \ ToSet(lru)
    /\ hashtable' = [k \in Keys |-> NULL]
    /\ lru' = <<>>
    /\ UNCHANGED <<cost, entryVars, lockVars, demoting, pc, ptr>>

Next ==
    \/ \E t \in Threads :
        \/ dt_cache_get(t) \/ dt_cache_testget(t) \/ dt_cache_release(t) \/ ReleaseTail(t)
        \/ Demote(t) \/ DemoteTail(t) \/ DemoteGet(t)
        \/ dt_cache_remove(t) \/ dt_cache_seed(t)
    \/ dt_cache_cleanup

Spec == Init /\ [][Next]_vars

----------------------------------------------------------------------------
(* Properties *)

\* Every variable has the type of the field or local variable it models.
TypeOK ==
    /\ hashtable \in [Keys -> Entries \cup {NULL}]
    /\ lru \in Seq(Entries)
    /\ cost \in Nat
    /\ ekey \in [Entries -> Keys \cup {NULL}]
    /\ ecost \in [Entries -> Nat]
    /\ demoting \in [Entries -> BOOLEAN]
    /\ wr \in [Entries -> Threads \cup {NULL}]
    /\ rd \in [Entries -> SUBSET Threads]
    /\ alive \subseteq Entries
    /\ born \subseteq Entries
    /\ pc \in [Threads -> {"idle", "hold", "tail", "demoteTail", "demote"}]
    /\ ptr \in [Threads -> Entries \cup {NULL}]
    /\ closed \in BOOLEAN

\* The table, the list and the heap agree: each living entry is once in the list and in
\* the table under its own key, and nothing else is.  Nothing leaks at exit.
IndexConsistent ==
    /\ Len(lru) = Cardinality(alive) /\ ToSet(lru) = alive
    /\ \A k \in Keys : hashtable[k] # NULL => hashtable[k] \in alive /\ ekey[hashtable[k]] = k
    /\ \A e \in alive : hashtable[ekey[e]] = e

\* cache->cost is the cost of the entries that are in the cache.
CostExact == closed \/ cost = CostOf(alive)

\* An entry is not freed under a thread that holds it, and the lock of each entry is
\* held by exactly the threads that were given it, one of them if for writing.
HeldIsLocked ==
    /\ \A t \in Threads : pc[t] = "hold" => ptr[t] \in alive
    /\ \A e \in Entries :
        /\ \A t \in Threads : (t \in rd[e] \/ t = wr[e]) <=> (pc[t] = "hold" /\ ptr[t] = e)
        /\ wr[e] # NULL => rd[e] = {}

\* A miss leaves the cache below 80 % of its quota, or keeps only entries that somebody
\* uses, beside the new one; and it evicts no entry while an older unused one stays
\* ("removes from the tip of the lru list, until the fill ratio ... goes below the given
\* parameter", cache.h).
EvictsOldestUntilBelow ==
    [][\A t \in Threads : dt_cache_get(t) \/ dt_cache_seed(t) =>
        LET gone == alive \ alive'
            new == alive' \ alive
            kept == (cost' - MapThenSumSet(LAMBDA e : ecost'[e], new)) * 5
        IN  /\ cost * 5 <= cost_quota * 4 => gone = {}
            /\ cost * 5 > cost_quota * 4 /\ new # {} =>
                 kept < cost_quota * 4 \/ \A e \in alive \cap alive' : ~Deletable(e)
            /\ \A i, k \in DOMAIN lru :
                 i < k /\ lru[k] \in gone => lru[i] \in gone \/ ~Deletable(lru[i])]_vars

\* Thread t has given up its lock and relies on the flag of its entry.
Demotes(t) == pc[t] \in {"demoteTail", "demote"}

\* The entry is allocated, and its flag keeps it from being deleted.
Protected(e) == e \in alive /\ demoting[e]

\* "we are currently demoting (rw -> r) lock to this entry in some thread. do not touch!"
\* (cache.c): nothing that the collector, a removal or a request does takes the protection of
\* an entry away while a thread demotes it.  Only the end of another demotion of the same entry
\* does: the flag is not a count (image_cache.c:406), and what follows is not covered.
DemotionProtected ==
    [][\A t \in Threads : Demotes(t)' =>
        \/ Protected(ptr[t])'
        \/ Demotes(t) /\ ~Protected(ptr[t])
        \/ \E u \in Threads \ {t} : Demotes(u) /\ ~Demotes(u)' /\ ptr'[u] = ptr[t]]_vars

\* The list, the costs and the collector are one way to keep the promise of CacheContract:
\* every step is a step of the contract.
Contract == INSTANCE CacheContract

KeepsContract == Contract!Spec
============================================================================
