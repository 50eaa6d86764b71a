--------------------------- MODULE PixelpipeCache ---------------------------
(***************************************************************************)
(* The lines of the pixelpipe cache (src/src/caches/pixelpipe_cache.c):    *)
(* the table from hashes to lines, the reference count, the read-write     *)
(* lock and the auto-destroy mark of a line, and the operations on them.   *)
(* PixelpipeRun adds the threads that call them.                           *)
(*                                                                         *)
(* The table holds a line under line.hash, so a line that is not in        *)
(* DOMAIN lines has been freed.  Two fields have no counterpart in the     *)
(* code: "pixels" is the hash whose pixels the buffer really holds, and    *)
(* "drift" is the number of references nobody will give back (leaked)      *)
(* less the number given back by a thread that held none.                  *)
(***************************************************************************)
EXTENDS Integers, FiniteSets, Sequences, FiniteSetsExt, Functions

CONSTANTS Entries,     \* the addresses a line can have
          Modules,     \* the pipe has the modules 1 .. Modules
          Histories    \* edit histories: one parameter per module

ASSUME ModulesAssumption == Modules \in Nat \ {0}
ASSUME HistoriesAssumption == Histories \subseteq [1..Modules -> Nat \ {0}]

VARIABLES lines,       \* cache->entries
          hint,        \* piece->cache_entry of each module whose output may be reused: a hash and a line
          fault        \* the first use of a freed line, if there was one

cacheVars == <<lines, hint, fault>>

None == "none"         \* NULL
ASSUME EntriesAssumption == None \notin Entries

NoHash == <<>>         \* DT_PIXELPIPE_CACHE_HASH_INVALID
Garbled == <<0>>       \* pixels of an aborted or failed computation

\* The output hash of a module is a hash of the parameters up to it.
Hash(h, n) == SubSeq(h, 1, n)
Hashes == {Hash(h, n) : h \in Histories, n \in 1..Modules}
NoLease == [hash |-> NoHash, entry |-> None]

Live == DOMAIN lines
Found(hash) == {e \in Live : lines[e].hash = hash}
FoundOrNone(hash) == IF Found(hash) = {} THEN None ELSE CHOOSE e \in Found(hash) : TRUE
Exists(e) == e \in Live
Locked(e) == lines[e].writer \/ lines[e].readers # {}

NewLine(hash) ==
    [hash |-> hash, refs |-> 1, auto_destroy |-> FALSE, writer |-> TRUE,
     readers |-> {}, pixels |-> NoHash, drift |-> 0]

\* What became of L when a thread changed the reference count of e by d.
\* The same arithmetic on freed memory changes no line; see Touch.
RefCount(L, e, d) == IF e \in DOMAIN L THEN [L EXCEPT ![e].refs = @ + d] ELSE L
Drifts(L, e, d) == IF e \in DOMAIN L THEN [L EXCEPT ![e].drift = @ + d] ELSE L

\* A thread follows its pointer to e: undefined behaviour if e was freed.
Touch(e, place) == fault' = IF Exists(e) THEN fault ELSE place

\* Mutant: a line is removed although somebody holds a reference on it.
RemovableReferenced(e, force) == ~Locked(e) \/ force
\* _non_thread_safe_cache_remove() agrees to free e.
Removable(e, force) == lines[e].refs <= 0 /\ (~Locked(e) \/ force)

\* The lines S leave the table and are freed.  A hint to one of them can never
\* be followed again: it holds the serial number of the line.
Without(S) == Restrict(lines, Live \ S)
Forget(S) == hint' = [n \in DOMAIN hint |-> IF hint[n].entry \in S THEN NoLease ELSE hint[n]]
Drop(S) == lines' = Without(S) /\ Forget(S)

\* auto_destroy_apply(): the lines to free, at most e.
Reaped(e) == {x \in {e} \cap Live : lines[x].auto_destroy /\ Removable(x, FALSE)}

\* ref_host_entry_by_hash(): the line a GUI consumer may take a reference on.
HostHit(hash) == {e \in Found(hash) : ~lines[e].auto_destroy /\ ~lines[e].writer}
\* ref_entry_by_hash(): the line the recursion takes a reference on.
DirectHit(hash) == {e \in Found(hash) : ~lines[e].auto_destroy}

\* get_writable(): the marked line it frees first, and the line it then finds.
Stale(hash) == {e \in Found(hash) : lines[e].auto_destroy /\ Removable(e, FALSE)}
ExactHit(hash) == Found(hash) \ Stale(hash)

\* _cache_try_rekey_reuse_locked(): the line it will reuse for another hash.
Rekeyable(n, hash) ==
    {e \in Found(hint[n].hash) : /\ e = hint[n].entry
                                 /\ hint[n].hash # hash
                                 /\ ~lines[e].auto_destroy}

\* A line is collected: by an allocation that makes room, the memory pressure
\* valve, the timer's sweep or an invalidation of hashes.  Which one is oldest
\* depends on the clock.
Evict(e) ==
    /\ e \in Live
    /\ Removable(e, FALSE)
    /\ Drop({e})
    /\ UNCHANGED fault

\* dt_dev_pixelpipe_cache_flush(-1): every line that is not locked goes.
Flush ==
    /\ Drop({e \in Live : ~Locked(e)})
    /\ UNCHANGED fault

CacheInit ==
    /\ lines = [e \in {} |-> NewLine(NoHash)]
    /\ hint = [n \in 1..(Modules - 1) |-> NoLease]
    /\ fault = None
=============================================================================
