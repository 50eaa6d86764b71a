------------------------ MODULE CacheContractProofs ------------------------
(***************************************************************************)
(* Proofs about the cache's contract: for any threads, keys and entries,   *)
(* what a thread holds stays allocated and locked as it was given out, the *)
(* table stays sound, and a demotion loses the protection of its entry     *)
(* only to the end of another one.                                         *)
(***************************************************************************)
EXTENDS CacheContract, TLAPS

----------------------------------------------------------------------------
(* The inductive invariant *)

\* Only entries that were allocated once are allocated.
AliveWasBorn == alive \subseteq born

\* A thread in a call points to an entry that has a key.
PointsToKey ==
    \A t \in Threads : pc[t] # "idle" => ptr[t] \in Entries /\ ekey[ptr[t]] \in Keys

\* An entry that was allocated has a key, and keeps it.
BornHasKey == \A e \in born : ekey[e] \in Keys

IInv ==
    /\ TypeOK
    /\ HeldIsLocked
    /\ TableSound
    /\ AliveWasBorn
    /\ PointsToKey
    /\ BornHasKey

----------------------------------------------------------------------------
(* Lemmas about the operators *)

\* Giving a lock to a thread that holds none keeps the locks exact.
LEMMA LockKeepsExact ==
    ASSUME TypeOK, HeldIsLocked, NEW t \in Threads, NEW e \in Entries, NEW mode,
           pc[t] # "hold", e \in alive',
           wr[e] = NULL, mode = "w" => rd[e] = {},
           Lock(t, e, mode), Goto(t, "hold", e),
           \A u \in Threads : pc[u] = "hold" => ptr[u] \in alive'
    PROVE  HeldIsLocked' /\ wr' \in [Entries -> Threads \cup {NULL}]
                         /\ rd' \in [Entries -> SUBSET Threads]
<1>t. /\ wr \in [Entries -> Threads \cup {NULL}]
      /\ rd \in [Entries -> SUBSET Threads]
      /\ pc \in [Threads -> {"idle", "hold", "tail", "demoteTail", "demote"}]
      /\ ptr \in [Threads -> Entries \cup {NULL}]
  BY DEF TypeOK
<1>c. pc' = [pc EXCEPT ![t] = "hold"] /\ ptr' = [ptr EXCEPT ![t] = e]
  BY DEF Goto
<1>p. /\ pc'[t] = "hold" /\ ptr'[t] = e
      /\ \A u \in Threads : u # t => pc'[u] = pc[u] /\ ptr'[u] = ptr[u]
  BY <1>t, <1>c
<1>n. NULL \notin Threads
  BY ContractAssumption
<1>l. /\ wr' = IF mode = "w" THEN [wr EXCEPT ![e] = t] ELSE wr
      /\ rd' = IF mode = "w" THEN rd ELSE [rd EXCEPT ![e] = @ \cup {t}]
  BY DEF Lock
<1>h. \A f \in Entries :
        /\ \A u \in Threads : (u \in rd[f] \/ u = wr[f]) <=> (pc[u] = "hold" /\ ptr[u] = f)
        /\ wr[f] # NULL => rd[f] = {}
  BY DEF HeldIsLocked
<1>y. /\ wr' \in [Entries -> Threads \cup {NULL}]
      /\ rd' \in [Entries -> SUBSET Threads]
  BY <1>t, <1>l
<1>1. \A u \in Threads : pc'[u] = "hold" => ptr'[u] \in alive'
  BY <1>p
<1>2. ASSUME NEW f \in Entries
      PROVE  /\ \A u \in Threads :
                    (u \in rd'[f] \/ u = wr'[f]) <=> (pc'[u] = "hold" /\ ptr'[u] = f)
             /\ wr'[f] # NULL => rd'[f] = {}
  <2>1. CASE f # e
    <3>1. wr'[f] = wr[f] /\ rd'[f] = rd[f]
      BY <2>1, <1>t, <1>l
    <3>2. t \notin rd[f] /\ t # wr[f]
      BY <1>h
    <3>. QED
      BY <2>1, <3>1, <3>2, <1>h, <1>p
  <2>2. CASE f = e /\ mode = "w"
    <3>1. wr'[e] = t /\ rd'[e] = {}
      BY <2>2, <1>t, <1>l
    <3>2. \A u \in Threads : u # t => ~(pc[u] = "hold" /\ ptr[u] = e)
      BY <2>2, <1>h, <1>n
    <3>. QED
      BY <2>2, <3>1, <3>2, <1>p
  <2>3. CASE f = e /\ mode # "w"
    <3>1. wr'[e] = NULL /\ rd'[e] = rd[e] \cup {t}
      BY <2>3, <1>t, <1>l
    <3>2. \A u \in Threads : u # t => (u \in rd[e] <=> (pc[u] = "hold" /\ ptr[u] = e))
      BY <1>h, <1>n
    <3>. QED
      BY <2>3, <3>1, <3>2, <1>p, <1>n
  <2>. QED
    BY <2>1, <2>2, <2>3
<1>. QED
  BY <1>1, <1>2, <1>y DEF HeldIsLocked

\* A thread that gives its lock up leaves the others exact.
LEMMA UnlockKeepsExact ==
    ASSUME TypeOK, HeldIsLocked, NEW t \in Threads, pc[t] = "hold", NEW label, NEW x,
           label # "hold", Unlock(t, ptr[t]), Goto(t, label, x), alive' = alive
    PROVE  HeldIsLocked' /\ wr' \in [Entries -> Threads \cup {NULL}]
                         /\ rd' \in [Entries -> SUBSET Threads]
<1>t. /\ wr \in [Entries -> Threads \cup {NULL}]
      /\ rd \in [Entries -> SUBSET Threads]
      /\ pc \in [Threads -> {"idle", "hold", "tail", "demoteTail", "demote"}]
      /\ ptr \in [Threads -> Entries \cup {NULL}]
      /\ alive \in SUBSET Entries
  BY DEF TypeOK
<1>e. ptr[t] \in Entries /\ ptr[t] \in alive
  BY <1>t DEF HeldIsLocked
<1>c. pc' = [pc EXCEPT ![t] = label] /\ ptr' = [ptr EXCEPT ![t] = x]
  BY DEF Goto
<1>p. /\ pc'[t] = label
      /\ \A u \in Threads : u # t => pc'[u] = pc[u] /\ ptr'[u] = ptr[u]
  BY <1>t, <1>c
<1>n. NULL \notin Threads
  BY ContractAssumption
<1>l. /\ wr' = IF wr[ptr[t]] = t THEN [wr EXCEPT ![ptr[t]] = NULL] ELSE wr
      /\ rd' = [rd EXCEPT ![ptr[t]] = @ \ {t}]
  BY DEF Unlock
<1>h. \A f \in Entries :
        /\ \A u \in Threads : (u \in rd[f] \/ u = wr[f]) <=> (pc[u] = "hold" /\ ptr[u] = f)
        /\ wr[f] # NULL => rd[f] = {}
  BY DEF HeldIsLocked
<1>y. /\ wr' \in [Entries -> Threads \cup {NULL}]
      /\ rd' \in [Entries -> SUBSET Threads]
  BY <1>t, <1>l, <1>e
<1>1. \A u \in Threads : pc'[u] = "hold" => ptr'[u] \in alive'
  BY <1>p DEF HeldIsLocked
<1>2. ASSUME NEW f \in Entries
      PROVE  /\ \A u \in Threads :
                    (u \in rd'[f] \/ u = wr'[f]) <=> (pc'[u] = "hold" /\ ptr'[u] = f)
             /\ wr'[f] # NULL => rd'[f] = {}
  <2>1. CASE f # ptr[t]
    <3>1. wr'[f] = wr[f] /\ rd'[f] = rd[f]
      BY <2>1, <1>t, <1>l, <1>e
    <3>2. t \notin rd[f] /\ t # wr[f]
      BY <1>h, <2>1
    <3>. QED
      BY <2>1, <3>1, <3>2, <1>h, <1>p
  <2>2. CASE f = ptr[t] /\ wr[f] = t
    <3>1. wr'[f] = NULL /\ rd'[f] = rd[f] \ {t} /\ rd[f] = {}
      BY <2>2, <1>t, <1>l, <1>e, <1>h, <1>n
    <3>2. \A u \in Threads : u # t => ~(pc[u] = "hold" /\ ptr[u] = f)
      BY <2>2, <1>h, <3>1
    <3>. QED
      BY <2>2, <3>1, <3>2, <1>p, <1>n
  <2>3. CASE f = ptr[t] /\ wr[f] # t
    <3>1. wr'[f] = wr[f] /\ rd'[f] = rd[f] \ {t}
      BY <2>3, <1>t, <1>l, <1>e
    <3>2. t \in rd[f] /\ wr[f] = NULL
      BY <2>3, <1>h
    <3>. QED
      BY <2>3, <3>1, <3>2, <1>h, <1>p, <1>n
  <2>. QED
    BY <2>1, <2>2, <2>3
<1>. QED
  BY <1>1, <1>2, <1>y DEF HeldIsLocked

\* No entry that a thread holds is unused.
LEMMA UnusedIsNotHeld ==
    ASSUME TypeOK, HeldIsLocked, NEW S \in SUBSET Unused, NEW t \in Threads, pc[t] = "hold"
    PROVE  ptr[t] \notin S
<1>1. SUFFICES ASSUME ptr[t] \in Unused PROVE FALSE
  OBVIOUS
<1>2. ptr[t] \in Entries /\ wr[ptr[t]] = NULL /\ rd[ptr[t]] = {}
  BY <1>1 DEF Unused, TypeOK
<1>3. t \in rd[ptr[t]] \/ t = wr[ptr[t]]
  BY <1>2 DEF HeldIsLocked
<1>. QED
  BY <1>2, <1>3, ContractAssumption

\* A new entry fits into the table, and takes nothing away that somebody uses.
LEMMA InsertKeepsTable ==
    ASSUME IInv, NEW k \in Keys, NEW e \in Entries \ born, Insert(e, k)
    PROVE  /\ hashtable' \in [Keys -> Entries \cup {NULL}]
           /\ ekey' \in [Entries -> Keys \cup {NULL}]
           /\ alive' \in SUBSET Entries /\ born' \in SUBSET Entries
           /\ TableSound' /\ AliveWasBorn' /\ BornHasKey'
           /\ e \in alive'
           /\ wr[e] = NULL /\ rd[e] = {}
           /\ \A u \in Threads : pc[u] = "hold" => ptr[u] \in alive'
           /\ \A f \in Entries : ekey[f] \in Keys => ekey'[f] \in Keys
           /\ ekey'[e] = k
<1>. USE ContractAssumption
<1>s. PICK S \in SUBSET Unused :
        /\ hashtable' = [[j \in Keys |-> IF hashtable[j] \in S THEN NULL ELSE hashtable[j]]
                            EXCEPT ![k] = e]
        /\ alive' = (alive \ S) \cup {e}
  BY DEF Insert
<1>i. born' = born \cup {e} /\ ekey' = [ekey EXCEPT ![e] = k]
  BY DEF Insert
<1>t. /\ hashtable \in [Keys -> Entries \cup {NULL}]
      /\ ekey \in [Entries -> Keys \cup {NULL}]
      /\ alive \in SUBSET Entries /\ born \in SUBSET Entries
      /\ wr \in [Entries -> Threads \cup {NULL}]
      /\ rd \in [Entries -> SUBSET Threads]
      /\ ptr \in [Threads -> Entries \cup {NULL}]
  BY DEF IInv, TypeOK
<1>b. alive \subseteq born /\ \A f \in born : ekey[f] \in Keys
  BY DEF IInv, AliveWasBorn, BornHasKey
<1>1. hashtable' \in [Keys -> Entries \cup {NULL}]
  BY <1>s, <1>t
<1>2. ekey' \in [Entries -> Keys \cup {NULL}] /\ ekey'[e] = k
      /\ \A f \in Entries : f # e => ekey'[f] = ekey[f]
  BY <1>i, <1>t
<1>3. alive' \in SUBSET Entries /\ born' \in SUBSET Entries /\ AliveWasBorn' /\ e \in alive'
  BY <1>s, <1>i, <1>t, <1>b DEF AliveWasBorn
<1>4. TableSound'
  <2>1. SUFFICES ASSUME NEW j \in Keys, hashtable'[j] # NULL
                 PROVE  hashtable'[j] \in alive' /\ ekey'[hashtable'[j]] = j
    BY DEF TableSound
  <2>2. CASE j = k
    BY <2>2, <1>s, <1>t, <1>2
  <2>3. CASE j # k
    <3>1. hashtable'[j] = hashtable[j] /\ hashtable[j] \notin S /\ hashtable[j] # NULL
      BY <2>1, <2>3, <1>s, <1>t
    <3>2. hashtable[j] \in alive /\ ekey[hashtable[j]] = j
      BY <3>1 DEF IInv, TableSound
    <3>. QED
      BY <3>1, <3>2, <1>s, <1>b, <1>2, <1>t
  <2>. QED
    BY <2>2, <2>3
<1>5. BornHasKey'
  BY <1>i, <1>b, <1>2, <1>t DEF BornHasKey
<1>6. wr[e] = NULL /\ rd[e] = {}
  <2>1. \A u \in Threads : ~(pc[u] = "hold" /\ ptr[u] = e)
    BY <1>b DEF IInv, HeldIsLocked
  <2>2. \A u \in Threads : u \notin rd[e] /\ u # wr[e]
    BY <2>1 DEF IInv, HeldIsLocked
  <2>. QED
    BY <2>2, <1>t
<1>7. \A u \in Threads : pc[u] = "hold" => ptr[u] \in alive'
  <2>1. SUFFICES ASSUME NEW u \in Threads, pc[u] = "hold" PROVE ptr[u] \in alive'
    OBVIOUS
  <2>2. ptr[u] \in alive
    BY <2>1 DEF IInv, HeldIsLocked
  <2>. QED
    BY <2>1, <2>2, <1>s, UnusedIsNotHeld DEF IInv
<1>. QED
  BY <1>1, <1>2, <1>3, <1>4, <1>5, <1>6, <1>7

\* A thread that gets its entry, there or new, keeps the invariant.
LEMMA FetchKeeps ==
    ASSUME IInv, NEW t \in Threads, NEW k \in Keys, NEW mode, pc[t] # "hold",
           Hit(t, k, mode) \/ Miss(t, k, mode),
           demoting' = demoting \/ demoting' = [demoting EXCEPT ![ptr'[t]] = FALSE],
           closed' = closed
    PROVE  IInv'
<1>. USE ContractAssumption
<1>t. TypeOK /\ HeldIsLocked
  BY DEF IInv
<1>q. /\ pc \in [Threads -> {"idle", "hold", "tail", "demoteTail", "demote"}]
      /\ ptr \in [Threads -> Entries \cup {NULL}]
      /\ demoting \in [Entries -> BOOLEAN]
      /\ closed \in BOOLEAN
      /\ hashtable \in [Keys -> Entries \cup {NULL}]
      /\ alive \in SUBSET Entries
  BY <1>t DEF TypeOK
<1>1. PICK e \in Entries :
        /\ Goto(t, "hold", e)
        /\ e \in alive' /\ ekey'[e] = k
        /\ HeldIsLocked'
        /\ wr' \in [Entries -> Threads \cup {NULL}] /\ rd' \in [Entries -> SUBSET Threads]
        /\ hashtable' \in [Keys -> Entries \cup {NULL}]
        /\ ekey' \in [Entries -> Keys \cup {NULL}]
        /\ alive' \in SUBSET Entries /\ born' \in SUBSET Entries
        /\ TableSound' /\ AliveWasBorn' /\ BornHasKey'
        /\ \A f \in Entries : ekey[f] \in Keys => ekey'[f] \in Keys
  <2>1. CASE Hit(t, k, mode)
    <3>. DEFINE e == hashtable[k]
    <3>u. hashtable' = hashtable /\ ekey' = ekey /\ alive' = alive /\ born' = born
      BY <2>1 DEF Hit, tableVars
    <3>1. e \in Entries /\ e \in alive /\ ekey[e] = k
      BY <2>1, <1>q DEF Hit, IInv, TableSound
    <3>2. Goto(t, "hold", e) /\ Lock(t, e, mode) /\ wr[e] = NULL /\ (mode = "w" => rd[e] = {})
      BY <2>1 DEF Hit, Lockable
    <3>3. \A u \in Threads : pc[u] = "hold" => ptr[u] \in alive'
      BY <3>u, <1>t DEF HeldIsLocked
    <3>4. HeldIsLocked' /\ wr' \in [Entries -> Threads \cup {NULL}]
                        /\ rd' \in [Entries -> SUBSET Threads]
      <4>. HIDE DEF e
      <4>. QED
        BY <1>t, <3>u, <3>1, <3>2, <3>3, LockKeepsExact
    <3>5. TableSound' /\ AliveWasBorn' /\ BornHasKey'
      BY <3>u DEF IInv, TableSound, AliveWasBorn, BornHasKey
    <3>6. /\ hashtable' \in [Keys -> Entries \cup {NULL}]
          /\ ekey' \in [Entries -> Keys \cup {NULL}]
          /\ alive' \in SUBSET Entries /\ born' \in SUBSET Entries
      BY <3>u, <1>t DEF TypeOK
    <3>7. e \in Entries /\ e \in alive' /\ ekey'[e] = k
          /\ \A f \in Entries : ekey[f] \in Keys => ekey'[f] \in Keys
      BY <3>1, <3>u
    <3>. HIDE DEF e
    <3>. QED
      BY <3>2, <3>4, <3>5, <3>6, <3>7
  <2>2. CASE Miss(t, k, mode)
    <3>m. PICK x \in {mode, "w"}, e \in Entries \ born :
             Insert(e, k) /\ Lock(t, e, x) /\ Goto(t, "hold", e)
      BY <2>2 DEF Miss
    <3>1. /\ hashtable' \in [Keys -> Entries \cup {NULL}]
          /\ ekey' \in [Entries -> Keys \cup {NULL}]
          /\ alive' \in SUBSET Entries /\ born' \in SUBSET Entries
          /\ TableSound' /\ AliveWasBorn' /\ BornHasKey'
          /\ e \in alive'
          /\ wr[e] = NULL /\ rd[e] = {}
          /\ \A u \in Threads : pc[u] = "hold" => ptr[u] \in alive'
          /\ \A f \in Entries : ekey[f] \in Keys => ekey'[f] \in Keys
          /\ ekey'[e] = k
      BY <3>m, InsertKeepsTable
    <3>2. HeldIsLocked' /\ wr' \in [Entries -> Threads \cup {NULL}]
                        /\ rd' \in [Entries -> SUBSET Threads]
      BY <1>t, <3>m, <3>1, LockKeepsExact
    <3>. QED
      BY <3>m, <3>1, <3>2
  <2>. QED
    BY <2>1, <2>2
<1>c. pc' = [pc EXCEPT ![t] = "hold"] /\ ptr' = [ptr EXCEPT ![t] = e]
  BY <1>1 DEF Goto
<1>p. /\ pc'[t] = "hold" /\ ptr'[t] = e
      /\ \A u \in Threads : u # t => pc'[u] = pc[u] /\ ptr'[u] = ptr[u]
  BY <1>q, <1>c
<1>2. TypeOK'
  <2>1. pc' \in [Threads -> {"idle", "hold", "tail", "demoteTail", "demote"}]
        /\ ptr' \in [Threads -> Entries \cup {NULL}]
    BY <1>q, <1>c
  <2>2. demoting' \in [Entries -> BOOLEAN] /\ closed' \in BOOLEAN
    BY <1>q, <1>p
  <2>. QED
    BY <1>1, <2>1, <2>2 DEF TypeOK
<1>3. PointsToKey'
  <2>1. \A u \in Threads : pc[u] # "idle" => ptr[u] \in Entries /\ ekey[ptr[u]] \in Keys
    BY DEF IInv, PointsToKey
  <2>. QED
    BY <2>1, <1>1, <1>p DEF PointsToKey
<1>. QED
  BY <1>1, <1>2, <1>3 DEF IInv

\* A thread that gives its lock up, to leave or to demote, keeps the invariant.
LEMMA LeaveKeeps ==
    ASSUME IInv, NEW t \in Threads, Release(t) \/ Demote(t)
    PROVE  IInv'
<1>. USE ContractAssumption
<1>t. TypeOK /\ HeldIsLocked /\ pc[t] = "hold"
  BY DEF IInv, Release, Demote
<1>q. /\ pc \in [Threads -> {"idle", "hold", "tail", "demoteTail", "demote"}]
      /\ ptr \in [Threads -> Entries \cup {NULL}]
      /\ demoting \in [Entries -> BOOLEAN]
      /\ alive \in SUBSET Entries
  BY <1>t DEF TypeOK
<1>e. ptr[t] \in Entries /\ ptr[t] \in alive
  BY <1>t, <1>q DEF HeldIsLocked
<1>u. hashtable' = hashtable /\ ekey' = ekey /\ alive' = alive /\ born' = born /\ closed' = closed
  BY DEF Release, Demote, tableVars
<1>1. PICK label \in {"idle", "tail", "demoteTail", "demote"}, x \in {NULL, ptr[t]} :
        /\ Goto(t, label, x)
        /\ label # "idle" => x = ptr[t]
        /\ label \in {"demoteTail", "demote"} =>
             demoting' = [demoting EXCEPT ![ptr[t]] = TRUE]
        /\ label \notin {"demoteTail", "demote"} => demoting' = demoting
  BY DEF Release, Demote
<1>2. HeldIsLocked' /\ wr' \in [Entries -> Threads \cup {NULL}]
                    /\ rd' \in [Entries -> SUBSET Threads]
  <2>1. Unlock(t, ptr[t])
    BY DEF Release, Demote
  <2>2. label # "hold"
    BY <1>1
  <2>. QED
    BY <1>t, <1>u, <1>1, <2>1, <2>2, UnlockKeepsExact
<1>c. pc' = [pc EXCEPT ![t] = label] /\ ptr' = [ptr EXCEPT ![t] = x]
  BY <1>1 DEF Goto
<1>p. /\ pc'[t] = label /\ ptr'[t] = x
      /\ \A u \in Threads : u # t => pc'[u] = pc[u] /\ ptr'[u] = ptr[u]
  BY <1>q, <1>c
<1>d. demoting' \in [Entries -> BOOLEAN]
  BY <1>q, <1>1, <1>e
<1>3. TypeOK'
  <2>1. pc' \in [Threads -> {"idle", "hold", "tail", "demoteTail", "demote"}]
        /\ ptr' \in [Threads -> Entries \cup {NULL}]
    BY <1>q, <1>c, <1>e
  <2>. QED
    BY <1>t, <1>u, <1>2, <1>d, <2>1 DEF TypeOK
<1>4. TableSound' /\ AliveWasBorn' /\ BornHasKey'
  BY <1>u DEF IInv, TableSound, AliveWasBorn, BornHasKey
<1>5. PointsToKey'
  <2>1. \A u \in Threads : pc[u] # "idle" => ptr[u] \in Entries /\ ekey[ptr[u]] \in Keys
    BY DEF IInv, PointsToKey
  <2>2. ptr[t] \in Entries /\ ekey[ptr[t]] \in Keys
    BY <2>1, <1>t
  <2>. QED
    BY <2>1, <2>2, <1>u, <1>p, <1>1 DEF PointsToKey
<1>. QED
  BY <1>2, <1>3, <1>4, <1>5 DEF IInv

\* The last writes of an unlock keep the invariant.
LEMMA TailKeeps ==
    ASSUME IInv, NEW t \in Threads, ReleaseTail(t) \/ DemoteTail(t)
    PROVE  IInv'
<1>u. /\ hashtable' = hashtable /\ ekey' = ekey /\ alive' = alive /\ born' = born
      /\ wr' = wr /\ rd' = rd /\ demoting' = demoting /\ closed' = closed
  BY DEF ReleaseTail, DemoteTail, tableVars, lockVars
<1>q. /\ pc \in [Threads -> {"idle", "hold", "tail", "demoteTail", "demote"}]
      /\ ptr \in [Threads -> Entries \cup {NULL}]
  BY DEF IInv, TypeOK
<1>1. PICK label \in {"idle", "demote"}, x \in {NULL, ptr[t]} :
        /\ Goto(t, label, x)
        /\ label = "demote" => x = ptr[t] /\ pc[t] = "demoteTail"
        /\ pc[t] \in {"tail", "demoteTail"}
  BY DEF ReleaseTail, DemoteTail
<1>c. pc' = [pc EXCEPT ![t] = label] /\ ptr' = [ptr EXCEPT ![t] = x]
  BY <1>1 DEF Goto
<1>p. /\ pc'[t] = label /\ ptr'[t] = x
      /\ \A u \in Threads : u # t => pc'[u] = pc[u] /\ ptr'[u] = ptr[u]
  BY <1>q, <1>c
<1>2. TypeOK'
  <2>1. pc' \in [Threads -> {"idle", "hold", "tail", "demoteTail", "demote"}]
        /\ ptr' \in [Threads -> Entries \cup {NULL}]
    BY <1>q, <1>c, <1>1
  <2>. QED
    BY <1>u, <2>1 DEF IInv, TypeOK
<1>3. HeldIsLocked'
  <2>1. \A u \in Threads : pc'[u] = "hold" <=> pc[u] = "hold"
    BY <1>p, <1>1
  <2>2. \A u \in Threads : pc[u] = "hold" => ptr'[u] = ptr[u]
    BY <1>p, <1>1
  <2>. QED
    BY <2>1, <2>2, <1>u DEF IInv, HeldIsLocked
<1>4. TableSound' /\ AliveWasBorn' /\ BornHasKey'
  BY <1>u DEF IInv, TableSound, AliveWasBorn, BornHasKey
<1>5. PointsToKey'
  BY <1>u, <1>p, <1>1 DEF IInv, PointsToKey
<1>. QED
  BY <1>2, <1>3, <1>4, <1>5 DEF IInv

\* A collection, a removal or a seed keeps the invariant.
LEMMA TableStepKeeps ==
    ASSUME IInv, NEW t \in Threads, Evict(t) \/ Seed(t)
    PROVE  IInv'
<1>. USE ContractAssumption
<1>u. wr' = wr /\ rd' = rd /\ pc' = pc /\ ptr' = ptr /\ demoting' = demoting /\ closed' = closed
  BY DEF Evict, Seed, lockVars, callVars
<1>1. /\ hashtable' \in [Keys -> Entries \cup {NULL}]
      /\ ekey' \in [Entries -> Keys \cup {NULL}]
      /\ alive' \in SUBSET Entries /\ born' \in SUBSET Entries
      /\ TableSound' /\ AliveWasBorn' /\ BornHasKey'
      /\ \A u \in Threads : pc[u] = "hold" => ptr[u] \in alive'
      /\ \A f \in Entries : ekey[f] \in Keys => ekey'[f] \in Keys
  <2>1. CASE Evict(t)
    <3>s. PICK S \in SUBSET Unused : Vanish(S)
      BY <2>1 DEF Evict
    <3>v. /\ hashtable' = [k \in Keys |-> IF hashtable[k] \in S THEN NULL ELSE hashtable[k]]
          /\ alive' = alive \ S /\ ekey' = ekey /\ born' = born
      BY <2>1, <3>s DEF Evict, Vanish
    <3>t. /\ hashtable \in [Keys -> Entries \cup {NULL}]
          /\ ekey \in [Entries -> Keys \cup {NULL}]
          /\ alive \in SUBSET Entries /\ born \in SUBSET Entries
      BY DEF IInv, TypeOK
    <3>1. TableSound' /\ AliveWasBorn' /\ BornHasKey'
      BY <3>v, <3>t DEF IInv, TableSound, AliveWasBorn, BornHasKey
    <3>2. \A u \in Threads : pc[u] = "hold" => ptr[u] \in alive'
      BY <3>v, UnusedIsNotHeld DEF IInv, HeldIsLocked
    <3>. QED
      BY <3>1, <3>2, <3>v, <3>t
  <2>2. CASE Seed(t)
    <3>1. PICK k \in Keys, e \in Entries \ born : Insert(e, k)
      BY <2>2 DEF Seed
    <3>. QED
      BY <3>1, InsertKeepsTable
  <2>. QED
    BY <2>1, <2>2
<1>2. TypeOK'
  BY <1>1, <1>u DEF IInv, TypeOK
<1>3. HeldIsLocked'
  BY <1>1, <1>u DEF IInv, HeldIsLocked
<1>4. PointsToKey'
  BY <1>1, <1>u DEF IInv, PointsToKey
<1>. QED
  BY <1>1, <1>2, <1>3, <1>4 DEF IInv

\* The cleanup, when every thread is idle, keeps the invariant.
LEMMA CleanupKeeps ==
    ASSUME IInv, Cleanup
    PROVE  IInv'
<1>. USE ContractAssumption
<1>u. /\ ekey' = ekey /\ born' = born /\ wr' = wr /\ rd' = rd /\ pc' = pc /\ ptr' = ptr
      /\ demoting' = demoting /\ closed' = TRUE
      /\ hashtable' = [k \in Keys |-> NULL] /\ alive' \in SUBSET alive
      /\ \A t \in Threads : pc[t] = "idle"
  BY DEF Cleanup, lockVars, callVars
<1>1. TypeOK'
  BY <1>u DEF IInv, TypeOK
<1>2. HeldIsLocked'
  BY <1>u DEF IInv, HeldIsLocked
<1>3. TableSound' /\ AliveWasBorn' /\ BornHasKey' /\ PointsToKey'
  BY <1>u DEF IInv, TableSound, AliveWasBorn, BornHasKey, PointsToKey
<1>. QED
  BY <1>1, <1>2, <1>3 DEF IInv

----------------------------------------------------------------------------
(* Theorems *)

\* Every step of the cache keeps the invariant.
THEOREM StepKeeps == IInv /\ [Next]_vars => IInv'
<1>. USE ContractAssumption
<1>1. SUFFICES ASSUME IInv, [Next]_vars PROVE IInv'
  OBVIOUS
<1>2. ASSUME NEW t \in Threads, Get(t) PROVE IInv'
  <2>1. PICK k \in Keys, mode \in {"r", "w"} : Hit(t, k, mode) \/ Miss(t, k, mode)
    BY <1>2 DEF Get
  <2>2. pc[t] # "hold" /\ demoting' = demoting /\ closed' = closed
    BY <1>2 DEF Get, Idle
  <2>. QED
    BY <1>1, <2>1, <2>2, FetchKeeps
<1>3. ASSUME NEW t \in Threads, DemoteGet(t) PROVE IInv'
  <2>1. ekey[ptr[t]] \in Keys /\ pc[t] # "hold"
    BY <1>1, <1>3 DEF DemoteGet, IInv, PointsToKey
  <2>2. Hit(t, ekey[ptr[t]], "r") \/ Miss(t, ekey[ptr[t]], "r")
    BY <1>3 DEF DemoteGet
  <2>3. demoting' = [demoting EXCEPT ![ptr'[t]] = FALSE] /\ closed' = closed
    BY <1>3 DEF DemoteGet
  <2>. QED
    BY <1>1, <2>1, <2>2, <2>3, FetchKeeps
<1>4. CASE UNCHANGED vars
  <2>1. /\ hashtable' = hashtable /\ ekey' = ekey /\ alive' = alive /\ born' = born
        /\ wr' = wr /\ rd' = rd /\ pc' = pc /\ ptr' = ptr
        /\ demoting' = demoting /\ closed' = closed
    BY <1>4 DEF vars, tableVars, lockVars, callVars
  <2>. QED
    BY <1>1, <2>1 DEF IInv, TypeOK, HeldIsLocked, TableSound, AliveWasBorn, PointsToKey,
                      BornHasKey
<1>. QED
  BY <1>1, <1>2, <1>3, <1>4, LeaveKeeps, TailKeeps, TableStepKeeps, CleanupKeeps DEF Next

\* The cache begins with the invariant.
LEMMA InitIInv == Init => IInv
<1>1. SUFFICES ASSUME Init PROVE IInv
  OBVIOUS
<1>2. TypeOK
  BY <1>1 DEF Init, TypeOK
<1>3. HeldIsLocked
  BY <1>1, ContractAssumption DEF Init, HeldIsLocked
<1>4. TableSound /\ AliveWasBorn /\ PointsToKey /\ BornHasKey
  BY <1>1 DEF Init, TableSound, AliveWasBorn, PointsToKey, BornHasKey
<1>. QED
  BY <1>2, <1>3, <1>4 DEF IInv

\* The invariant holds in every state of the cache.
THEOREM AlwaysIInv == Spec => []IInv
BY InitIInv, StepKeeps, PTL DEF Spec

\* What a thread holds is allocated, and each entry is locked by exactly the threads that
\* were given it, alone if for writing (dt_cache_get, dt_cache_release).
THEOREM HeldStaysLocked == Spec => []HeldIsLocked
<1>1. IInv => HeldIsLocked
  BY DEF IInv
<1>. QED
  BY <1>1, AlwaysIInv, PTL

\* A key leads to an allocated entry that was made for it (dt_cache_get, dt_cache_gc).
THEOREM TableStaysSound == Spec => []TableSound
<1>1. IInv => TableSound
  BY DEF IInv
<1>. QED
  BY <1>1, AlwaysIInv, PTL

\* What DemotionProtected says of one thread in one step.
KeepsProtection(t) ==
    Demotes(t)' =>
        \/ Protected(ptr[t])'
        \/ Demotes(t) /\ ~Protected(ptr[t])
        \/ \E u \in Threads \ {t} : Demotes(u) /\ ~Demotes(u)' /\ ptr'[u] = ptr[t]

\* A step that leaves thread t alone, deletes unused entries only and clears no flag.
LEMMA LeftAlone ==
    ASSUME NEW t \in Threads, pc'[t] = pc[t], ptr'[t] = ptr[t],
           NEW S \in SUBSET Unused, alive \ S \subseteq alive',
           demoting[ptr[t]] => demoting'[ptr[t]]
    PROVE  KeepsProtection(t)
BY DEF KeepsProtection, Demotes, Protected, Unused

\* A request takes unused entries only, and leaves the other threads alone.
LEMMA FetchTakesUnused ==
    ASSUME TypeOK, NEW t \in Threads, NEW k, NEW mode, Hit(t, k, mode) \/ Miss(t, k, mode)
    PROVE  /\ \E S \in SUBSET Unused : alive \ S \subseteq alive'
           /\ pc'[t] = "hold"
           /\ \A u \in Threads : u # t => pc'[u] = pc[u] /\ ptr'[u] = ptr[u]
<1>t. /\ pc \in [Threads -> {"idle", "hold", "tail", "demoteTail", "demote"}]
      /\ ptr \in [Threads -> Entries \cup {NULL}]
  BY DEF TypeOK
<1>1. PICK e : Goto(t, "hold", e)
  BY DEF Hit, Miss
<1>2. CASE Hit(t, k, mode)
  <2>1. {} \in SUBSET Unused /\ alive \ {} \subseteq alive'
    BY <1>2 DEF Hit, tableVars
  <2>. QED
    BY <1>t, <1>1, <2>1 DEF Goto
<1>3. CASE Miss(t, k, mode)
  <2>1. \E S \in SUBSET Unused : alive \ S \subseteq alive'
    BY <1>3 DEF Miss, Insert
  <2>. QED
    BY <1>t, <1>1, <2>1 DEF Goto
<1>. QED
  BY <1>2, <1>3

\* Every step keeps the protection of the demotions, or ends one.
THEOREM StepProtects ==
    ASSUME IInv, [Next]_vars, NEW t \in Threads
    PROVE  KeepsProtection(t)
<1>t. /\ pc \in [Threads -> {"idle", "hold", "tail", "demoteTail", "demote"}]
      /\ ptr \in [Threads -> Entries \cup {NULL}]
      /\ demoting \in [Entries -> BOOLEAN] /\ alive \subseteq Entries /\ TypeOK
  BY DEF IInv, TypeOK
<1>e. {} \in SUBSET Unused
  OBVIOUS
<1>1. ASSUME NEW u \in Threads, Get(u) PROVE KeepsProtection(t)
  <2>1. PICK k \in Keys, mode \in {"r", "w"} : Hit(u, k, mode) \/ Miss(u, k, mode)
    BY <1>1 DEF Get
  <2>2. PICK S \in SUBSET Unused : alive \ S \subseteq alive'
    BY <1>t, <2>1, FetchTakesUnused
  <2>3. pc'[u] = "hold" /\ (u # t => pc'[t] = pc[t] /\ ptr'[t] = ptr[t])
    BY <1>t, <2>1, FetchTakesUnused
  <2>4. UNCHANGED demoting
    BY <1>1 DEF Get
  <2>5. CASE u = t
    BY <2>3, <2>5 DEF KeepsProtection, Demotes
  <2>6. CASE u # t
    BY <2>2, <2>3, <2>4, <2>6, LeftAlone
  <2>. QED
    BY <2>5, <2>6
<1>2. ASSUME NEW u \in Threads, DemoteGet(u) PROVE KeepsProtection(t)
  <2>1. Hit(u, ekey[ptr[u]], "r") \/ Miss(u, ekey[ptr[u]], "r")
    BY <1>2 DEF DemoteGet
  <2>2. PICK S \in SUBSET Unused : alive \ S \subseteq alive'
    BY <1>t, <2>1, FetchTakesUnused
  <2>3. pc'[u] = "hold" /\ (u # t => pc'[t] = pc[t] /\ ptr'[t] = ptr[t])
    BY <1>t, <2>1, FetchTakesUnused
  <2>4. pc[u] = "demote" /\ demoting' = [demoting EXCEPT ![ptr'[u]] = FALSE]
    BY <1>2 DEF DemoteGet
  <2>5. CASE u = t
    BY <2>3, <2>5 DEF KeepsProtection, Demotes
  <2>6. CASE u # t /\ ptr'[u] = ptr[t]
    BY <2>3, <2>4, <2>6 DEF KeepsProtection, Demotes
  <2>7. CASE u # t /\ ptr'[u] # ptr[t]
    <3>1. demoting'[ptr[t]] = demoting[ptr[t]] \/ ptr[t] \notin Entries
      BY <1>t, <2>4, <2>7
    <3>2. CASE ptr[t] \in Entries
      BY <2>2, <2>3, <2>7, <3>1, <3>2, LeftAlone
    <3>3. CASE ptr[t] \notin Entries
      BY <1>t, <2>3, <2>7, <3>3 DEF KeepsProtection, Demotes, Protected
    <3>. QED
      BY <3>2, <3>3
  <2>. QED
    BY <2>5, <2>6, <2>7
<1>3. ASSUME NEW u \in Threads, Release(u) \/ ReleaseTail(u) PROVE KeepsProtection(t)
  <2>1. PICK label \in {"tail", "idle"}, x \in {NULL, ptr[u]} : Goto(u, label, x)
    BY <1>3 DEF Release, ReleaseTail
  <2>2. UNCHANGED <<alive, demoting>>
    BY <1>3 DEF Release, ReleaseTail, tableVars
  <2>3. pc'[u] = label /\ (u # t => pc'[t] = pc[t] /\ ptr'[t] = ptr[t])
    BY <1>t, <2>1 DEF Goto
  <2>4. CASE u = t
    BY <2>1, <2>3, <2>4 DEF KeepsProtection, Demotes
  <2>5. CASE u # t
    BY <1>e, <2>2, <2>3, <2>5, LeftAlone
  <2>. QED
    BY <2>4, <2>5
<1>4. ASSUME NEW u \in Threads, Demote(u) PROVE KeepsProtection(t)
  <2>1. pc[u] = "hold" /\ demoting' = [demoting EXCEPT ![ptr[u]] = TRUE] /\ UNCHANGED alive
    BY <1>4 DEF Demote, tableVars
  <2>2. ptr[u] \in alive
    BY <2>1 DEF IInv, HeldIsLocked
  <2>3. ptr'[u] = ptr[u] /\ (u # t => pc'[t] = pc[t] /\ ptr'[t] = ptr[t])
    BY <1>t, <1>4 DEF Demote, Goto
  <2>4. CASE u = t
    BY <1>t, <2>1, <2>2, <2>3, <2>4 DEF KeepsProtection, Protected
  <2>5. CASE u # t
    <3>1. CASE ptr[t] \in Entries
      <4>1. demoting[ptr[t]] => demoting'[ptr[t]]
        BY <1>t, <2>1, <2>2, <3>1
      <4>. QED
        BY <1>e, <2>1, <2>3, <2>5, <4>1, LeftAlone
    <3>2. CASE ptr[t] \notin Entries
      BY <1>t, <2>3, <2>5, <3>2 DEF KeepsProtection, Demotes, Protected
    <3>. QED
      BY <3>1, <3>2
  <2>. QED
    BY <2>4, <2>5
<1>5. ASSUME NEW u \in Threads, DemoteTail(u) PROVE KeepsProtection(t)
  <2>1. pc[u] = "demoteTail" /\ Goto(u, "demote", ptr[u]) /\ UNCHANGED <<alive, demoting>>
    BY <1>5 DEF DemoteTail, tableVars
  <2>2. ptr'[t] = ptr[t] /\ (u # t => pc'[t] = pc[t])
    BY <1>t, <2>1 DEF Goto
  <2>. QED
    BY <2>1, <2>2 DEF KeepsProtection, Demotes, Protected
<1>6. ASSUME NEW u \in Threads, Evict(u) \/ Seed(u) PROVE KeepsProtection(t)
  <2>1. \E S \in SUBSET Unused : alive \ S \subseteq alive'
    BY <1>6 DEF Evict, Vanish, Seed, Insert
  <2>2. UNCHANGED <<pc, ptr, demoting>>
    BY <1>6 DEF Evict, Seed, callVars
  <2>. QED
    BY <2>1, <2>2, LeftAlone
<1>7. CASE Cleanup
  BY <1>7 DEF Cleanup, callVars, KeepsProtection, Demotes
<1>8. CASE UNCHANGED vars
  BY <1>e, <1>8, LeftAlone DEF vars, tableVars, callVars
<1>. QED
  BY <1>1, <1>2, <1>3, <1>4, <1>5, <1>6, <1>7, <1>8 DEF Next

\* "we are currently demoting (rw -> r) lock to this entry in some thread. do not touch!"
\* (cache.c): whatever the threads do, and however many of them demote, an entry that is
\* demoted loses its protection only to the end of another demotion of it.
THEOREM DemotionStaysProtected == Spec => DemotionProtected
<1>1. IInv /\ [Next]_vars =>
        [\A t \in Threads : Demotes(t)' =>
            \/ Protected(ptr[t])'
            \/ Demotes(t) /\ ~Protected(ptr[t])
            \/ \E u \in Threads \ {t} : Demotes(u) /\ ~Demotes(u)' /\ ptr'[u] = ptr[t]]_vars
  BY StepProtects DEF KeepsProtection
<1>. QED
  BY <1>1, AlwaysIInv, PTL DEF Spec, DemotionProtected
============================================================================
