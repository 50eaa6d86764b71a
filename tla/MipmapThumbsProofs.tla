------------------------- MODULE MipmapThumbsProofs -------------------------
(***************************************************************************)
(* Proofs about the thumbnails: they use the cache as its contract asks,   *)
(* so what CacheContractProofs shows of it holds here, and on top of it    *)
(* the pixels, the files and the flush are right but for what a shutdown,  *)
(* the end of another demotion or a flush that meets somebody leaves       *)
(* behind.  Nothing is assumed of how many threads request, abort, store   *)
(* and flush.                                                              *)
(***************************************************************************)
EXTENDS MipmapThumbs, CacheContractProofs, FiniteSetTheorems, WellFoundedInduction

\* Every nonempty set of naturals has a smallest element.
LEMMA Smallest ==
    ASSUME NEW B \in SUBSET Nat, B # {}
    PROVE  \E m \in B : \A k \in B : m <= k
<1>1. \E R : IsWellFoundedOn(R, Nat) /\ \A x, y \in Nat : <<y, x>> \in R <=> y < x
  <2>1. \A x, y \in Nat : <<y, x>> \in OpToRel(<, Nat) <=> y < x
    BY DEF OpToRel
  <2>. QED
    BY <2>1, NatLessThanWellFounded, Zenon
<1>2. PICK R : IsWellFoundedOn(R, Nat) /\ \A x, y \in Nat : <<y, x>> \in R <=> y < x
  BY <1>1, Zenon
<1>3. PICK m \in B : \A k \in B : ~ (<<k, m>> \in R)
  BY <1>2, WFMin, Zenon
<1>4. m \in Nat /\ \A k \in B : k \in Nat /\ ~(k < m)
  BY <1>2, <1>3, Zenon
<1>. QED
  BY <1>3, <1>4

----------------------------------------------------------------------------
(* The inductive invariant *)

\* Where a thread is in an operation says where it is in a call of the cache, and a thread
\* that stores or flushes holds the write lock of its entry.
Calls ==
    \A t \in Threads :
        /\ step[t] = "idle" => pc[t] \in {"idle", "tail"}
        /\ step[t] \in {"check", "render", "have"} => t \in Demoters /\ pc[t] = "hold"
        /\ step[t] = "demote" => t \in Demoters /\ pc[t] \in {"hold", "demoteTail", "demote"}
        /\ step[t] \in {"swap", "flushRelease"} => pc[t] = "hold" /\ wr[ptr[t]] = t
        /\ step[t] \in {"flushTest", "unlink"} => pc[t] = "idle"
        /\ step[t] = "flushRemove" => pc[t] \in {"idle", "tail"}
        /\ Flushing(t) => mip[t] \in Keys /\ src[t] \in 0..edit
        /\ closed => step[t] = "idle"

\* A living entry is in the table under its key.
Indexed == \A e \in alive : ekey[e] \in Keys /\ hashtable[ekey[e]] = e

----------------------------------------------------------------------------
(* Every step is a step of the contract *)

\* The steps of thread t.
ThreadStep(t) ==
    \/ GetThumb(t) \/ CheckThumb(t) \/ Rendered(t) \/ Aborted(t)
    \/ DemoteThumb(t) \/ RefetchThumb(t) \/ ReleaseThumb(t) \/ EndRelease(t)
    \/ SwapGet(t) \/ SwapStore(t)
    \/ Commit(t) \/ FlushTest(t) \/ FlushRelease(t) \/ FlushRemove(t) \/ Unlink(t)
    \/ EvictThumb(t)

\* Removing an entry is an eviction of the contract.
LEMMA DropEvicts ==
    ASSUME NEW t, NEW e, Idle(t), Drop(e)
    PROVE  Evict(t)
BY DEF Drop, Evict

\* A step of a thread is a call of the cache that the contract allows, or leaves the cache alone.
LEMMA ThreadStepIsContract ==
    ASSUME IInv, Calls, NEW t \in Threads, ThreadStep(t)
    PROVE  [Next]_vars
<1>. USE DEF At
<1>1. CASE GetThumb(t)
  <2>1. Get(t)
    BY <1>1 DEF GetThumb, Fetch, Get
  <2>. QED
    BY <2>1 DEF Next
<1>2. CASE CheckThumb(t) \/ Rendered(t) \/ Aborted(t) \/ Commit(t) \/ Unlink(t)
  BY <1>2 DEF CheckThumb, Rendered, Aborted, Commit, Unlink
<1>3. CASE DemoteThumb(t)
  BY <1>3 DEF DemoteThumb, Next
<1>4. CASE RefetchThumb(t)
  <2>1. DemoteGet(t)
    BY <1>4 DEF RefetchThumb, Fetch, DemoteGet
  <2>. QED
    BY <2>1 DEF Next
<1>5. CASE ReleaseThumb(t) \/ EndRelease(t) \/ SwapStore(t) \/ FlushRelease(t)
  BY <1>5 DEF ReleaseThumb, EndRelease, SwapStore, FlushRelease, Next
<1>6. CASE SwapGet(t)
  <2>1. Get(t)
    BY <1>6 DEF SwapGet, Fetch, Get
  <2>. QED
    BY <2>1 DEF Next
<1>7. CASE FlushTest(t)
  <2>1. mip[t] \in Keys /\ Idle(t)
    BY <1>7 DEF FlushTest, Calls, Flushing, Idle
  <2>2. CASE Hit(t, mip[t], "w")
    <3>1. Get(t)
      BY <1>7, <2>1, <2>2 DEF FlushTest, Get
    <3>. QED
      BY <3>1 DEF Next
  <2>3. CASE UNCHANGED <<tableVars, lockVars, callVars>>
    BY <1>7, <2>3 DEF FlushTest, vars
  <2>. QED
    BY <1>7, <2>2, <2>3 DEF FlushTest
<1>8. CASE FlushRemove(t)
  <2>1. Idle(t)
    BY <1>8 DEF FlushRemove, Calls, Idle
  <2>. QED
    BY <1>8, <2>1, DropEvicts DEF FlushRemove, Next
<1>9. CASE EvictThumb(t)
  BY <1>9, DropEvicts DEF EvictThumb, Next
<1>. QED
  BY <1>1, <1>2, <1>3, <1>4, <1>5, <1>6, <1>7, <1>8, <1>9 DEF ThreadStep

\* So is any step.
LEMMA StepIsContract ==
    ASSUME IInv, Calls, [ThumbNext]_thumbVars
    PROVE  [Next]_vars
<1>1. ASSUME NEW t \in Threads, ThreadStep(t) PROVE [Next]_vars
  BY <1>1, ThreadStepIsContract
<1>2. CASE CleanupThumbs
  BY <1>2 DEF CleanupThumbs, Next
<1>3. CASE UNCHANGED thumbVars
  BY <1>3 DEF thumbVars
<1>. QED
  BY <1>1, <1>2, <1>3 DEF ThumbNext, ThreadStep

----------------------------------------------------------------------------
(* What the calls of the cache leave behind *)

\* A step of thread t leaves the other threads where they are, and the locks they write
\* with.
Alone(t) ==
    \A u \in Threads : u # t =>
        /\ pc'[u] = pc[u] /\ ptr'[u] = ptr[u] /\ step'[u] = step[u]
        /\ mip'[u] = mip[u] /\ src'[u] = src[u] /\ buf'[u] = buf[u] /\ asked'[u] = asked[u]
        /\ \A e \in Entries : wr[e] = u => wr'[e] = u

\* Where thread t is after a fetch of key k, and what the cache and the files are then.
Fetched(t, k, mode) ==
    LET e == ptr'[t]
    IN  /\ e \in Entries /\ pc'[t] = "hold"
        /\ mode = "w" => wr'[e] = t
        /\ \A u \in Threads : u # t =>
             /\ pc'[u] = pc[u] /\ ptr'[u] = ptr[u]
             /\ \A f \in Entries : wr[f] = u => wr'[f] = u
        /\ \/ /\ e = hashtable[k] /\ e \in alive /\ wr[e] = NULL
              /\ UNCHANGED <<tableVars, dataVars>>
           \/ /\ hashtable[k] = NULL /\ e \notin born /\ wr'[e] = t
              /\ \E S \in SUBSET Unused :
                    /\ hashtable' = [[j \in Keys |-> IF hashtable[j] \in S THEN NULL
                                                     ELSE hashtable[j]] EXCEPT ![k] = e]
                    /\ alive' = (alive \ S) \cup {e}
                    /\ ekey' = [ekey EXCEPT ![e] = k]
                    /\ born' = born \cup {e}
                    /\ \E d \in DiskAfter(S) : Allocate(e, k, d)
              /\ UNCHANGED inval

\* What a fetch has done when it returns.
LEMMA FetchMeaning ==
    ASSUME IInv, NEW t \in Threads, NEW k \in Keys, NEW mode, Fetch(t, k, mode)
    PROVE  Fetched(t, k, mode)
<1>. USE ContractAssumption, ThumbAssumption
<1>t. /\ wr \in [Entries -> Threads \cup {NULL}]
      /\ pc \in [Threads -> {"idle", "hold", "tail", "demoteTail", "demote"}]
      /\ ptr \in [Threads -> Entries \cup {NULL}]
      /\ hashtable \in [Keys -> Entries \cup {NULL}]
      /\ alive \subseteq born
  BY DEF IInv, TypeOK, AliveWasBorn
<1>1. CASE Hit(t, k, mode) /\ UNCHANGED dataVars
  <2>. DEFINE e == hashtable[k]
  <2>1. /\ e \in Entries /\ e \in alive /\ wr[e] = NULL
    BY <1>1, <1>t DEF Hit, Lockable, IInv, TableSound
  <2>2. /\ wr' = IF mode = "w" THEN [wr EXCEPT ![e] = t] ELSE wr
        /\ pc' = [pc EXCEPT ![t] = "hold"] /\ ptr' = [ptr EXCEPT ![t] = e]
        /\ UNCHANGED <<tableVars, dataVars>>
    BY <1>1 DEF Hit, Lock, Goto
  <2>. HIDE DEF e
  <2>3. pc'[t] = "hold" /\ ptr'[t] = e
    BY <1>t, <2>2
  <2>4. \A u \in Threads : u # t =>
             /\ pc'[u] = pc[u] /\ ptr'[u] = ptr[u]
             /\ \A f \in Entries : wr[f] = u => wr'[f] = u
    BY <1>t, <2>1, <2>2
  <2>5. mode = "w" => wr'[e] = t
    BY <1>t, <2>1, <2>2
  <2>. QED
    BY <2>1, <2>2, <2>3, <2>4, <2>5 DEF Fetched, e
<1>2. CASE /\ Miss(t, k, mode)
           /\ \E d \in DiskAfter(alive \ alive') : Allocate(ptr'[t], k, d)
           /\ UNCHANGED inval
  <2>1. PICK e \in Entries \ born :
            Insert(e, k) /\ Lock(t, e, IF HasAllocate THEN "w" ELSE mode) /\ Goto(t, "hold", e)
    BY <1>2 DEF Miss
  <2>2. PICK S \in SUBSET Unused :
            /\ hashtable' = [[j \in Keys |-> IF hashtable[j] \in S THEN NULL ELSE hashtable[j]]
                                EXCEPT ![k] = e]
            /\ alive' = (alive \ S) \cup {e}
    BY <2>1 DEF Insert
  <2>3. ekey' = [ekey EXCEPT ![e] = k] /\ born' = born \cup {e}
    BY <2>1 DEF Insert
  <2>4. alive \ alive' = S
    BY <1>t, <2>1, <2>2 DEF Unused
  <2>5. /\ wr' = [wr EXCEPT ![e] = t]
        /\ pc' = [pc EXCEPT ![t] = "hold"] /\ ptr' = [ptr EXCEPT ![t] = e]
    BY <2>1 DEF Lock, Goto
  <2>6. wr[e] = NULL
    <3>1. e \notin alive
      BY <1>t, <2>1
    <3>2. ASSUME wr[e] # NULL PROVE FALSE
      <4>1. wr[e] \in Threads
        BY <1>t, <2>1, <3>2
      <4>2. pc[wr[e]] = "hold" /\ ptr[wr[e]] = e
        BY <2>1, <4>1 DEF IInv, HeldIsLocked
      <4>. QED
        BY <3>1, <4>1, <4>2 DEF IInv, HeldIsLocked
    <3>. QED
      BY <3>2
  <2>7. pc'[t] = "hold" /\ ptr'[t] = e /\ wr'[e] = t
    BY <1>t, <2>1, <2>5
  <2>8. \A u \in Threads : u # t =>
             /\ pc'[u] = pc[u] /\ ptr'[u] = ptr[u]
             /\ \A f \in Entries : wr[f] = u => wr'[f] = u
    BY <1>t, <2>1, <2>5, <2>6
  <2>9. \E d \in DiskAfter(S) : Allocate(e, k, d)
    BY <1>2, <2>4, <2>7
  <2>10. hashtable[k] = NULL /\ UNCHANGED inval
    BY <1>2 DEF Miss
  <2>. QED
    BY <2>1, <2>2, <2>3, <2>7, <2>8, <2>9, <2>10 DEF Fetched
<1>. QED
  BY <1>1, <1>2 DEF Fetch

\* A lock that is given up was the thread's own.
LEMMA UnlockAlone ==
    ASSUME IInv, NEW t \in Threads, NEW label, NEW x,
           pc[t] = "hold", Unlock(t, ptr[t]), Goto(t, label, x)
    PROVE  /\ pc'[t] = label /\ ptr'[t] = x
           /\ \A u \in Threads : u # t =>
                /\ pc'[u] = pc[u] /\ ptr'[u] = ptr[u]
                /\ \A f \in Entries : wr[f] = u => wr'[f] = u
<1>t. /\ wr \in [Entries -> Threads \cup {NULL}]
      /\ pc \in [Threads -> {"idle", "hold", "tail", "demoteTail", "demote"}]
      /\ ptr \in [Threads -> Entries \cup {NULL}]
  BY DEF IInv, TypeOK
<1>1. pc' = [pc EXCEPT ![t] = label] /\ ptr' = [ptr EXCEPT ![t] = x]
  BY DEF Goto
<1>2. wr' = IF wr[ptr[t]] = t THEN [wr EXCEPT ![ptr[t]] = NULL] ELSE wr
  BY DEF Unlock
<1>. QED
  BY <1>t, <1>1, <1>2

\* A release leaves the thread idle, or in the tail of its unlock.
LEMMA ReleaseAlone ==
    ASSUME IInv, NEW t \in Threads, Release(t)
    PROVE  /\ pc'[t] \in {"idle", "tail"}
           /\ \A u \in Threads : u # t =>
                /\ pc'[u] = pc[u] /\ ptr'[u] = ptr[u]
                /\ \A f \in Entries : wr[f] = u => wr'[f] = u
<1>1. CASE wr[ptr[t]] = t
  BY <1>1, UnlockAlone DEF Release
<1>2. CASE wr[ptr[t]] # t
  BY <1>2, UnlockAlone DEF Release
<1>. QED
  BY <1>1, <1>2

\* The variables of the operations are functions on the threads.
OpTypes ==
    /\ step \in [Threads -> {"idle", "check", "render", "demote", "have", "swap", "flushTest",
                             "flushRelease", "flushRemove", "unlink"}]
    /\ mip \in [Threads -> Nat]
    /\ src \in [Threads -> Pixels]
    /\ buf \in [Threads -> Entries \cup {NULL}]
    /\ edit \in 0..MaxEdits
    /\ flushed \in 0..edit
    /\ asked \in [Threads -> 0..edit]
    /\ gen \in [Entries -> BOOLEAN] /\ inval \in [Entries -> BOOLEAN]
    /\ pix \in [Entries -> Pixels]
    /\ disk \in [Keys -> Files]

\* The smallest mip size, and the smallest larger thumbnail, exist.
LEMMA FirstKey == Min(Keys) = 0 /\ 0 \in Keys /\ Min(Keys) \in Nat
<1>1. 0 \in Keys /\ \A k \in Keys : k \in Nat /\ 0 =< k
  BY ThumbAssumption
<1>2. Min(Keys) \in Keys /\ \A k \in Keys : Min(Keys) =< k
  BY <1>1 DEF Min
<1>. QED
  BY <1>1, <1>2

\* _init_8 finds the smallest of the larger thumbnails, if there is one.
LEMMA SmallestLarger ==
    ASSUME NEW k, LargerThumbs(k) # {}
    PROVE  Min(LargerThumbs(k)) \in LargerThumbs(k)
<1>1. LargerThumbs(k) \in SUBSET Nat
  BY ThumbAssumption DEF LargerThumbs
<1>2. PICK j \in LargerThumbs(k) : \A i \in LargerThumbs(k) : j <= i
  BY <1>1, Smallest
<1>. QED
  BY <1>1, <1>2 DEF Min

\* A step of a thread concerns nobody else.
LEMMA StepAlone ==
    ASSUME IInv, OpTypes, Calls, NEW t \in Threads, ThreadStep(t)
    PROVE  Alone(t)
<1>. USE DEF At, Step
<1>o. /\ step \in [Threads -> {"idle", "check", "render", "demote", "have", "swap", "flushTest",
                              "flushRelease", "flushRemove", "unlink"}]
      /\ mip \in [Threads -> Nat]
      /\ src \in [Threads -> Pixels]
      /\ buf \in [Threads -> Entries \cup {NULL}]
      /\ asked \in [Threads -> 0..edit]
  BY DEF OpTypes
<1>. DEFINE Ops(u) == /\ step'[u] = step[u] /\ mip'[u] = mip[u] /\ src'[u] = src[u]
                      /\ buf'[u] = buf[u] /\ asked'[u] = asked[u]
            Cache(u) == /\ pc'[u] = pc[u] /\ ptr'[u] = ptr[u]
                        /\ \A f \in Entries : wr[f] = u => wr'[f] = u
<1>1. \A u \in Threads : u # t => Ops(u)
  <2>1. CASE GetThumb(t) \/ SwapGet(t) \/ RefetchThumb(t)
    BY <1>o, <2>1 DEF GetThumb, SwapGet, RefetchThumb
  <2>2. CASE CheckThumb(t) \/ Rendered(t) \/ Aborted(t)
    BY <1>o, <2>2 DEF CheckThumb, Rendered, Aborted
  <2>3. CASE DemoteThumb(t) \/ ReleaseThumb(t) \/ EndRelease(t) \/ SwapStore(t)
    BY <1>o, <2>3 DEF DemoteThumb, ReleaseThumb, EndRelease, SwapStore, opVars
  <2>4. CASE Commit(t) \/ FlushTest(t) \/ FlushRelease(t)
    BY <1>o, <2>4 DEF Commit, FlushTest, FlushRelease
  <2>5. CASE FlushRemove(t) \/ Unlink(t) \/ EvictThumb(t)
    BY <1>o, <2>5 DEF FlushRemove, Unlink, EvictThumb, opVars
  <2>. QED
    BY <2>1, <2>2, <2>3, <2>4, <2>5 DEF ThreadStep
<1>2. \A u \in Threads : u # t => Cache(u)
  <2>0. ASSUME UNCHANGED <<callVars, lockVars>> PROVE \A u \in Threads : u # t => Cache(u)
    BY <2>0 DEF callVars, lockVars
  <2>1. ASSUME NEW k \in Keys, NEW mode, Fetch(t, k, mode)
        PROVE  \A u \in Threads : u # t => Cache(u)
    BY <2>1, FetchMeaning DEF Fetched
  <2>2. CASE GetThumb(t) \/ SwapGet(t)
    BY <2>1, <2>2 DEF GetThumb, SwapGet
  <2>3. CASE RefetchThumb(t)
    <3>1. ekey[ptr[t]] \in Keys
      BY <2>3 DEF RefetchThumb, IInv, PointsToKey
    <3>. QED
      BY <2>1, <2>3, <3>1 DEF RefetchThumb
  <2>4. CASE CheckThumb(t) \/ Rendered(t) \/ Aborted(t) \/ Commit(t) \/ Unlink(t)
    BY <2>0, <2>4 DEF CheckThumb, Rendered, Aborted, Commit, Unlink, vars
  <2>5. CASE DemoteThumb(t)
    <3>1. CASE Demote(t)
      BY <3>1, UnlockAlone DEF Demote
    <3>2. CASE DemoteTail(t)
      <4>1. /\ pc' = [pc EXCEPT ![t] = "demote"] /\ ptr' = [ptr EXCEPT ![t] = ptr[t]]
            /\ UNCHANGED wr
        BY <3>2 DEF DemoteTail, Goto, lockVars
      <4>2. /\ pc \in [Threads -> {"idle", "hold", "tail", "demoteTail", "demote"}]
            /\ ptr \in [Threads -> Entries \cup {NULL}]
        BY DEF IInv, TypeOK
      <4>. QED
        BY <4>1, <4>2
    <3>. QED
      BY <2>5, <3>1, <3>2 DEF DemoteThumb
  <2>6. CASE ReleaseThumb(t) \/ SwapStore(t) \/ FlushRelease(t)
    BY <2>6, ReleaseAlone DEF ReleaseThumb, SwapStore, FlushRelease
  <2>7. CASE EndRelease(t)
    <3>1. /\ pc' = [pc EXCEPT ![t] = "idle"] /\ ptr' = [ptr EXCEPT ![t] = NULL]
          /\ UNCHANGED wr
      BY <2>7 DEF EndRelease, ReleaseTail, Goto, lockVars
    <3>2. /\ pc \in [Threads -> {"idle", "hold", "tail", "demoteTail", "demote"}]
          /\ ptr \in [Threads -> Entries \cup {NULL}]
      BY DEF IInv, TypeOK
    <3>. QED
      BY <3>1, <3>2
  <2>8. CASE FlushTest(t)
    <3>1. CASE Hit(t, mip[t], "w")
      <4>1. mip[t] \in Keys
        BY <2>8 DEF FlushTest, Calls, Flushing
      <4>2. Fetch(t, mip[t], "w")
        BY <2>8, <3>1 DEF FlushTest, Fetch
      <4>. QED
        BY <2>1, <4>1, <4>2
    <3>2. CASE UNCHANGED <<tableVars, lockVars, callVars>>
      BY <2>0, <3>2
    <3>. QED
      BY <2>8, <3>1, <3>2 DEF FlushTest
  <2>9. CASE FlushRemove(t) \/ EvictThumb(t)
    BY <2>0, <2>9 DEF FlushRemove, EvictThumb, Drop, vars
  <2>. QED
    BY <2>2, <2>3, <2>4, <2>5, <2>6, <2>7, <2>8, <2>9 DEF ThreadStep
<1>. QED
  BY <1>1, <1>2 DEF Alone

\* The data of a fetched entry have their types.
LEMMA FetchTypes ==
    ASSUME IInv, OpTypes, NEW t \in Threads, NEW k \in Keys, NEW mode, Fetch(t, k, mode)
    PROVE  /\ gen' \in [Entries -> BOOLEAN] /\ inval' \in [Entries -> BOOLEAN]
           /\ pix' \in [Entries -> Pixels]
           /\ disk' \in [Keys -> Files]
<1>1. CASE UNCHANGED dataVars
  BY <1>1 DEF OpTypes, dataVars
<1>2. ASSUME NEW e \in Entries, NEW S, NEW d \in DiskAfter(S), Allocate(e, k, d), UNCHANGED inval
      PROVE  /\ gen' \in [Entries -> BOOLEAN] /\ inval' \in [Entries -> BOOLEAN]
             /\ pix' \in [Entries -> Pixels]
             /\ disk' \in [Keys -> Files]
  <2>1. d \in [Keys -> Files] /\ d[k] \in Files
    BY DEF DiskAfter
  <2>2. BLANK \in Pixels /\ NULL \in Files /\ (d[k] # NULL => d[k] \in Pixels)
    BY <2>1 DEF Files, Pixels
  <2>. QED
    BY <1>2, <2>1, <2>2 DEF Allocate, OpTypes
<1>3. Fetched(t, k, mode)
  BY FetchMeaning
<1>. QED
  BY <1>1, <1>2, <1>3 DEF Fetched

\* A step of a thread keeps the types of all variables.
LEMMA StepTypes ==
    ASSUME IInv, OpTypes, Calls, NEW t \in Threads, ThreadStep(t)
    PROVE  OpTypes'
<1>. USE DEF At, Step
<1>o. /\ step \in [Threads -> {"idle", "check", "render", "demote", "have", "swap", "flushTest",
                              "flushRelease", "flushRemove", "unlink"}]
      /\ mip \in [Threads -> Nat]
      /\ src \in [Threads -> Pixels]
      /\ buf \in [Threads -> Entries \cup {NULL}]
      /\ edit \in 0..MaxEdits
      /\ flushed \in 0..edit
      /\ asked \in [Threads -> 0..edit]
      /\ gen \in [Entries -> BOOLEAN] /\ inval \in [Entries -> BOOLEAN]
      /\ pix \in [Entries -> Pixels]
      /\ disk \in [Keys -> Files]
      /\ MaxEdits \in Nat
  BY ThumbAssumption DEF OpTypes
<1>p. edit \in Pixels /\ BLANK \in Pixels /\ SKULL \in Pixels /\ NULL \in Files
  BY <1>o DEF Pixels, Files
<1>h. pc[t] # "idle" => ptr[t] \in Entries /\ ekey[ptr[t]] \in Keys
  BY DEF IInv, PointsToKey
<1>1. CASE GetThumb(t) \/ SwapGet(t)
  <2>1. PICK k \in Keys, mode \in {"r", "w"} : Fetch(t, k, mode)
    BY <1>1 DEF GetThumb, SwapGet
  <2>2. /\ gen' \in [Entries -> BOOLEAN] /\ inval' \in [Entries -> BOOLEAN]
        /\ pix' \in [Entries -> Pixels] /\ disk' \in [Keys -> Files]
    BY <2>1, FetchTypes
  <2>. QED
    BY <1>o, <1>p, <1>1, <2>2 DEF GetThumb, SwapGet, OpTypes
<1>2. CASE RefetchThumb(t)
  <2>1. Fetch(t, ekey[ptr[t]], "r") /\ ekey[ptr[t]] \in Keys
    BY <1>h, <1>2 DEF RefetchThumb
  <2>2. /\ gen' \in [Entries -> BOOLEAN] /\ inval' \in [Entries -> BOOLEAN]
        /\ pix' \in [Entries -> Pixels] /\ disk' \in [Keys -> Files]
    BY <2>1, FetchTypes
  <2>. QED
    BY <1>o, <1>2, <2>2 DEF RefetchThumb, OpTypes
<1>3. CASE CheckThumb(t)
  <2>1. ptr[t] \in Entries /\ ekey[ptr[t]] \in Keys
    BY <1>h, <1>3 DEF CheckThumb, Calls
  <2>2. Source(ekey[ptr[t]]) \in Pixels
    <3>1. CASE LargerThumbs(ekey[ptr[t]]) = {}
      BY <1>p, <3>1 DEF Source
    <3>2. CASE LargerThumbs(ekey[ptr[t]]) # {}
      <4>1. Min(LargerThumbs(ekey[ptr[t]])) \in LargerThumbs(ekey[ptr[t]])
        BY <3>2, SmallestLarger
      <4>2. hashtable[Min(LargerThumbs(ekey[ptr[t]]))] \in Entries
        BY <4>1 DEF LargerThumbs, IInv, TypeOK
      <4>. QED
        BY <1>o, <3>2, <4>2 DEF Source
    <3>. QED
      BY <3>1, <3>2
  <2>3. /\ step' \in [Threads -> {"idle", "check", "render", "demote", "have", "swap",
                                  "flushTest", "flushRelease", "flushRemove", "unlink"}]
        /\ src' \in [Threads -> Pixels]
        /\ buf' \in [Threads -> Entries \cup {NULL}]
    BY <1>o, <1>3, <2>1, <2>2 DEF CheckThumb
  <2>. QED
    BY <1>o, <1>3, <2>3 DEF CheckThumb, dataVars, OpTypes
<1>4. CASE Rendered(t) \/ Aborted(t)
  <2>1. ptr[t] \in Entries /\ src[t] \in Pixels
    BY <1>o, <1>h, <1>4 DEF Rendered, Aborted, Calls
  <2>2. PICK p \in {src[t], SKULL, BLANK} : pix' = [pix EXCEPT ![ptr[t]] = p]
    BY <1>4 DEF Rendered, Aborted
  <2>3. pix' \in [Entries -> Pixels]
    BY <1>o, <1>p, <2>1, <2>2
  <2>. QED
    BY <1>o, <1>4, <2>1, <2>3 DEF Rendered, Aborted, OpTypes
<1>5. CASE DemoteThumb(t) \/ EndRelease(t) \/ ReleaseThumb(t)
  BY <1>o, <1>5 DEF DemoteThumb, EndRelease, ReleaseThumb, opVars, dataVars, OpTypes
<1>6. CASE SwapStore(t)
  <2>1. ptr[t] \in Entries /\ src[t] \in Pixels
    BY <1>o, <1>h, <1>6 DEF SwapStore, Calls
  <2>. QED
    BY <1>o, <1>p, <1>6, <2>1 DEF SwapStore, OpTypes
<1>7. CASE Commit(t)
  <2>1. edit' = edit + 1 /\ edit' \in 0..MaxEdits /\ UNCHANGED flushed
    BY <1>o, <1>7 DEF Commit
  <2>2. flushed' \in 0..edit' /\ asked \in [Threads -> 0..edit']
    BY <1>o, <2>1
  <2>3. Min(Keys) \in Nat
    BY FirstKey
  <2>4. edit + 1 \in Pixels
    BY <2>1 DEF Pixels
  <2>. QED
    BY <1>o, <1>7, <2>1, <2>2, <2>3, <2>4 DEF Commit, dataVars, OpTypes
<1>8. CASE FlushTest(t)
  BY <1>o, <1>8 DEF FlushTest, dataVars, OpTypes
<1>9. CASE FlushRelease(t)
  BY <1>o, <1>h, <1>9 DEF FlushRelease, Calls, OpTypes
<1>10. CASE FlushRemove(t) \/ EvictThumb(t)
  <2>1. disk' \in [Keys -> Files]
    BY <1>o, <1>10 DEF FlushRemove, EvictThumb, Drop, DiskAfter
  <2>. QED
    BY <1>o, <1>10, <2>1 DEF FlushRemove, EvictThumb, opVars, OpTypes
<1>11. CASE Unlink(t)
  <2>1. disk' \in [Keys -> Files]
    BY <1>o, <1>p, <1>11 DEF Unlink
  <2>2. flushed' \in 0..edit
    <3>1. src[t] \in 0..edit
      BY <1>11 DEF Unlink, Calls, Flushing
    <3>2. Max({flushed, src[t]}) \in {flushed, src[t]}
      <4>1. \E x \in {flushed, src[t]} : \A y \in {flushed, src[t]} : x >= y
        BY <1>o, <3>1
      <4>. QED
        BY <4>1 DEF Max
    <3>. QED
      BY <1>o, <1>11, <3>1, <3>2 DEF Unlink
  <2>. QED
    BY <1>o, <1>11, <2>1, <2>2 DEF Unlink, OpTypes
<1>. QED
  BY <1>1, <1>2, <1>3, <1>4, <1>5, <1>6, <1>7, <1>8, <1>9, <1>10, <1>11 DEF ThreadStep

\* Every thread stays where its operation expects it in the cache.
LEMMA StepCalls ==
    ASSUME IInv, OpTypes, Calls, NEW t \in Threads, ThreadStep(t)
    PROVE  Calls'
<1>. USE DEF At, Step
<1>o. /\ step \in [Threads -> {"idle", "check", "render", "demote", "have", "swap", "flushTest",
                              "flushRelease", "flushRemove", "unlink"}]
      /\ mip \in [Threads -> Nat]
      /\ src \in [Threads -> Pixels]
      /\ edit \in 0..MaxEdits /\ MaxEdits \in Nat
  BY ThumbAssumption DEF OpTypes
<1>p. /\ pc \in [Threads -> {"idle", "hold", "tail", "demoteTail", "demote"}]
      /\ ptr \in [Threads -> Entries \cup {NULL}]
  BY DEF IInv, TypeOK
<1>e. edit' \in Nat /\ edit \in Nat /\ edit <= edit'
  <2>1. edit' = edit \/ edit' = edit + 1
    BY DEF ThreadStep, GetThumb, CheckThumb, Rendered, Aborted, DemoteThumb, RefetchThumb,
           ReleaseThumb, EndRelease, SwapGet, SwapStore, Commit, FlushTest, FlushRelease,
           FlushRemove, Unlink, EvictThumb
  <2>. QED
    BY <1>o, <2>1
<1>c. UNCHANGED closed
  BY DEF ThreadStep, GetThumb, CheckThumb, Rendered, Aborted, DemoteThumb, RefetchThumb,
         ReleaseThumb, EndRelease, SwapGet, SwapStore, Commit, FlushTest, FlushRelease,
         FlushRemove, Unlink, EvictThumb, Demote, DemoteTail, Release, ReleaseTail, Drop, vars
<1>h. pc[t] # "idle" => ptr[t] \in Entries /\ ekey[ptr[t]] \in Keys
  BY DEF IInv, PointsToKey
\* What Calls asks of one thread.
<1>. DEFINE Mine(u) ==
        /\ step[u] = "idle" => pc[u] \in {"idle", "tail"}
        /\ step[u] \in {"check", "render", "have"} => u \in Demoters /\ pc[u] = "hold"
        /\ step[u] = "demote" => u \in Demoters /\ pc[u] \in {"hold", "demoteTail", "demote"}
        /\ step[u] \in {"swap", "flushRelease"} => pc[u] = "hold" /\ wr[ptr[u]] = u
        /\ step[u] \in {"flushTest", "unlink"} => pc[u] = "idle"
        /\ step[u] = "flushRemove" => pc[u] \in {"idle", "tail"}
        /\ Flushing(u) => mip[u] \in Keys /\ src[u] \in 0..edit
        /\ closed => step[u] = "idle"
<1>m. \A u \in Threads : Mine(u)
  BY DEF Calls
<1>1. ASSUME NEW u \in Threads, u # t PROVE Mine(u)'
  <2>1. /\ pc'[u] = pc[u] /\ ptr'[u] = ptr[u] /\ step'[u] = step[u]
        /\ mip'[u] = mip[u] /\ src'[u] = src[u]
        /\ \A e \in Entries : wr[e] = u => wr'[e] = u
    BY <1>1, StepAlone DEF Alone
  <2>2. Mine(u)
    BY <1>m
  <2>3. Flushing(u)' <=> Flushing(u)
    BY <2>1 DEF Flushing
  <2>4. src[u] \in 0..edit => src[u] \in 0..edit'
    BY <1>e
  <2>5. pc[u] # "idle" => ptr[u] \in Entries
    BY DEF IInv, PointsToKey
  <2>. QED
    BY <1>c, <2>1, <2>2, <2>3, <2>4, <2>5
<1>2. Mine(t)
  BY <1>m
<1>3. Mine(t)'
  <2>1. CASE GetThumb(t)
    <3>1. PICK k \in Keys : Fetch(t, k, "r")
      BY <2>1 DEF GetThumb
    <3>2. pc'[t] = "hold"
      BY <3>1, FetchMeaning DEF Fetched
    <3>. QED
      BY <1>o, <1>c, <2>1, <3>2 DEF GetThumb, Idle, Flushing
  <2>2. CASE SwapGet(t)
    <3>1. PICK k \in Keys : Fetch(t, k, "w")
      BY <2>2 DEF SwapGet
    <3>2. pc'[t] = "hold" /\ wr'[ptr'[t]] = t
      BY <3>1, FetchMeaning DEF Fetched
    <3>. QED
      BY <1>o, <1>c, <2>2, <3>2 DEF SwapGet, Idle, Flushing
  <2>3. CASE CheckThumb(t) \/ Rendered(t) \/ Aborted(t)
    BY <1>o, <1>c, <1>2, <2>3 DEF CheckThumb, Rendered, Aborted, vars, callVars, Flushing
  <2>4. CASE DemoteThumb(t)
    <3>1. pc'[t] \in {"demoteTail", "demote"}
      BY <1>p, <2>4 DEF DemoteThumb, Demote, DemoteTail, Goto
    <3>. QED
      BY <1>c, <1>2, <2>4, <3>1 DEF DemoteThumb, opVars, Flushing
  <2>5. CASE RefetchThumb(t)
    <3>1. Fetch(t, ekey[ptr[t]], "r") /\ ekey[ptr[t]] \in Keys
      BY <1>h, <2>5 DEF RefetchThumb
    <3>2. pc'[t] = "hold"
      BY <3>1, FetchMeaning DEF Fetched
    <3>. QED
      BY <1>o, <1>c, <1>2, <2>5, <3>2 DEF RefetchThumb, Flushing
  <2>6. CASE ReleaseThumb(t) \/ SwapStore(t)
    <3>1. pc'[t] \in {"idle", "tail"}
      BY <2>6, ReleaseAlone DEF ReleaseThumb, SwapStore
    <3>. QED
      BY <1>o, <1>c, <2>6, <3>1 DEF ReleaseThumb, SwapStore, Flushing
  <2>7. CASE EndRelease(t)
    <3>1. pc[t] = "tail" /\ pc'[t] = "idle" /\ UNCHANGED <<opVars, edit>>
      BY <1>p, <2>7 DEF EndRelease, ReleaseTail, Goto
    <3>. QED
      BY <1>c, <1>2, <3>1 DEF opVars, Flushing
  <2>8. CASE Commit(t)
    <3>1. mip'[t] = 0 /\ 0 \in Keys /\ src'[t] = edit + 1 /\ edit' = edit + 1
      BY <1>o, <2>8, FirstKey DEF Commit
    <3>. QED
      BY <1>o, <1>c, <2>8, <3>1 DEF Commit, vars, callVars, Idle, Flushing
  <2>9. CASE FlushTest(t)
    <3>1. mip[t] \in Keys /\ src[t] \in 0..edit /\ ~closed /\ pc[t] = "idle"
      BY <1>2, <2>9 DEF FlushTest, Flushing
    <3>2. CASE Hit(t, mip[t], "w") /\ step' = [step EXCEPT ![t] = "flushRelease"]
      <4>1. Fetch(t, mip[t], "w")
        BY <2>9, <3>2 DEF FlushTest, Fetch
      <4>2. pc'[t] = "hold" /\ wr'[ptr'[t]] = t
        BY <3>1, <4>1, FetchMeaning DEF Fetched
      <4>. QED
        BY <1>o, <1>c, <2>9, <3>1, <3>2, <4>2 DEF FlushTest
    <3>3. CASE /\ step' = [step EXCEPT ![t] = "unlink"]
               /\ UNCHANGED <<tableVars, lockVars, callVars>>
      BY <1>o, <1>c, <2>9, <3>1, <3>3 DEF FlushTest, callVars
    <3>. QED
      BY <2>9, <3>2, <3>3 DEF FlushTest
  <2>10. CASE FlushRelease(t)
    <3>1. pc'[t] \in {"idle", "tail"}
      BY <2>10, ReleaseAlone DEF FlushRelease
    <3>. QED
      BY <1>o, <1>c, <1>2, <2>10, <3>1 DEF FlushRelease, Flushing
  <2>11. CASE FlushRemove(t)
    <3>1. pc'[t] = "idle"
      BY <2>11 DEF FlushRemove, Drop, vars, callVars
    <3>. QED
      BY <1>o, <1>c, <1>2, <2>11, <3>1 DEF FlushRemove, Flushing
  <2>12. CASE Unlink(t)
    <3>1. pc'[t] = "idle" /\ ~closed
      BY <1>2, <2>12 DEF Unlink, vars, callVars
    <3>. QED
      BY <1>o, <1>c, <1>2, <2>12, <3>1 DEF Unlink, Flushing
  <2>13. CASE EvictThumb(t)
    <3>1. pc'[t] = pc[t] /\ UNCHANGED <<opVars, edit>>
      BY <2>13 DEF EvictThumb, Drop, callVars
    <3>. QED
      BY <1>c, <1>2, <2>13, <3>1 DEF EvictThumb, At, opVars, Flushing
  <2>. QED
    BY <2>1, <2>2, <2>3, <2>4, <2>5, <2>6, <2>7, <2>8, <2>9, <2>10, <2>11, <2>12, <2>13
    DEF ThreadStep
<1>. QED
  BY <1>1, <1>3 DEF Calls

\* A step that leaves the table alone, or takes one unused entry from it.
TableKept == UNCHANGED <<hashtable, alive, ekey>>
TableLoses(e) == e \in Unused /\ Vanish({e}) /\ UNCHANGED ekey /\ disk' \in DiskAfter({e})

\* What a step does to the table: nothing, a fetch, or the loss of an entry.
LEMMA StepTable ==
    ASSUME IInv, Calls, NEW t \in Threads, ThreadStep(t)
    PROVE  \/ TableKept
           \/ \E k \in Keys, mode \in {"r", "w"} : Fetch(t, k, mode)
           \/ \E k \in Keys : hashtable[k] # NULL /\ TableLoses(hashtable[k])
<1>. USE DEF At
<1>1. CASE GetThumb(t) \/ SwapGet(t)
  BY <1>1 DEF GetThumb, SwapGet
<1>2. CASE RefetchThumb(t)
  <2>1. ekey[ptr[t]] \in Keys
    BY <1>2 DEF RefetchThumb, IInv, PointsToKey
  <2>. QED
    BY <1>2, <2>1 DEF RefetchThumb
<1>3. CASE \/ CheckThumb(t) \/ Rendered(t) \/ Aborted(t) \/ DemoteThumb(t) \/ ReleaseThumb(t)
           \/ EndRelease(t) \/ SwapStore(t) \/ Commit(t) \/ FlushRelease(t) \/ Unlink(t)
  BY <1>3
  DEF CheckThumb, Rendered, Aborted, DemoteThumb, ReleaseThumb, EndRelease, SwapStore, Commit,
      FlushRelease, Unlink, Demote, DemoteTail, Release, ReleaseTail, vars, tableVars, TableKept
<1>4. CASE FlushTest(t)
  <2>1. mip[t] \in Keys
    BY <1>4 DEF FlushTest, Calls, Flushing
  <2>. QED
    BY <1>4, <2>1 DEF FlushTest, Fetch, tableVars, TableKept
<1>5. CASE FlushRemove(t)
  <2>1. mip[t] \in Keys
    BY <1>5 DEF FlushRemove, Calls, Flushing
  <2>. QED
    BY <1>5, <2>1 DEF FlushRemove, Drop, vars, tableVars, TableKept, TableLoses
<1>6. CASE EvictThumb(t)
  BY <1>6 DEF EvictThumb, Drop, TableLoses
<1>. QED
  BY <1>1, <1>2, <1>3, <1>4, <1>5, <1>6 DEF ThreadStep

\* A step of a thread leaves every living entry in the table.
LEMMA StepIndexed ==
    ASSUME IInv, Calls, Indexed, NEW t \in Threads, ThreadStep(t)
    PROVE  Indexed'
<1>t. /\ hashtable \in [Keys -> Entries \cup {NULL}]
      /\ ekey \in [Entries -> Keys \cup {NULL}]
      /\ alive \subseteq Entries /\ alive \subseteq born
  BY DEF IInv, TypeOK, AliveWasBorn
<1>1. CASE TableKept
  BY <1>1 DEF TableKept, Indexed
<1>2. ASSUME NEW k \in Keys, NEW mode, Fetch(t, k, mode) PROVE Indexed'
  <2>1. Fetched(t, k, mode)
    BY <1>2, FetchMeaning
  <2>. DEFINE e == ptr'[t]
  <2>2. CASE UNCHANGED tableVars
    BY <2>2 DEF tableVars, Indexed
  <2>3. ASSUME NEW S \in SUBSET Unused, e \in Entries, e \notin born, hashtable[k] = NULL,
               hashtable' = [[j \in Keys |-> IF hashtable[j] \in S THEN NULL
                                              ELSE hashtable[j]] EXCEPT ![k] = e],
               alive' = (alive \ S) \cup {e}, ekey' = [ekey EXCEPT ![e] = k]
        PROVE  Indexed'
    <3>. HIDE DEF e
    <3>1. e \notin alive
      BY <1>t, <2>3
    <3>2. ekey'[e] = k /\ \A f \in alive : ekey'[f] = ekey[f]
      BY <1>t, <2>3, <3>1
    <3>3. /\ hashtable'[k] = e
          /\ \A j \in Keys : j # k =>
               hashtable'[j] = IF hashtable[j] \in S THEN NULL ELSE hashtable[j]
      BY <2>3
    <3>4. \A f \in alive : ekey[f] \in Keys /\ hashtable[ekey[f]] = f /\ f # NULL
      BY <1>t, ContractAssumption DEF Indexed
    <3>5. \A f \in alive : ekey[f] # k
      BY <2>3, <3>4
    <3>. QED
      BY <2>3, <3>2, <3>3, <3>4, <3>5 DEF Indexed
  <2>. QED
    BY <2>1, <2>2, <2>3 DEF Fetched
<1>3. ASSUME NEW e, TableLoses(e) PROVE Indexed'
  BY <1>3 DEF TableLoses, Vanish, Indexed
<1>. QED
  BY <1>1, <1>2, <1>3, StepTable

----------------------------------------------------------------------------
(* What is spoilt, and who lost its protection *)

\* The bookkeeping of shutdowns, lost protections and flushes names threads and entries.
Ghosts == exposed \subseteq Threads /\ spoilt \subseteq born /\ calm \subseteq Threads

\* A demotion that is not exposed has its entry allocated and protected.
Shielded == \A t \in Threads : Demotes(t) /\ t \notin exposed => Protected(ptr[t])

\* An entry that was allocated keeps its key.
LEMMA StepKeys ==
    ASSUME IInv, Calls, NEW t \in Threads, ThreadStep(t)
    PROVE  \A e \in born : e \in born' /\ ekey'[e] = ekey[e]
<1>t. ekey \in [Entries -> Keys \cup {NULL}] /\ born \subseteq Entries
  BY DEF IInv, TypeOK
<1>1. ASSUME NEW u \in Threads, NEW k, NEW mode, Hit(u, k, mode) \/ Miss(u, k, mode)
      PROVE  \A e \in born : e \in born' /\ ekey'[e] = ekey[e]
  <2>1. CASE Hit(u, k, mode)
    BY <2>1 DEF Hit, tableVars
  <2>2. CASE Miss(u, k, mode)
    <3>1. PICK e \in Entries \ born : Insert(e, k)
      BY <2>2 DEF Miss
    <3>. QED
      BY <1>t, <3>1 DEF Insert
  <2>. QED
    BY <1>1, <2>1, <2>2
<1>2. [Next]_vars
  BY ThreadStepIsContract
<1>3. ASSUME NEW u \in Threads, Get(u) \/ DemoteGet(u)
      PROVE  \A e \in born : e \in born' /\ ekey'[e] = ekey[e]
  BY <1>1, <1>3 DEF Get, DemoteGet
<1>4. ASSUME NEW u \in Threads, Seed(u)
      PROVE  \A e \in born : e \in born' /\ ekey'[e] = ekey[e]
  <2>1. PICK k \in Keys, e \in Entries \ born : Insert(e, k)
    BY <1>4 DEF Seed
  <2>. QED
    BY <1>t, <2>1 DEF Insert
<1>5. ASSUME NEW u \in Threads,
             Release(u) \/ ReleaseTail(u) \/ Demote(u) \/ DemoteTail(u) \/ Evict(u)
      PROVE  \A e \in born : e \in born' /\ ekey'[e] = ekey[e]
  BY <1>5 DEF Release, ReleaseTail, Demote, DemoteTail, Evict, tableVars
<1>6. CASE Cleanup \/ UNCHANGED vars
  BY <1>6 DEF Cleanup, vars, tableVars
<1>. QED
  BY <1>2, <1>3, <1>4, <1>5, <1>6 DEF Next

\* What a step adds to the entries that are spoilt, and to the requests that are exposed.
LEMMA StepSpoils ==
    ASSUME IInv, IInv', OpTypes, Calls, Ghosts, NEW t \in Threads, ThreadStep(t)
    PROVE  /\ spoilt \subseteq spoilt' /\ spoilt' \subseteq born'
           /\ exposed' \subseteq Threads
           /\ \A u \in exposed : u \in exposed' \/ (u = t /\ step'[t] = "idle")
           /\ \A u \in Threads : u # t /\ u \in exposed' => u \in exposed \/ RefetchThumb(t)
<1>. USE DEF At, Step
<1>t. step \in [Threads -> {"idle", "check", "render", "demote", "have", "swap", "flushTest",
                            "flushRelease", "flushRemove", "unlink"}]
  BY DEF OpTypes
<1>b. born \subseteq born' /\ alive \subseteq born /\ alive' \subseteq born'
  BY StepKeys DEF IInv, AliveWasBorn
<1>g. exposed \subseteq Threads /\ spoilt \subseteq born
  BY DEF Ghosts
<1>1. CASE UNCHANGED spoilVars
  BY <1>1, <1>b, <1>g DEF spoilVars
<1>2. CASE Aborted(t)
  <2>1. ptr[t] \in alive
    BY <1>2 DEF Aborted, Calls, IInv, HeldIsLocked
  <2>. QED
    BY <1>2, <1>b, <1>g, <2>1 DEF Aborted
<1>3. CASE RefetchThumb(t)
  <2>1. ekey[ptr[t]] \in Keys /\ Fetch(t, ekey[ptr[t]], "r")
    BY <1>3 DEF RefetchThumb, IInv, PointsToKey
  <2>2. pc'[t] = "hold"
    BY <2>1, FetchMeaning DEF Fetched
  <2>3. ptr'[t] \in alive'
    BY <2>2 DEF IInv, HeldIsLocked
  <2>. QED
    BY <1>3, <1>b, <1>g, <2>3 DEF RefetchThumb
<1>4. CASE ReleaseThumb(t)
  BY <1>4, <1>b, <1>g, <1>t DEF ReleaseThumb
<1>. QED
  BY <1>1, <1>2, <1>3, <1>4
  DEF ThreadStep, GetThumb, CheckThumb, Rendered, DemoteThumb, EndRelease, SwapGet, SwapStore,
      Commit, FlushTest, FlushRelease, FlushRemove, Unlink, EvictThumb

\* A request that is not exposed keeps the protection of its entry until its demotion ends.
LEMMA StepShielded ==
    ASSUME IInv, IInv', OpTypes, Calls, Calls', Ghosts, Shielded, NEW t \in Threads, ThreadStep(t)
    PROVE  Shielded'
<1>. SUFFICES ASSUME NEW u \in Threads, Demotes(u)', u \notin exposed'
              PROVE  Protected(ptr[u])'
  BY DEF Shielded
<1>1. KeepsProtection(u)
  BY ThreadStepIsContract, StepProtects
<1>2. step'[u] # "idle"
  BY DEF Calls, Demotes
<1>3. u \notin exposed
  BY <1>2, StepSpoils
<1>4. ASSUME NEW v \in Threads \ {u}, Demotes(v), ~Demotes(v)', ptr'[v] = ptr[u], Demotes(u)
      PROVE  FALSE
  <2>1. v = t
    BY <1>4, StepAlone DEF Alone, Demotes
  <2>2. pc[t] \in {"demoteTail", "demote"} /\ pc'[t] \notin {"demoteTail", "demote"}
    BY <1>4, <2>1 DEF Demotes
  <2>3. step[t] = "demote"
    BY <2>2 DEF Calls, OpTypes, Flushing
  <2>4. DemoteThumb(t) \/ RefetchThumb(t)
    BY <2>2, <2>3 DEF ThreadStep, GetThumb, CheckThumb, Rendered, Aborted, ReleaseThumb, EndRelease,
       ReleaseTail, SwapGet, SwapStore, Commit, FlushTest, FlushRelease, FlushRemove, Unlink,
       EvictThumb, At
  <2>5. ~DemoteThumb(t)
    <3>1. pc \in [Threads -> {"idle", "hold", "tail", "demoteTail", "demote"}]
      BY DEF IInv, TypeOK
    <3>. QED
      BY <2>2, <3>1 DEF DemoteThumb, Demote, DemoteTail, Goto
  <2>6. u \in exposed'
    BY <1>4, <2>1, <2>4, <2>5 DEF RefetchThumb
  <2>. QED
    BY <2>6
<1>5. Demotes(u) => Protected(ptr[u])
  BY <1>3 DEF Shielded
<1>6. ASSUME ~Demotes(u) PROVE Protected(ptr[u])'
  <2>1. u = t
    BY <1>6, StepAlone DEF Alone, Demotes
  <2>2. KeepsProtection(t) /\ \A v \in Threads \ {t} : pc'[v] = pc[v]
    BY <1>1, <2>1, StepAlone DEF Alone
  <2>3. ~\E v \in Threads \ {t} : Demotes(v) /\ ~Demotes(v)' /\ ptr'[v] = ptr[t]
    BY <2>2 DEF Demotes
  <2>. QED
    BY <1>6, <2>1, <2>2, <2>3 DEF KeepsProtection
<1>7. ASSUME Demotes(u) PROVE Protected(ptr[u])'
  BY <1>1, <1>4, <1>5, <1>7 DEF KeepsProtection
<1>. QED
  BY <1>6, <1>7

----------------------------------------------------------------------------
(* The invariant of every use *)

ThumbInv == IInv /\ OpTypes /\ Calls /\ Indexed /\ Ghosts /\ Shielded

\* The invariant holds at first.
LEMMA InitInv == ThumbInit => ThumbInv
<1>. SUFFICES ASSUME ThumbInit PROVE ThumbInv
  OBVIOUS
<1>1. IInv
  BY InitIInv DEF ThumbInit
<1>2. OpTypes
  BY ThumbAssumption DEF ThumbInit, OpTypes, Pixels, Files
<1>3. Calls /\ Indexed
  BY DEF ThumbInit, Init, Calls, Flushing, Indexed
<1>4. Ghosts /\ Shielded
  BY DEF ThumbInit, Init, Ghosts, Shielded, Demotes
<1>. QED
  BY <1>1, <1>2, <1>3, <1>4 DEF ThumbInv

\* dt_mipmap_cache_cleanup keeps it.
LEMMA CleanupInv ==
    ASSUME ThumbInv, CleanupThumbs, Calm
    PROVE  OpTypes' /\ Calls' /\ Indexed' /\ Ghosts' /\ Shielded'
<1>1. disk' \in [Keys -> Files]
  BY DEF CleanupThumbs, DiskAfter
<1>2. /\ UNCHANGED <<gen, inval, pix, edit, flushed, opVars, spoilVars, wr, pc, ptr, born>>
      /\ alive' = {}
  BY DEF CleanupThumbs, Cleanup, lockVars, callVars
<1>3. \A t \in Threads : step[t] = "idle" /\ pc[t] = "idle"
  BY DEF CleanupThumbs, Cleanup, At
<1>4. OpTypes'
  BY <1>1, <1>2 DEF ThumbInv, OpTypes, opVars
<1>5. Calls'
  BY <1>2, <1>3 DEF ThumbInv, Calls, Flushing, opVars
<1>6. Ghosts' /\ Shielded'
  BY <1>2, <1>3 DEF ThumbInv, Ghosts, Shielded, Demotes, Calm, spoilVars
<1>. QED
  BY <1>2, <1>4, <1>5, <1>6 DEF Indexed

\* Every step keeps it.
LEMMA NextInv == ThumbInv /\ [ThumbNext]_thumbVars => ThumbInv'
<1>. SUFFICES ASSUME ThumbInv, [ThumbNext]_thumbVars PROVE ThumbInv'
  OBVIOUS
<1>1. IInv'
  BY StepIsContract, StepKeeps DEF ThumbInv
<1>2. ASSUME NEW t \in Threads, ThreadStep(t), Calm PROVE ThumbInv'
  <2>1. OpTypes' /\ Calls' /\ Indexed'
    BY <1>2, StepTypes, StepCalls, StepIndexed DEF ThumbInv
  <2>2. Ghosts'
    BY <1>1, <1>2, StepSpoils DEF ThumbInv, Ghosts, Calm
  <2>3. Shielded'
    BY <1>1, <1>2, <2>1, StepShielded DEF ThumbInv
  <2>. QED
    BY <1>1, <2>1, <2>2, <2>3 DEF ThumbInv
<1>3. CASE CleanupThumbs /\ Calm
  BY <1>1, <1>3, CleanupInv DEF ThumbInv
<1>4. CASE UNCHANGED thumbVars
  BY <1>1, <1>4
  DEF ThumbInv, OpTypes, Calls, Indexed, Ghosts, Shielded, Demotes, Protected, Flushing, thumbVars,
      dataVars, opVars, spoilVars, vars, tableVars, lockVars, callVars
<1>. QED
  BY <1>2, <1>3, <1>4 DEF ThumbNext, ThreadStep

\* Every variable of the thumbnails keeps its type, every thread is where its operation
\* expects it in the cache, every living entry is found under its key, and a demotion keeps
\* its entry unless another one ended on it.
THEOREM ThumbsKeepInvariant == ThumbSpec => []ThumbInv
BY InitInv, NextInv, PTL DEF ThumbSpec

\* Every variable of the thumbnails keeps its type, for any threads, sizes and entries.
THEOREM ThumbTypes == ThumbSpec => []ThumbTypeOK
<1>1. ThumbInv => ThumbTypeOK
  BY DEF ThumbInv, IInv, TypeOK, OpTypes, Ghosts, ThumbTypeOK
<1>. QED
  BY <1>1, ThumbsKeepInvariant, PTL

\* mipmap_cache.c uses the cache as it is meant to be used, whatever threads request, store,
\* edit and evict.
THEOREM ThumbsUseContract == ThumbSpec => UsesContract
<1>1. ThumbInit => Init
  BY DEF ThumbInit
<1>2. ThumbInv /\ [ThumbNext]_thumbVars => [Next]_vars
  BY StepIsContract DEF ThumbInv
<1>. QED
  BY <1>1, <1>2, ThumbsKeepInvariant, PTL DEF ThumbSpec, UsesContract, Spec

----------------------------------------------------------------------------
(* Pixels and files *)

\* An entry that is marked, and not spoilt, is held for writing by the thread that will fill it;
\* one that is not marked shows a picture, unless it may have been made from a spoilt one.
EntriesReady ==
    /\ \A e \in alive \ spoilt :
        gen[e] => wr[e] \in Threads /\ step[wr[e]] \in {"check", "render", "swap"}
    /\ \A e \in alive : pix[e] = BLANK => gen[e] \/ ~Clean(ekey[e])

\* What is rendered is a picture, or may have been made from a spoilt entry; a renderer of an
\* entry that is not spoilt has it for writing; and what a request will hand out is in the entry
\* it keeps, rendered, unless it is exposed or the entry spoilt.
CallsReady ==
    \A t \in Threads :
        /\ step[t] \in {"render", "swap"} => src[t] # BLANK \/ ~Clean(ekey[ptr[t]])
        /\ step[t] = "render" /\ ptr[t] \notin spoilt => wr[ptr[t]] = t
        /\ step[t] \in {"demote", "have"} /\ buf[t] # NULL /\ t \notin exposed =>
             buf[t] = ptr[t] /\ (gen[ptr[t]] => ptr[t] \in spoilt)

Ready == EntriesReady /\ CallsReady /\ NoPoisonOnDisk

\* The key of a spoilt entry, and of every smaller one, is not clean.
LEMMA SpoiltNotClean ==
    ASSUME ThumbInv, NEW e \in spoilt, NEW k \in Keys, k <= ekey[e]
    PROVE  ~Clean(k)
<1>1. ekey[e] \in Keys /\ k \in Nat
  BY ThumbAssumption DEF ThumbInv, Ghosts, IInv, BornHasKey
<1>2. ekey[e] \in Nat
  BY <1>1, ThumbAssumption
<1>. QED
  BY <1>1, <1>2 DEF Clean

\* What a size was made from is clean if it is clean itself.
LEMMA CleanUpwards ==
    ASSUME ThumbInv, NEW j \in Keys, NEW k \in Keys, k <= j, ~Clean(j)
    PROVE  ~Clean(k)
<1>1. PICK e \in spoilt : ~(ekey[e] < j)
  BY DEF Clean
<1>2. ekey[e] \in Keys
  BY <1>1 DEF ThumbInv, Ghosts, IInv, BornHasKey
<1>3. ekey[e] \in Nat /\ j \in Nat /\ k \in Nat
  BY <1>2, ThumbAssumption
<1>. QED
  BY <1>1, <1>3 DEF Clean

\* What is not clean stays so.
LEMMA CleanShrinks ==
    ASSUME ThumbInv, ThumbInv', NEW t \in Threads, ThreadStep(t), NEW k, ~Clean(k)
    PROVE  ~Clean(k)'
<1>1. PICK e \in spoilt : ~(ekey[e] < k)
  BY DEF Clean
<1>2. e \in spoilt' /\ ekey'[e] = ekey[e]
  BY <1>1, StepSpoils, StepKeys DEF ThumbInv, Ghosts
<1>. QED
  BY <1>1, <1>2 DEF Clean

\* An entry that nobody has for writing shows a picture, if its size is clean.
LEMMA UnlockedIsPicture ==
    ASSUME ThumbInv, EntriesReady, NEW e \in alive, wr[e] = NULL, Clean(ekey[e])
    PROVE  pix[e] # BLANK
<1>1. ekey[e] \in Keys
  BY DEF ThumbInv, Indexed
<1>2. ekey[e] <= ekey[e]
  BY <1>1, ThumbAssumption
<1>3. e \notin spoilt
  BY <1>1, <1>2, SpoiltNotClean
<1>. QED
  BY <1>3, ContractAssumption DEF EntriesReady

\* Deallocating entries that nobody holds poisons no file of a clean size.
LEMMA SavedIsPicture ==
    ASSUME ThumbInv, EntriesReady, NoPoisonOnDisk,
           NEW S \in SUBSET alive, \A e \in S : wr[e] = NULL, NEW d \in DiskAfter(S)
    PROVE  \A k \in Keys : d[k] = BLANK => ~Clean(k)
<1>. SUFFICES ASSUME NEW k \in Keys, Clean(k) PROVE d[k] # BLANK
  OBVIOUS
<1>1. d[k] \in IF hashtable[k] \in S THEN Saved(hashtable[k]) ELSE {disk[k]}
  BY DEF DiskAfter
<1>2. CASE hashtable[k] \in S
  <2>1. ekey[hashtable[k]] = k
    BY <1>2, ContractAssumption DEF ThumbInv, IInv, TableSound, TypeOK
  <2>2. pix[hashtable[k]] # BLANK
    BY <1>2, <2>1, UnlockedIsPicture
  <2>3. disk[k] # BLANK /\ NULL # BLANK
    BY ThumbAssumption DEF NoPoisonOnDisk
  <2>. QED
    BY <1>1, <1>2, <2>1, <2>2, <2>3 DEF Saved
<1>3. CASE hashtable[k] \notin S
  BY <1>1, <1>3 DEF NoPoisonOnDisk
<1>. QED
  BY <1>2, <1>3

\* What a step does to the flags and pixels of the entries that were there.
LEMMA StepData ==
    ASSUME ThumbInv, NEW t \in Threads, ThreadStep(t), NEW e \in alive
    PROVE  /\ gen'[e] => gen[e]
           /\ \/ pix'[e] = pix[e] /\ gen'[e] = gen[e]
              \/ e = ptr[t] /\ step[t] \in {"render", "swap"}
           /\ step[t] \in {"render", "swap"} /\ e = ptr[t] /\ ~Aborted(t) => ~gen'[e]
<1>. USE DEF At, Step
<1>t. /\ gen \in [Entries -> BOOLEAN] /\ pix \in [Entries -> Pixels]
      /\ alive \subseteq Entries /\ alive \subseteq born
      /\ step \in [Threads -> {"idle", "check", "render", "demote", "have", "swap", "flushTest",
                              "flushRelease", "flushRemove", "unlink"}]
  BY DEF ThumbInv, OpTypes, IInv, TypeOK, AliveWasBorn
<1>1. CASE UNCHANGED <<gen, pix>> /\ step[t] \notin {"render", "swap"}
  BY <1>1
<1>2. ASSUME NEW k \in Keys, NEW mode, Fetch(t, k, mode), step[t] \notin {"render", "swap"}
      PROVE  gen'[e] = gen[e] /\ pix'[e] = pix[e]
  <2>1. Fetched(t, k, mode)
    BY <1>2, FetchMeaning DEF ThumbInv
  <2>2. CASE UNCHANGED dataVars
    BY <2>2 DEF dataVars
  <2>3. ASSUME NEW d, Allocate(ptr'[t], k, d), ptr'[t] \notin born
        PROVE  gen'[e] = gen[e] /\ pix'[e] = pix[e]
    <3>1. e # ptr'[t]
      BY <1>t, <2>3
    <3>. QED
      BY <1>t, <2>3, <3>1 DEF Allocate
  <2>. QED
    BY <2>1, <2>2, <2>3 DEF Fetched
<1>3. CASE GetThumb(t) \/ SwapGet(t)
  BY <1>2, <1>3 DEF GetThumb, SwapGet
<1>4. CASE RefetchThumb(t)
  <2>1. ekey[ptr[t]] \in Keys
    BY <1>4 DEF RefetchThumb, ThumbInv, IInv, PointsToKey
  <2>. QED
    BY <1>2, <1>4, <2>1 DEF RefetchThumb
<1>5. CASE CheckThumb(t) \/ DemoteThumb(t) \/ ReleaseThumb(t) \/ Commit(t) \/ FlushTest(t)
           \/ FlushRelease(t) \/ FlushRemove(t) \/ Unlink(t) \/ EvictThumb(t)
  BY <1>1, <1>5
  DEF CheckThumb, DemoteThumb, ReleaseThumb, Commit, FlushTest, FlushRelease, FlushRemove,
      Unlink, EvictThumb, dataVars
<1>6. CASE EndRelease(t)
  <2>1. step[t] \notin {"render", "swap"}
    BY <1>6 DEF EndRelease, ReleaseTail, ThumbInv, Calls
  <2>. QED
    BY <1>1, <1>6, <2>1 DEF EndRelease, dataVars
<1>7. CASE Rendered(t) \/ SwapStore(t)
  BY <1>t, <1>7 DEF Rendered, SwapStore
<1>8. CASE Aborted(t)
  BY <1>t, <1>8 DEF Aborted
<1>. QED
  BY <1>3, <1>4, <1>5, <1>6, <1>7, <1>8 DEF ThreadStep

\* A request that is not exposed finds its own entry again when its demotion ends.
LEMMA RefetchFindsSame ==
    ASSUME ThumbInv, NEW t \in Threads, t \notin exposed, RefetchThumb(t)
    PROVE  /\ ptr'[t] = ptr[t] /\ ptr[t] \in alive
           /\ UNCHANGED <<tableVars, dataVars>>
<1>1. step[t] = "demote" /\ pc[t] = "demote" /\ Fetch(t, ekey[ptr[t]], "r")
  BY DEF RefetchThumb, At
<1>2. ekey[ptr[t]] \in Keys /\ ptr[t] \in Entries
  BY <1>1 DEF ThumbInv, IInv, PointsToKey
<1>3. ptr[t] \in alive
  BY <1>1 DEF ThumbInv, Shielded, Demotes, Protected
<1>4. hashtable[ekey[ptr[t]]] = ptr[t] /\ ptr[t] # NULL
  BY <1>2, <1>3, ContractAssumption DEF ThumbInv, Indexed
<1>5. Fetched(t, ekey[ptr[t]], "r")
  BY <1>1, <1>2, FetchMeaning DEF ThumbInv
<1>. QED
  BY <1>3, <1>4, <1>5 DEF Fetched

\* The picture that a request renders from.
LEMMA SourceIsPicture ==
    ASSUME ThumbInv, EntriesReady, NEW k \in Keys, Clean(k)
    PROVE  Source(k) # BLANK
<1>1. CASE LargerThumbs(k) = {}
  <2>1. edit \in Nat /\ BLANK \notin Nat
    BY ThumbAssumption DEF ThumbInv, OpTypes
  <2>. QED
    BY <1>1, <2>1 DEF Source
<1>2. CASE LargerThumbs(k) # {}
  <2>. DEFINE j == Min(LargerThumbs(k))
              e == hashtable[j]
  <2>1. j \in Keys /\ j > k /\ e \in alive /\ wr[e] = NULL /\ ekey[e] = j
    BY <1>2, SmallestLarger DEF LargerThumbs, Lockable, ThumbInv, IInv, TableSound
  <2>2. Source(k) = pix[e]
    BY <1>2 DEF Source
  <2>. HIDE DEF j, e
  <2>3. k <= j
    BY <2>1, ThumbAssumption
  <2>4. Clean(j)
    BY <2>1, <2>3, CleanUpwards
  <2>. QED
    BY <2>1, <2>2, <2>4, UnlockedIsPicture
<1>. QED
  BY <1>1, <1>2

\* The entry that a step brings in, if any: somebody will render it, or it is spoilt.
LEMMA NewEntryReady ==
    ASSUME ThumbInv, ThumbInv', Ready, NEW t \in Threads, ThreadStep(t),
           NEW e \in alive', e \notin alive
    PROVE  /\ gen'[e] /\ e \notin spoilt' => wr'[e] = t /\ step'[t] \in {"check", "swap"}
           /\ pix'[e] = BLANK => gen'[e] \/ ~Clean(ekey'[e])
<1>. USE DEF At, Step
<1>t. /\ gen \in [Entries -> BOOLEAN] /\ pix \in [Entries -> Pixels]
      /\ ekey \in [Entries -> Keys \cup {NULL}]
      /\ step \in [Threads -> {"idle", "check", "render", "demote", "have", "swap", "flushTest",
                              "flushRelease", "flushRemove", "unlink"}]
  BY DEF ThumbInv, OpTypes, IInv, TypeOK
<1>u. Unused \subseteq alive /\ \A f \in Unused : wr[f] = NULL
  BY DEF Unused
<1>1. ~TableKept /\ ~\E f : TableLoses(f)
  BY DEF TableKept, TableLoses, Vanish
<1>2. PICK k \in Keys, mode \in {"r", "w"} : Fetch(t, k, mode)
  BY <1>1, StepTable DEF ThumbInv
<1>3. Fetched(t, k, mode)
  BY <1>2, FetchMeaning DEF ThumbInv
<1>4. ~UNCHANGED tableVars
  BY DEF tableVars
<1>5. PICK S \in SUBSET Unused :
          /\ alive' = (alive \ S) \cup {ptr'[t]} /\ ekey' = [ekey EXCEPT ![ptr'[t]] = k]
          /\ \E d \in DiskAfter(S) : Allocate(ptr'[t], k, d)
  BY <1>3, <1>4 DEF Fetched
<1>6. e = ptr'[t] /\ wr'[e] = t /\ e \in Entries /\ ekey'[e] = k
  BY <1>t, <1>3, <1>4, <1>5 DEF Fetched
<1>7. PICK d \in DiskAfter(S) : Allocate(ptr'[t], k, d)
  BY <1>5
<1>8. d[k] = BLANK => ~Clean(k)
  BY <1>u, SavedIsPicture DEF Ready
<1>9. pix'[e] = BLANK => gen'[e] \/ ~Clean(ekey'[e])
  BY <1>t, <1>6, <1>7, <1>8 DEF Allocate
<1>10. gen'[e] /\ e \notin spoilt' => step'[t] \in {"check", "swap"}
  <2>1. CASE GetThumb(t) \/ SwapGet(t)
    BY <1>t, <2>1 DEF GetThumb, SwapGet
  <2>2. CASE RefetchThumb(t)
    <3>1. t \in exposed
      BY <1>4, <2>2, RefetchFindsSame
    <3>. QED
      BY <1>6, <2>2, <3>1 DEF RefetchThumb
  <2>3. CASE \/ CheckThumb(t) \/ Rendered(t) \/ Aborted(t) \/ DemoteThumb(t) \/ ReleaseThumb(t)
             \/ EndRelease(t) \/ SwapStore(t) \/ Commit(t) \/ FlushRelease(t) \/ Unlink(t)
             \/ FlushTest(t)
    BY <1>4, <2>3
    DEF CheckThumb, Rendered, Aborted, DemoteThumb, ReleaseThumb, EndRelease, SwapStore, Commit,
        FlushRelease, Unlink, FlushTest, Hit, Demote, DemoteTail, Release, ReleaseTail, vars
  <2>4. CASE FlushRemove(t) \/ EvictThumb(t)
    BY <2>4 DEF FlushRemove, EvictThumb, Drop, Vanish, vars, tableVars
  <2>. QED
    BY <2>1, <2>2, <2>3, <2>4 DEF ThreadStep
<1>. QED
  BY <1>6, <1>9, <1>10

\* What a step does to the entries that were there.
LEMMA StepEntriesReady ==
    ASSUME ThumbInv, ThumbInv', Ready, NEW t \in Threads, ThreadStep(t)
    PROVE  EntriesReady'
<1>. USE DEF At, Step
<1>t. /\ gen \in [Entries -> BOOLEAN] /\ pix \in [Entries -> Pixels]
      /\ alive \subseteq Entries /\ alive \subseteq born
      /\ step \in [Threads -> {"idle", "check", "render", "demote", "have", "swap", "flushTest",
                              "flushRelease", "flushRemove", "unlink"}]
      /\ src \in [Threads -> Pixels]
      /\ wr \in [Entries -> Threads \cup {NULL}]
  BY DEF ThumbInv, OpTypes, IInv, TypeOK, AliveWasBorn
<1>n. BLANK # SKULL
  BY ThumbAssumption
<1>o. Alone(t)
  BY StepAlone DEF ThumbInv
<1>r. EntriesReady /\ CallsReady
  BY DEF Ready
<1>k. spoilt \subseteq spoilt' /\ \A e \in born : ekey'[e] = ekey[e]
  BY StepSpoils, StepKeys DEF ThumbInv
<1>c. \A k : ~Clean(k) => ~Clean(k)'
  BY CleanShrinks
<1>1. ASSUME NEW e \in alive', e \in alive, e \notin spoilt', gen'[e]
      PROVE  wr'[e] \in Threads /\ step'[wr'[e]] \in {"check", "render", "swap"}
  <2>1. gen[e] /\ (step[t] \in {"render", "swap"} /\ e = ptr[t] => Aborted(t))
    BY <1>1, StepData
  <2>2. wr[e] \in Threads /\ step[wr[e]] \in {"check", "render", "swap"}
    BY <1>1, <1>k, <1>r, <2>1 DEF EntriesReady
  <2>3. CASE wr[e] # t
    BY <1>1, <1>o, <1>t, <2>2, <2>3 DEF Alone
  <2>4. CASE wr[e] = t
    <3>1. ptr[t] = e
      BY <1>t, <1>1, <2>4 DEF ThumbInv, IInv, HeldIsLocked
    <3>2. ~Aborted(t)
      BY <1>1, <3>1 DEF Aborted
    <3>3. step[t] = "check"
      BY <2>1, <2>2, <2>4, <3>1, <3>2
    <3>4. CheckThumb(t)
      BY <3>3 DEF ThreadStep, GetThumb, Rendered, Aborted, DemoteThumb, RefetchThumb,
         ReleaseThumb, EndRelease, ReleaseTail, SwapGet, SwapStore, Commit, FlushTest,
         FlushRelease, FlushRemove, Unlink, EvictThumb, ThumbInv, Calls
    <3>5. UNCHANGED wr /\ step'[t] = "render"
      BY <1>t, <2>1, <3>1, <3>4 DEF CheckThumb, vars, lockVars
    <3>. QED
      BY <2>4, <3>5
  <2>. QED
    BY <2>3, <2>4
<1>2. ASSUME NEW e \in alive', e \in alive, pix'[e] = BLANK
      PROVE  gen'[e] \/ ~Clean(ekey[e])'
  <2>k. ekey'[e] = ekey[e]
    BY <1>2, <1>k, <1>t
  <2>1. CASE e = ptr[t] /\ step[t] \in {"render", "swap"} /\ ~Aborted(t)
    <3>1. src[t] # BLANK \/ ~Clean(ekey[e])
      BY <1>r, <2>1 DEF CallsReady
    <3>2. Rendered(t) \/ SwapStore(t)
      BY <2>1 DEF ThreadStep, GetThumb, CheckThumb, DemoteThumb, RefetchThumb,
         ReleaseThumb, EndRelease, ReleaseTail, SwapGet, Commit, FlushTest,
         FlushRelease, FlushRemove, Unlink, EvictThumb, ThumbInv, Calls
    <3>3. pix'[e] \in {src[t], SKULL}
      BY <1>2, <1>t, <2>1, <3>2 DEF Rendered, SwapStore
    <3>4. ~Clean(ekey[e])
      BY <1>n, <1>2, <3>1, <3>3
    <3>. QED
      BY <1>c, <2>k, <3>4
  <2>2. CASE Aborted(t) /\ e = ptr[t]
    <3>1. e \in spoilt' /\ ekey'[e] \in Keys
      BY <1>2, <2>2 DEF Aborted, ThumbInv, Indexed
    <3>2. ~(ekey'[e] < ekey'[e])
      BY <3>1, ThumbAssumption
    <3>. QED
      BY <3>1, <3>2 DEF Clean
  <2>3. CASE ~(e = ptr[t] /\ step[t] \in {"render", "swap"})
    <3>1. pix[e] = BLANK /\ gen'[e] = gen[e]
      BY <1>2, <2>3, StepData
    <3>2. gen[e] \/ ~Clean(ekey[e])
      BY <1>2, <1>r, <3>1 DEF EntriesReady
    <3>. QED
      BY <1>c, <2>k, <3>1, <3>2
  <2>. QED
    BY <2>1, <2>2, <2>3
<1>3. ASSUME NEW e \in alive', e \notin alive
      PROVE  /\ gen'[e] /\ e \notin spoilt' =>
                  wr'[e] \in Threads /\ step'[wr'[e]] \in {"check", "render", "swap"}
             /\ pix'[e] = BLANK => gen'[e] \/ ~Clean(ekey[e])'
  <2>1. /\ gen'[e] /\ e \notin spoilt' => wr'[e] = t /\ step'[t] \in {"check", "swap"}
        /\ pix'[e] = BLANK => gen'[e] \/ ~Clean(ekey'[e])
    BY <1>3, NewEntryReady
  <2>. QED
    BY <1>c, <2>1
<1>. QED
  BY <1>1, <1>2, <1>3 DEF EntriesReady

\* What a step does to the calls of the threads.
LEMMA StepCallsReady ==
    ASSUME ThumbInv, ThumbInv', Ready, NEW t \in Threads, ThreadStep(t)
    PROVE  CallsReady'
<1>. USE DEF At, Step
<1>t. /\ gen \in [Entries -> BOOLEAN]
      /\ alive \subseteq Entries /\ alive \subseteq born
      /\ step \in [Threads -> {"idle", "check", "render", "demote", "have", "swap", "flushTest",
                              "flushRelease", "flushRemove", "unlink"}]
      /\ src \in [Threads -> Pixels]
      /\ buf \in [Threads -> Entries \cup {NULL}]
      /\ edit \in Nat /\ BLANK \notin Nat
  BY ThumbAssumption DEF ThumbInv, OpTypes, IInv, TypeOK, AliveWasBorn
<1>o. Alone(t)
  BY StepAlone DEF ThumbInv
<1>r. EntriesReady /\ CallsReady
  BY DEF Ready
<1>k. /\ spoilt \subseteq spoilt' /\ \A e \in born : ekey'[e] = ekey[e]
      /\ \A u \in exposed : u \in exposed' \/ (u = t /\ step'[t] = "idle")
  BY StepSpoils, StepKeys DEF ThumbInv
<1>c. \A k : ~Clean(k) => ~Clean(k)'
  BY CleanShrinks
<1>h. \A u \in Threads : pc[u] = "hold" => ptr[u] \in alive
  BY DEF ThumbInv, IInv, HeldIsLocked
\* What CallsReady says of one thread.
<1>. DEFINE Mine(u) ==
        /\ step[u] \in {"render", "swap"} => src[u] # BLANK \/ ~Clean(ekey[ptr[u]])
        /\ step[u] = "render" /\ ptr[u] \notin spoilt => wr[ptr[u]] = u
        /\ step[u] \in {"demote", "have"} /\ buf[u] # NULL /\ u \notin exposed =>
             buf[u] = ptr[u] /\ (gen[ptr[u]] => ptr[u] \in spoilt)
<1>m. \A u \in Threads : Mine(u)
  BY <1>r DEF CallsReady
<1>1. ASSUME NEW u \in Threads, u # t PROVE Mine(u)'
  <2>1. /\ ptr'[u] = ptr[u] /\ step'[u] = step[u] /\ src'[u] = src[u] /\ buf'[u] = buf[u]
        /\ \A e \in Entries : wr[e] = u => wr'[e] = u
    BY <1>1, <1>o DEF Alone
  <2>2. Mine(u)
    BY <1>m
  <2>3. step'[u] \in {"render", "swap"} => src'[u] # BLANK \/ ~Clean(ekey[ptr[u]])'
    <3>1. SUFFICES ASSUME step[u] \in {"render", "swap"}, src[u] = BLANK
                   PROVE  ~Clean(ekey[ptr[u]])'
      BY <2>1
    <3>2. ptr[u] \in born /\ ~Clean(ekey[ptr[u]])
      BY <1>h, <1>t, <2>2, <3>1 DEF ThumbInv, Calls
    <3>. QED
      BY <1>c, <1>k, <2>1, <3>2
  <2>4. step'[u] = "render" /\ ptr'[u] \notin spoilt' => wr'[ptr'[u]] = u
    <3>1. SUFFICES ASSUME step[u] = "render", ptr[u] \notin spoilt PROVE wr'[ptr[u]] = u
      BY <1>k, <2>1
    <3>2. wr[ptr[u]] = u /\ ptr[u] \in Entries
      BY <1>h, <1>t, <2>2, <3>1 DEF ThumbInv, Calls
    <3>. QED
      BY <2>1, <3>2
  <2>5. step'[u] \in {"demote", "have"} /\ buf'[u] # NULL /\ u \notin exposed' =>
          buf'[u] = ptr'[u] /\ (gen'[ptr'[u]] => ptr'[u] \in spoilt')
    <3>1. SUFFICES ASSUME step[u] \in {"demote", "have"}, buf[u] # NULL, u \notin exposed
                   PROVE  buf[u] = ptr[u] /\ (gen'[ptr[u]] => ptr[u] \in spoilt')
      BY <1>1, <1>k, <2>1
    <3>2. ptr[u] \in alive
      BY <1>h, <3>1 DEF ThumbInv, Calls, Shielded, Demotes, Protected
    <3>3. gen'[ptr[u]] => gen[ptr[u]]
      BY <3>2, StepData
    <3>. QED
      BY <1>k, <2>2, <3>1, <3>3
  <2>. QED
    BY <2>3, <2>4, <2>5
<1>2. Mine(t)'
  <2>m. Mine(t)
    BY <1>m
  <2>1. CASE GetThumb(t)
    BY <1>t, <2>1 DEF GetThumb
  <2>2. CASE SwapGet(t)
    BY <1>t, <2>2 DEF SwapGet
  <2>3. CASE CheckThumb(t)
    <3>1. /\ ptr[t] \in alive /\ ptr[t] \in Entries /\ ekey[ptr[t]] \in Keys /\ pc[t] = "hold"
          /\ UNCHANGED <<gen, wr, ptr, ekey, spoilt>>
      BY <1>h, <1>t, <2>3
      DEF CheckThumb, ThumbInv, Calls, Indexed, vars, tableVars, callVars, lockVars, dataVars,
          spoilVars
    <3>2. CASE gen[ptr[t]]
      <4>1. step'[t] = "render" /\ src'[t] = Source(ekey[ptr[t]])
        BY <1>t, <2>3, <3>2 DEF CheckThumb
      <4>2. src'[t] # BLANK \/ ~Clean(ekey[ptr[t]])
        BY <1>r, <3>1, <4>1, SourceIsPicture
      <4>3. ptr[t] \notin spoilt => wr[ptr[t]] = t
        <5>1. SUFFICES ASSUME ptr[t] \notin spoilt PROVE wr[ptr[t]] = t
          OBVIOUS
        <5>2. wr[ptr[t]] \in Threads
          BY <1>r, <3>1, <3>2, <5>1 DEF EntriesReady
        <5>3. t \in rd[ptr[t]] \/ t = wr[ptr[t]]
          BY <3>1 DEF ThumbInv, IInv, HeldIsLocked
        <5>4. wr[ptr[t]] # NULL => rd[ptr[t]] = {}
          BY <3>1 DEF ThumbInv, IInv, HeldIsLocked
        <5>. QED
          BY <5>2, <5>3, <5>4, ContractAssumption
      <4>4. ~Clean(ekey[ptr[t]]) => ~Clean(ekey[ptr[t]])'
        BY <1>c, <3>1
      <4>. QED
        BY <3>1, <4>1, <4>2, <4>3, <4>4
    <3>3. CASE ~gen[ptr[t]]
      <4>1. step'[t] = "demote" /\ buf'[t] = ptr[t]
        BY <1>t, <2>3, <3>3 DEF CheckThumb
      <4>. QED
        BY <3>1, <3>3, <4>1
    <3>. QED
      BY <3>2, <3>3
  <2>4. CASE Rendered(t)
    <3>1. ptr[t] \in Entries /\ ptr'[t] = ptr[t]
      BY <1>h, <1>t, <2>4 DEF Rendered, ThumbInv, Calls, vars, callVars
    <3>. QED
      BY <1>t, <2>4, <3>1 DEF Rendered
  <2>5. CASE Aborted(t)
    BY <1>t, <2>5 DEF Aborted
  <2>6. CASE DemoteThumb(t)
    <3>1. /\ ptr'[t] = ptr[t] /\ UNCHANGED <<gen, buf, step, src, exposed, spoilt>>
          /\ step[t] = "demote"
      BY <2>6
      DEF DemoteThumb, Demote, DemoteTail, Goto, dataVars, opVars, spoilVars, ThumbInv, IInv, TypeOK
    <3>. QED
      BY <2>m, <3>1
  <2>7. CASE RefetchThumb(t)
    <3>1. step'[t] = "have" /\ step[t] = "demote" /\ UNCHANGED buf
      BY <1>t, <2>7 DEF RefetchThumb
    <3>2. CASE t \in exposed
      <4>1. t \in exposed'
        BY <1>k, <3>1, <3>2
      <4>. QED
        BY <3>1, <4>1
    <3>3. CASE t \notin exposed
      <4>1. ptr'[t] = ptr[t] /\ UNCHANGED gen
        BY <2>7, <3>3, RefetchFindsSame DEF dataVars
      <4>. QED
        BY <1>k, <2>m, <3>1, <3>3, <4>1
    <3>. QED
      BY <3>2, <3>3
  <2>8. CASE ReleaseThumb(t) \/ SwapStore(t) \/ Commit(t) \/ FlushTest(t) \/ FlushRelease(t)
             \/ FlushRemove(t) \/ Unlink(t)
    BY <1>t, <2>8
    DEF ReleaseThumb, SwapStore, Commit, FlushTest, FlushRelease, FlushRemove, Unlink
  <2>9. CASE EndRelease(t) \/ EvictThumb(t)
    <3>1. step'[t] \notin {"render", "swap", "demote", "have"}
      BY <2>9 DEF EndRelease, ReleaseTail, EvictThumb, ThumbInv, Calls, opVars
    <3>. QED
      BY <3>1
  <2>. QED
    BY <2>1, <2>2, <2>3, <2>4, <2>5, <2>6, <2>7, <2>8, <2>9 DEF ThreadStep
<1>. QED
  BY <1>1, <1>2 DEF CallsReady

\* What a step does to the files.
LEMMA StepFilesReady ==
    ASSUME ThumbInv, ThumbInv', Ready, NEW t \in Threads, ThreadStep(t)
    PROVE  NoPoisonOnDisk'
<1>. USE DEF At, Step
<1>t. disk \in [Keys -> Files] /\ BLANK # NULL
  BY ThumbAssumption DEF ThumbInv, OpTypes
<1>r. EntriesReady /\ NoPoisonOnDisk
  BY DEF Ready
<1>u. Unused \subseteq alive /\ \A e \in Unused : wr[e] = NULL
  BY DEF Unused
<1>c. \A k : ~Clean(k) => ~Clean(k)'
  BY CleanShrinks
<1>g. ASSUME \A k \in Keys : disk'[k] = BLANK => ~Clean(k) PROVE NoPoisonOnDisk'
  BY <1>c, <1>g DEF NoPoisonOnDisk
<1>1. ASSUME NEW k \in Keys, NEW mode, Fetch(t, k, mode) PROVE NoPoisonOnDisk'
  <2>1. Fetched(t, k, mode)
    BY <1>1, FetchMeaning DEF ThumbInv
  <2>2. CASE UNCHANGED dataVars
    BY <1>g, <1>r, <2>2 DEF dataVars, NoPoisonOnDisk
  <2>3. ASSUME NEW S \in SUBSET Unused, NEW d \in DiskAfter(S), Allocate(ptr'[t], k, d)
        PROVE  NoPoisonOnDisk'
    <3>1. d \in [Keys -> Files] /\ \A j \in Keys : d[j] = BLANK => ~Clean(j)
      BY <1>r, <1>u, SavedIsPicture DEF DiskAfter
    <3>2. \A j \in Keys : disk'[j] = d[j] \/ disk'[j] = NULL
      BY <2>3, <3>1 DEF Allocate
    <3>. QED
      BY <1>g, <1>t, <3>1, <3>2
  <2>. QED
    BY <2>1, <2>2, <2>3 DEF Fetched
<1>2. ASSUME NEW e, TableLoses(e) PROVE NoPoisonOnDisk'
  <2>1. {e} \in SUBSET alive /\ \A f \in {e} : wr[f] = NULL
    BY <1>u, <1>2 DEF TableLoses
  <2>2. \A k \in Keys : disk'[k] = BLANK => ~Clean(k)
    BY <1>r, <1>2, <2>1, SavedIsPicture DEF TableLoses
  <2>. QED
    BY <1>g, <2>2
<1>3. ASSUME \A k \in Keys : disk'[k] = disk[k] \/ disk'[k] = NULL PROVE NoPoisonOnDisk'
  BY <1>g, <1>r, <1>t, <1>3 DEF NoPoisonOnDisk
<1>4. CASE TableKept
  <2>1. CASE \E k \in Keys, mode \in {"r", "w"} : Fetch(t, k, mode)
    BY <1>1, <2>1
  <2>2. CASE ~\E k \in Keys, mode \in {"r", "w"} : Fetch(t, k, mode)
    <3>1. ~GetThumb(t) /\ ~SwapGet(t)
      BY <2>2 DEF GetThumb, SwapGet
    <3>2. ~RefetchThumb(t)
      BY <2>2 DEF RefetchThumb, ThumbInv, IInv, PointsToKey
    <3>3. ASSUME NEW e, Drop(e) PROVE FALSE
      BY <1>4, <3>3 DEF Drop, Vanish, Unused, TableKept
    <3>4. ~EvictThumb(t)
      BY <3>3 DEF EvictThumb
    <3>5. CASE FlushRemove(t)
      BY <1>3, <3>3, <3>5 DEF FlushRemove
    <3>6. CASE Unlink(t)
      BY <1>t, <1>3, <3>6 DEF Unlink
    <3>7. CASE \/ CheckThumb(t) \/ Rendered(t) \/ Aborted(t) \/ DemoteThumb(t) \/ ReleaseThumb(t)
               \/ EndRelease(t) \/ SwapStore(t) \/ Commit(t) \/ FlushTest(t) \/ FlushRelease(t)
      BY <1>3, <3>7 DEF CheckThumb, Rendered, Aborted, DemoteThumb, ReleaseThumb, EndRelease,
         SwapStore, Commit, FlushTest, FlushRelease, dataVars
    <3>. QED
      BY <3>1, <3>2, <3>4, <3>5, <3>6, <3>7 DEF ThreadStep
  <2>. QED
    BY <2>1, <2>2
<1>. QED
  BY <1>1, <1>2, <1>4, StepTable DEF ThumbInv

\* Closing the cache saves pictures only, or what is not clean, since nobody holds an entry then.
LEMMA CleanupReady ==
    ASSUME ThumbInv, Ready, CleanupThumbs
    PROVE  Ready'
<1>1. \A e \in alive : wr[e] = NULL
  <2>1. \A t \in Threads : pc[t] = "idle"
    BY DEF CleanupThumbs, Cleanup
  <2>. QED
    BY <2>1 DEF ThumbInv, IInv, TypeOK, HeldIsLocked
<1>2. UNCHANGED <<ekey, spoilt>>
  BY DEF CleanupThumbs, Cleanup, spoilVars
<1>3. NoPoisonOnDisk'
  <2>1. \A k \in Keys : disk'[k] = BLANK => ~Clean(k)
    BY <1>1, SavedIsPicture DEF Ready, CleanupThumbs
  <2>. QED
    BY <1>2, <2>1 DEF NoPoisonOnDisk, Clean
<1>4. EntriesReady'
  BY DEF CleanupThumbs, EntriesReady
<1>5. CallsReady'
  BY DEF Ready, CleanupThumbs, At, CallsReady, opVars
<1>. QED
  BY <1>3, <1>4, <1>5 DEF Ready

\* Every entry that is not being filled shows a picture, and so do the files, but for what a
\* shutdown or a lost protection has spoilt.
THEOREM AlwaysReady == ThumbSpec => []Ready
<1>1. ThumbInit => Ready
  BY ThumbAssumption
  DEF ThumbInit, Init, Ready, EntriesReady, CallsReady, NoPoisonOnDisk
<1>2. ThumbInv /\ ThumbInv' /\ Ready /\ [ThumbNext]_thumbVars => Ready'
  <2>. SUFFICES ASSUME ThumbInv, ThumbInv', Ready, [ThumbNext]_thumbVars PROVE Ready'
    OBVIOUS
  <2>1. ASSUME NEW t \in Threads, ThreadStep(t) PROVE Ready'
    BY <2>1, StepEntriesReady, StepCallsReady, StepFilesReady DEF Ready
  <2>2. CASE CleanupThumbs
    BY <2>2, CleanupReady
  <2>3. CASE UNCHANGED thumbVars
    BY <2>3
    DEF Ready, EntriesReady, CallsReady, NoPoisonOnDisk, Clean, thumbVars, dataVars, opVars,
        spoilVars, vars, tableVars, lockVars, callVars
  <2>. QED
    BY <2>1, <2>2, <2>3 DEF ThumbNext, ThreadStep
<1>. QED
  BY <1>1, <1>2, ThumbsKeepInvariant, PTL DEF ThumbSpec

\* However many threads request thumbnails, no two render into one entry, and none renders into
\* what somebody looks at, unless the entry was left marked by a shutdown or a refetch without
\* protection (_generate_blocking under the lock of dt_cache_get).
THEOREM OneThreadRenders == ThumbSpec => []OneRenderer
<1>1. ThumbInv /\ Ready => OneRenderer
  <2>. SUFFICES ASSUME ThumbInv, Ready, NEW t \in Threads, NEW u \in Threads,
                       t # u, step[t] = "render", pc[u] = "hold",
                       ptr[t] = ptr[u], ptr[t] \notin spoilt
                PROVE  FALSE
    BY DEF OneRenderer, At
  <2>1. wr[ptr[u]] = t /\ ptr[u] \in Entries
    BY DEF Ready, CallsReady, ThumbInv, IInv, PointsToKey
  <2>2. u \in rd[ptr[u]] \/ u = wr[ptr[u]]
    BY <2>1 DEF ThumbInv, IInv, HeldIsLocked
  <2>. QED
    BY <2>1, <2>2, ContractAssumption DEF ThumbInv, IInv, HeldIsLocked
<1>. QED
  BY <1>1, ThumbsKeepInvariant, AlwaysReady, PTL

\* Memory that holds no picture reaches the file of a mip size only if an entry of that size, or
\* of a larger one, was spoilt by a shutdown or a lost protection: nothing else that requests,
\* stores, flushes and evictions do in any order poisons a file.
THEOREM NoPoisonIsStored == ThumbSpec => []NoPoisonOnDisk
<1>1. Ready => NoPoisonOnDisk
  BY DEF Ready
<1>. QED
  BY <1>1, AlwaysReady, PTL

\* What dt_mipmap_cache_get hands out is in the entry it locked, unless another demotion that
\* ended took its protection, and shows a picture, unless something it may have been made from
\* was spoilt.
THEOREM RequestsGetPictures == ThumbSpec => []HandedOutIsReady
<1>1. ThumbInv /\ Ready => HandedOutIsReady
  <2>. SUFFICES ASSUME ThumbInv, Ready, NEW t \in Threads, step[t] = "have", buf[t] # NULL,
                       t \notin exposed
                PROVE  buf[t] = ptr[t] /\ (Clean(ekey[ptr[t]]) => pix[buf[t]] # BLANK)
    BY DEF HandedOutIsReady, At
  <2>1. ptr[t] \in alive
    BY DEF ThumbInv, Calls, IInv, HeldIsLocked
  <2>2. buf[t] = ptr[t] /\ (gen[ptr[t]] => ptr[t] \in spoilt)
    BY DEF Ready, CallsReady
  <2>3. ekey[ptr[t]] \in Keys
    BY <2>1 DEF ThumbInv, Indexed
  <2>4. ekey[ptr[t]] <= ekey[ptr[t]]
    BY <2>3, ThumbAssumption
  <2>5. ptr[t] \in spoilt => ~Clean(ekey[ptr[t]])
    BY <2>3, <2>4, SpoiltNotClean
  <2>. QED
    BY <2>1, <2>2, <2>5 DEF Ready, EntriesReady
<1>. QED
  BY <1>1, ThumbsKeepInvariant, AlwaysReady, PTL

----------------------------------------------------------------------------
(* Edits and their flushes *)

\* A picture is not older than the newest edit whose flush met nobody.
Recent(p) == p \in Nat => p >= flushed

\* No picture is older than that: in an entry, on disk, being rendered or stored, or about to
\* be handed out.
AllRecent ==
    /\ \A e \in alive : Recent(pix[e])
    /\ \A k \in Keys : Recent(disk[k])
    /\ \A t \in Threads :
        /\ step[t] \in {"render", "swap"} => Recent(src[t])
        /\ step[t] \in {"demote", "have"} /\ buf[t] # NULL =>
             buf[t] \in born /\ Recent(pix[buf[t]])
        /\ asked[t] <= flushed

\* A flush that has met nobody leaves nothing in memory or on disk of the sizes that it has
\* passed.
CalmFlush ==
    \A t \in calm :
        /\ Flushing(t)
        /\ \A u \in Threads : u # t => step[u] = "idle"
        /\ \A k \in Keys : k < mip[t] => hashtable[k] = NULL /\ disk[k] = NULL
        /\ step[t] = "unlink" => hashtable[mip[t]] = NULL

\* Deallocating entries saves nothing older.
LEMMA SavedIsRecent ==
    ASSUME ThumbInv, AllRecent, NEW S \in SUBSET alive, NEW d \in DiskAfter(S)
    PROVE  \A k \in Keys : Recent(d[k])
<1>. SUFFICES ASSUME NEW k \in Keys PROVE Recent(d[k])
  OBVIOUS
<1>1. d[k] \in IF hashtable[k] \in S THEN Saved(hashtable[k]) ELSE {disk[k]}
  BY DEF DiskAfter
<1>2. CASE hashtable[k] \in S
  <2>1. Recent(pix[hashtable[k]])
    BY <1>2 DEF AllRecent
  <2>2. ekey[hashtable[k]] = k
    BY <1>2, ContractAssumption DEF ThumbInv, IInv, TableSound, TypeOK
  <2>3. Recent(disk[k]) /\ Recent(NULL)
    BY ThumbAssumption DEF AllRecent, Recent
  <2>. QED
    BY <1>1, <1>2, <2>1, <2>2, <2>3 DEF Saved
<1>3. CASE hashtable[k] \notin S
  BY <1>1, <1>3 DEF AllRecent
<1>. QED
  BY <1>2, <1>3

\* A request or a store takes nothing older from memory or disk.
LEMMA FetchRecent ==
    ASSUME ThumbInv, AllRecent, NEW t \in Threads, NEW k \in Keys, NEW mode,
           Fetch(t, k, mode), UNCHANGED flushed
    PROVE  /\ \A e \in alive' : Recent(pix'[e])
           /\ \A j \in Keys : Recent(disk'[j])
           /\ born \subseteq born'
           /\ \A e \in born : pix'[e] = pix[e]
<1>t. /\ pix \in [Entries -> Pixels] /\ alive \subseteq born /\ born \subseteq Entries
      /\ BLANK \notin Nat /\ NULL \notin Nat
  BY ThumbAssumption DEF ThumbInv, OpTypes, IInv, TypeOK, AliveWasBorn
<1>1. Fetched(t, k, mode)
  BY FetchMeaning DEF ThumbInv
<1>2. CASE UNCHANGED <<tableVars, dataVars>>
  BY <1>2 DEF AllRecent, tableVars, dataVars
<1>3. ASSUME NEW S \in SUBSET Unused, alive' = (alive \ S) \cup {ptr'[t]}, ptr'[t] \in Entries,
             ptr'[t] \notin born, born' = born \cup {ptr'[t]},
             NEW d \in DiskAfter(S), Allocate(ptr'[t], k, d)
      PROVE  /\ \A e \in alive' : Recent(pix'[e])
             /\ \A j \in Keys : Recent(disk'[j])
             /\ born \subseteq born'
             /\ \A e \in born : pix'[e] = pix[e]
  <2>1. \A j \in Keys : Recent(d[j])
    BY SavedIsRecent DEF Unused
  <2>2. d \in [Keys -> Files]
    BY DEF DiskAfter
  <2>3. Recent(pix'[ptr'[t]]) /\ \A e \in born : pix'[e] = pix[e]
    BY <1>t, <1>3, <2>1 DEF Allocate, Recent
  <2>4. \A j \in Keys : disk'[j] = d[j] \/ disk'[j] = NULL
    BY <1>3, <2>2 DEF Allocate
  <2>5. \A e \in alive' : Recent(pix'[e])
    BY <1>t, <1>3, <2>3 DEF AllRecent
  <2>6. \A j \in Keys : Recent(disk'[j])
    BY <1>t, <2>1, <2>4 DEF Recent
  <2>. QED
    BY <1>3, <2>3, <2>5, <2>6
<1>. QED
  BY <1>1, <1>2, <1>3 DEF Fetched

\* A step of a thread, other than the end of a flush that met nobody, brings in nothing older.
LEMMA StepRecent ==
    ASSUME ThumbInv, ThumbInv', AllRecent, NEW t \in Threads, ThreadStep(t), UNCHANGED flushed
    PROVE  AllRecent'
<1>. USE DEF At, Step
<1>t. /\ step \in [Threads -> {"idle", "check", "render", "demote", "have", "swap", "flushTest",
                              "flushRelease", "flushRemove", "unlink"}]
      /\ src \in [Threads -> Pixels] /\ pix \in [Entries -> Pixels]
      /\ disk \in [Keys -> Files]
      /\ buf \in [Threads -> Entries \cup {NULL}]
      /\ alive \subseteq born /\ born \subseteq Entries /\ alive' \subseteq born'
      /\ flushed \in Nat /\ edit \in Nat /\ edit >= flushed
      /\ asked \in [Threads -> 0..edit]
      /\ BLANK \notin Nat /\ NULL \notin Nat /\ SKULL \notin Nat
  BY ThumbAssumption DEF ThumbInv, OpTypes, IInv, TypeOK, AliveWasBorn
<1>o. Alone(t)
  BY StepAlone DEF ThumbInv
<1>h. pc[t] = "hold" => ptr[t] \in alive
  BY DEF ThumbInv, IInv, HeldIsLocked
<1>a. asked'[t] <= flushed
  <2>1. CASE GetThumb(t)
    BY <1>t, <2>1 DEF GetThumb
  <2>2. CASE ~GetThumb(t)
    <3>1. UNCHANGED asked
      BY <2>2 DEF ThreadStep, CheckThumb, Rendered, Aborted, DemoteThumb, RefetchThumb,
         ReleaseThumb, EndRelease, SwapGet, SwapStore, Commit, FlushTest, FlushRelease, FlushRemove,
         Unlink, EvictThumb, opVars
    <3>. QED
      BY <3>1 DEF AllRecent
  <2>. QED
    BY <2>1, <2>2
\* It is enough to look at the entries, the files and the thread itself.
<1>g. ASSUME \A e \in alive' : Recent(pix'[e]), \A k \in Keys : Recent(disk'[k]),
             born \subseteq born',
             \A e \in born : pix'[e] = pix[e] \/ Recent(pix'[e]),
             step'[t] \in {"render", "swap"} => Recent(src'[t]),
             step'[t] \in {"demote", "have"} /\ buf'[t] # NULL =>
                 buf'[t] \in born /\ Recent(pix'[buf'[t]])
      PROVE  AllRecent'
  <2>1. ASSUME NEW u \in Threads
        PROVE  /\ step'[u] \in {"render", "swap"} => Recent(src'[u])
               /\ step'[u] \in {"demote", "have"} /\ buf'[u] # NULL =>
                    buf'[u] \in born' /\ Recent(pix'[buf'[u]])
               /\ asked'[u] <= flushed
    <3>1. CASE u = t
      BY <1>a, <1>g, <3>1
    <3>2. CASE u # t
      <4>1. step'[u] = step[u] /\ src'[u] = src[u] /\ buf'[u] = buf[u] /\ asked'[u] = asked[u]
        BY <1>o, <3>2 DEF Alone
      <4>. QED
        BY <1>g, <4>1 DEF AllRecent
    <3>. QED
      BY <3>1, <3>2
  <2>. QED
    BY <1>g, <2>1 DEF AllRecent, Recent
<1>1. CASE GetThumb(t) \/ SwapGet(t)
  <2>1. PICK k \in Keys, mode \in {"r", "w"} : Fetch(t, k, mode)
    BY <1>1 DEF GetThumb, SwapGet
  <2>2. /\ \A e \in alive' : Recent(pix'[e])
        /\ \A j \in Keys : Recent(disk'[j])
        /\ born \subseteq born' /\ \A e \in born : pix'[e] = pix[e]
    BY <2>1, FetchRecent
  <2>3. step'[t] = "check" \/ (step'[t] = "swap" /\ src'[t] = edit)
    BY <1>t, <1>1 DEF GetThumb, SwapGet
  <2>4. step'[t] = "swap" => Recent(src'[t])
    BY <1>t, <2>3 DEF Recent
  <2>. QED
    BY <1>g, <2>2, <2>3, <2>4
<1>2. CASE RefetchThumb(t)
  <2>1. Fetch(t, ekey[ptr[t]], "r") /\ ekey[ptr[t]] \in Keys /\ step[t] = "demote"
    BY <1>2 DEF RefetchThumb, ThumbInv, IInv, PointsToKey
  <2>2. /\ \A e \in alive' : Recent(pix'[e])
        /\ \A j \in Keys : Recent(disk'[j])
        /\ born \subseteq born' /\ \A e \in born : pix'[e] = pix[e]
    BY <2>1, FetchRecent
  <2>3. step'[t] = "have" /\ buf'[t] = buf[t]
    BY <1>t, <1>2 DEF RefetchThumb
  <2>4. buf[t] # NULL => buf[t] \in born /\ Recent(pix[buf[t]])
    BY <2>1 DEF AllRecent
  <2>. QED
    BY <1>g, <2>2, <2>3, <2>4
\* The other steps bring in no entry.
<1>k. ASSUME UNCHANGED <<pix, disk, alive, born>>,
             step'[t] \in {"render", "swap"} => Recent(src'[t]),
             step'[t] \in {"demote", "have"} /\ buf'[t] # NULL =>
                 buf'[t] \in born /\ Recent(pix'[buf'[t]])
      PROVE  AllRecent'
  BY <1>g, <1>k DEF AllRecent
<1>3. CASE CheckThumb(t)
  <2>1. UNCHANGED <<pix, disk, alive, born>> /\ ptr[t] \in alive
    BY <1>h, <1>3 DEF CheckThumb, dataVars, vars, tableVars, ThumbInv, Calls
  <2>2. Recent(Source(ekey[ptr[t]]))
    <3>1. CASE LargerThumbs(ekey[ptr[t]]) = {}
      BY <1>t, <3>1 DEF Source, Recent
    <3>2. CASE LargerThumbs(ekey[ptr[t]]) # {}
      <4>1. hashtable[Min(LargerThumbs(ekey[ptr[t]]))] \in alive
        BY <3>2, SmallestLarger DEF LargerThumbs, ThumbInv, IInv, TableSound
      <4>. QED
        BY <3>2, <4>1 DEF Source, AllRecent
    <3>. QED
      BY <3>1, <3>2
  <2>3. \/ step'[t] = "render" /\ src'[t] = Source(ekey[ptr[t]])
        \/ step'[t] = "demote" /\ buf'[t] = ptr[t]
    BY <1>t, <1>3 DEF CheckThumb
  <2>. QED
    BY <1>k, <1>t, <2>1, <2>2, <2>3 DEF AllRecent
<1>4. CASE Rendered(t) \/ Aborted(t)
  <2>1. /\ UNCHANGED <<disk, alive, born>> /\ ptr[t] \in alive /\ ptr[t] \in Entries
        /\ step'[t] = "demote" /\ (buf'[t] = ptr[t] \/ buf'[t] = NULL)
    BY <1>h, <1>t, <1>4 DEF Rendered, Aborted, vars, tableVars, ThumbInv, Calls
  <2>2. Recent(src[t]) /\ Recent(SKULL) /\ Recent(BLANK)
    BY <1>t, <1>4 DEF Rendered, Aborted, AllRecent, Recent
  <2>3. \E p \in {src[t], SKULL, BLANK} : pix' = [pix EXCEPT ![ptr[t]] = p]
    BY <1>4 DEF Rendered, Aborted
  <2>4. Recent(pix'[ptr[t]]) /\ \A e \in born : e # ptr[t] => pix'[e] = pix[e]
    BY <1>t, <2>1, <2>2, <2>3
  <2>5. \A e \in alive' : Recent(pix'[e])
    BY <1>t, <2>1, <2>4 DEF AllRecent
  <2>6. \A k \in Keys : Recent(disk'[k])
    BY <2>1 DEF AllRecent
  <2>. QED
    BY <1>g, <1>t, <2>1, <2>4, <2>5, <2>6
<1>5. CASE SwapStore(t)
  <2>1. /\ UNCHANGED <<disk, alive, born>> /\ ptr[t] \in alive /\ ptr[t] \in Entries
        /\ step'[t] = "idle"
    BY <1>h, <1>t, <1>5 DEF SwapStore, Release, tableVars, ThumbInv, Calls
  <2>2. Recent(src[t]) /\ Recent(SKULL)
    BY <1>t, <1>5 DEF SwapStore, AllRecent, Recent
  <2>3. \E p \in {src[t], SKULL} : pix' = [pix EXCEPT ![ptr[t]] = p]
    BY <1>5 DEF SwapStore
  <2>4. Recent(pix'[ptr[t]]) /\ \A e \in born : e # ptr[t] => pix'[e] = pix[e]
    BY <1>t, <2>1, <2>2, <2>3
  <2>5. \A e \in alive' : Recent(pix'[e])
    BY <1>t, <2>1, <2>4 DEF AllRecent
  <2>6. \A k \in Keys : Recent(disk'[k])
    BY <2>1 DEF AllRecent
  <2>. QED
    BY <1>g, <1>t, <2>1, <2>4, <2>5, <2>6
<1>6. CASE DemoteThumb(t) \/ EndRelease(t)
  <2>1. UNCHANGED <<pix, disk, alive, born, step, src, buf>>
    BY <1>6
    DEF DemoteThumb, EndRelease, Demote, DemoteTail, ReleaseTail, tableVars, dataVars, opVars
  <2>. QED
    BY <1>k, <2>1 DEF AllRecent
<1>7. CASE ReleaseThumb(t) \/ Commit(t) \/ FlushTest(t) \/ FlushRelease(t)
  <2>1. /\ UNCHANGED <<pix, disk, alive, born>>
        /\ step'[t] \notin {"render", "swap", "demote", "have"}
    BY <1>t, <1>7
    DEF ReleaseThumb, Release, Commit, FlushTest, FlushRelease, Hit, vars, tableVars, dataVars
  <2>. QED
    BY <1>k, <2>1
<1>8. CASE EvictThumb(t) \/ (FlushRemove(t) /\ hashtable[mip[t]] # NULL)
  <2>1. PICK e \in Unused : Drop(e)
    BY <1>8 DEF EvictThumb, FlushRemove, Drop
  <2>2. \A k \in Keys : Recent(disk'[k])
    BY <2>1, SavedIsRecent DEF Drop, Unused
  <2>3. UNCHANGED <<pix, born>> /\ alive' \subseteq alive
    BY <1>8, <2>1 DEF EvictThumb, FlushRemove, Drop, Vanish
  <2>4. step'[t] \notin {"render", "swap", "demote", "have"}
    BY <1>t, <1>8 DEF EvictThumb, FlushRemove, opVars
  <2>. QED
    BY <1>g, <2>2, <2>3, <2>4 DEF AllRecent
<1>9. CASE FlushRemove(t) /\ hashtable[mip[t]] = NULL
  <2>1. UNCHANGED <<pix, disk, alive, born>> /\ step'[t] = "unlink"
    BY <1>t, <1>9 DEF FlushRemove, vars, tableVars
  <2>. QED
    BY <1>k, <2>1
<1>10. CASE Unlink(t)
  <2>1. /\ UNCHANGED <<pix, alive, born>> /\ disk' = [disk EXCEPT ![mip[t]] = NULL]
        /\ step'[t] \notin {"render", "swap", "demote", "have"}
    BY <1>t, <1>10 DEF Unlink, vars, tableVars
  <2>2. \A k \in Keys : disk'[k] = disk[k] \/ disk'[k] = NULL
    BY <1>t, <2>1
  <2>3. \A k \in Keys : Recent(disk'[k])
    BY <1>t, <2>2 DEF AllRecent, Recent
  <2>. QED
    BY <1>g, <2>1, <2>3 DEF AllRecent
<1>. QED
  BY <1>1, <1>2, <1>3, <1>4, <1>5, <1>6, <1>7, <1>8, <1>9, <1>10 DEF ThreadStep

\* A step of a thread outside the operations of this module brings back nothing that a flush has
\* passed.
LEMMA OutsideKeepsPassed ==
    ASSUME ThumbInv, NEW t \in Threads, ThreadStep(t), step[t] = "idle", step'[t] = "idle",
           NEW k \in Keys, hashtable[k] = NULL
    PROVE  hashtable'[k] = NULL /\ disk'[k] = disk[k]
<1>. USE DEF At, Step
<1>t. step \in [Threads -> {"idle", "check", "render", "demote", "have", "swap", "flushTest",
                              "flushRelease", "flushRemove", "unlink"}]
  BY DEF ThumbInv, OpTypes
<1>1. CASE EndRelease(t)
  BY <1>1 DEF EndRelease, ReleaseTail, tableVars, dataVars
<1>2. CASE EvictThumb(t)
  <2>1. PICK e : e # NULL /\ Drop(e)
    BY <1>2 DEF EvictThumb
  <2>2. /\ hashtable'[k] = IF hashtable[k] \in {e} THEN NULL ELSE hashtable[k]
        /\ disk'[k] \in IF hashtable[k] \in {e} THEN Saved(hashtable[k]) ELSE {disk[k]}
    BY <2>1 DEF Drop, Vanish, DiskAfter
  <2>. QED
    BY <2>1, <2>2
<1>. QED
  BY <1>1, <1>2, <1>t
  DEF ThreadStep, GetThumb, CheckThumb, Rendered, Aborted, DemoteThumb, RefetchThumb,
      ReleaseThumb, SwapGet, SwapStore, Commit, FlushTest, FlushRelease, FlushRemove, Unlink

\* A flush that gets no entry of its size finds none in the table, when nobody else is in an
\* operation.
LEMMA FlushFindsFree ==
    ASSUME ThumbInv, NEW t \in Threads, FlushTest(t), step'[t] = "unlink",
           \A u \in Threads : u # t => step[u] = "idle"
    PROVE  hashtable[mip[t]] = NULL
<1>1. step[t] = "flushTest" /\ mip[t] \in Keys /\ pc[t] = "idle"
  BY DEF FlushTest, At, Flushing, ThumbInv, Calls
<1>2. \A u \in Threads : pc[u] # "hold"
  BY <1>1 DEF ThumbInv, Calls
<1>3. step'[t] # "flushRelease"
  OBVIOUS
<1>4. hashtable[mip[t]] # NULL => ~Lockable(hashtable[mip[t]], "w")
  BY <1>3 DEF FlushTest, Step, ThumbInv, OpTypes
<1>5. ASSUME NEW e \in Entries PROVE Lockable(e, "w")
  BY <1>2 DEF ThumbInv, IInv, TypeOK, HeldIsLocked, Lockable
<1>. QED
  BY <1>1, <1>4, <1>5 DEF ThumbInv, IInv, TypeOK

\* What thread t has passed of its flush is gone from memory and disk.
Passed(t) ==
    /\ \A k \in Keys : k < mip[t] => hashtable[k] = NULL /\ disk[k] = NULL
    /\ step[t] = "unlink" => hashtable[mip[t]] = NULL

\* A step of the flushing thread, when nobody else is in an operation.
LEMMA FlushKeepsPassed ==
    ASSUME ThumbInv, NEW t \in Threads, ThreadStep(t), Flushing(t), Flushing(t)', Passed(t),
           \A u \in Threads : u # t => step[u] = "idle"
    PROVE  Passed(t)'
<1>. USE DEF At, Step
<1>t. /\ step \in [Threads -> {"idle", "check", "render", "demote", "have", "swap", "flushTest",
                              "flushRelease", "flushRemove", "unlink"}]
      /\ mip \in [Threads -> Nat] /\ disk \in [Keys -> Files]
      /\ hashtable \in [Keys -> Entries \cup {NULL}] /\ mip[t] \in Keys
      /\ \A k \in Keys : k \in Nat
  BY ThumbAssumption DEF ThumbInv, OpTypes, IInv, TypeOK, Calls
<1>1. CASE FlushTest(t)
  <2>1. UNCHANGED <<hashtable, disk, mip>>
    BY <1>1 DEF FlushTest, Hit, tableVars, dataVars
  <2>2. step'[t] = "unlink" => hashtable[mip[t]] = NULL
    BY <1>1, FlushFindsFree
  <2>. QED
    BY <2>1, <2>2 DEF Passed
<1>2. CASE FlushRelease(t)
  <2>1. UNCHANGED <<hashtable, disk, mip>> /\ step'[t] = "flushRemove"
    BY <1>t, <1>2 DEF FlushRelease, Release, tableVars
  <2>. QED
    BY <2>1 DEF Passed
<1>3. CASE EndRelease(t)
  <2>1. UNCHANGED <<hashtable, disk, mip, step>>
    BY <1>3 DEF EndRelease, ReleaseTail, tableVars, dataVars, opVars
  <2>. QED
    BY <2>1 DEF Passed
<1>4. CASE FlushRemove(t)
  <2>1. UNCHANGED mip /\ step'[t] = "unlink"
    BY <1>t, <1>4 DEF FlushRemove
  <2>2. CASE hashtable[mip[t]] = NULL
    <3>1. UNCHANGED <<hashtable, disk>>
      BY <1>4, <2>2 DEF FlushRemove, vars, tableVars
    <3>. QED
      BY <2>1, <2>2, <3>1 DEF Passed
  <2>3. CASE hashtable[mip[t]] # NULL
    <3>. DEFINE e == hashtable[mip[t]]
    <3>1. /\ hashtable' = [k \in Keys |-> IF hashtable[k] \in {e} THEN NULL ELSE hashtable[k]]
          /\ \A k \in Keys :
               disk'[k] \in IF hashtable[k] \in {e} THEN Saved(hashtable[k]) ELSE {disk[k]}
      BY <1>4, <2>3 DEF FlushRemove, Drop, Vanish, DiskAfter
    <3>2. \A k \in Keys : k < mip[t] => hashtable[k] \notin {e}
      BY <2>3 DEF Passed
    <3>3. hashtable'[mip[t]] = NULL
      BY <1>t, <3>1
    <3>. HIDE DEF e
    <3>4. \A k \in Keys : k < mip[t] => hashtable'[k] = NULL /\ disk'[k] = NULL
      BY <3>1, <3>2 DEF Passed
    <3>. QED
      BY <2>1, <3>3, <3>4 DEF Passed
  <2>. QED
    BY <2>2, <2>3
<1>5. CASE Unlink(t)
  <2>1. /\ disk' = [disk EXCEPT ![mip[t]] = NULL] /\ UNCHANGED hashtable
        /\ hashtable[mip[t]] = NULL /\ mip'[t] = mip[t] + 1 /\ step'[t] = "flushTest"
    BY <1>t, <1>5 DEF Unlink, vars, tableVars, Flushing, Passed
  <2>2. \A k \in Keys : k < mip[t] + 1 => k < mip[t] \/ k = mip[t]
    BY <1>t
  <2>. QED
    BY <1>t, <2>1, <2>2 DEF Passed
<1>. QED
  BY <1>1, <1>2, <1>3, <1>4, <1>5
  DEF ThreadStep, GetThumb, CheckThumb, Rendered, Aborted, DemoteThumb, RefetchThumb,
      ReleaseThumb, SwapGet, SwapStore, Commit, EvictThumb, Flushing

\* A flush begins with the smallest size, and has passed nothing.
LEMMA CommitPassesNothing ==
    ASSUME ThumbInv, NEW t \in Threads, ThreadStep(t), ~Flushing(t), Flushing(t)'
    PROVE  Passed(t)'
<1>. USE DEF At, Step
<1>t. /\ step \in [Threads -> {"idle", "check", "render", "demote", "have", "swap", "flushTest",
                              "flushRelease", "flushRemove", "unlink"}]
      /\ mip \in [Threads -> Nat] /\ \A k \in Keys : k \in Nat
  BY ThumbAssumption DEF ThumbInv, OpTypes
<1>1. CASE Commit(t)
  <2>1. step'[t] = "flushTest" /\ mip'[t] = 0
    BY <1>t, <1>1, FirstKey DEF Commit
  <2>. QED
    BY <1>t, <2>1 DEF Passed
<1>. QED
  BY <1>1, <1>t
  DEF ThreadStep, GetThumb, CheckThumb, Rendered, Aborted, DemoteThumb, RefetchThumb, EndRelease,
      ReleaseThumb, SwapGet, SwapStore, FlushTest, FlushRelease, FlushRemove, Unlink, EvictThumb,
      Flushing, opVars

\* A flush stays calm only as long as it leaves nothing behind.
LEMMA StepCalm ==
    ASSUME ThumbInv, CalmFlush, NEW t \in Threads, ThreadStep(t), Calm
    PROVE  CalmFlush'
<1>. SUFFICES ASSUME NEW w \in calm'
              PROVE  /\ Flushing(w)'
                     /\ \A u \in Threads : u # w => step'[u] = "idle"
                     /\ Passed(w)'
  BY DEF CalmFlush, Passed
<1>1. /\ w \in Threads /\ Flushing(w)' /\ (Flushing(w) => w \in calm)
      /\ \A u \in Threads : u # w => step[u] = "idle" /\ step'[u] = "idle"
  BY DEF Calm
<1>2. w \in calm => Passed(w)
  BY DEF CalmFlush, Passed
<1>3. CASE w # t
  <2>1. step'[w] = step[w] /\ mip'[w] = mip[w]
    BY <1>1, <1>3, StepAlone DEF Alone, ThumbInv
  <2>2. Flushing(w) /\ Passed(w)
    BY <1>1, <1>2, <2>1 DEF Flushing
  <2>3. step[t] = "idle" /\ step'[t] = "idle"
    BY <1>1, <1>3
  <2>4. mip[w] \in Keys
    BY <1>1, <2>2 DEF ThumbInv, Calls
  <2>5. \A k \in Keys : hashtable[k] = NULL => hashtable'[k] = NULL /\ disk'[k] = disk[k]
    BY <2>3, OutsideKeepsPassed
  <2>6. Passed(w)'
    BY <2>1, <2>2, <2>4, <2>5 DEF Passed
  <2>. QED
    BY <1>1, <2>6
<1>4. CASE w = t /\ Flushing(t)
  <2>1. Passed(t) /\ Flushing(t)' /\ \A u \in Threads : u # t => step[u] = "idle"
    BY <1>1, <1>2, <1>4
  <2>2. Passed(t)'
    BY <1>4, <2>1, FlushKeepsPassed
  <2>. QED
    BY <1>1, <1>4, <2>2
<1>5. CASE w = t /\ ~Flushing(t)
  <2>1. Passed(t)'
    BY <1>1, <1>5, CommitPassesNothing
  <2>. QED
    BY <1>1, <1>5, <2>1
<1>. QED
  BY <1>3, <1>4, <1>5

\* When a flush that met nobody returns, no picture is left at all.
LEMMA CalmFlushEmpties ==
    ASSUME ThumbInv, ThumbInv', AllRecent, CalmFlush, NEW t \in Threads, ThreadStep(t),
           flushed' # flushed
    PROVE  AllRecent'
<1>. USE DEF At, Step
<1>t. /\ step \in [Threads -> {"idle", "check", "render", "demote", "have", "swap", "flushTest",
                              "flushRelease", "flushRemove", "unlink"}]
      /\ disk \in [Keys -> Files] /\ hashtable \in [Keys -> Entries \cup {NULL}]
      /\ NULL \notin Entries /\ NULL \notin Nat
      /\ \A k \in Keys : k \in Nat /\ 0..k \subseteq Keys
      /\ flushed \in Nat /\ flushed' \in Nat /\ edit \in Nat /\ asked \in [Threads -> 0..edit]
  BY ThumbAssumption, ContractAssumption DEF ThumbInv, OpTypes, IInv, TypeOK
<1>1. Unlink(t) /\ mip[t] + 1 \notin Keys /\ t \in calm
  BY DEF ThreadStep, GetThumb, CheckThumb, Rendered, Aborted, DemoteThumb, RefetchThumb,
     EndRelease, ReleaseThumb, SwapGet, SwapStore, Commit, FlushTest, FlushRelease, FlushRemove,
     Unlink, EvictThumb
<1>2. /\ step[t] = "unlink" /\ step'[t] = "idle" /\ UNCHANGED <<hashtable, alive, asked>>
      /\ disk' = [disk EXCEPT ![mip[t]] = NULL] /\ flushed' = Max({flushed, src[t]})
  BY <1>1, <1>t DEF Unlink, vars, tableVars
<1>3. mip[t] \in Keys /\ src[t] \in Nat
  BY <1>2, <1>t DEF ThumbInv, Calls, Flushing
<1>4. flushed <= flushed'
  BY <1>t, <1>2, <1>3 DEF Max
<1>5. \A k \in Keys : k < mip[t] \/ k = mip[t]
  BY <1>t, <1>1, <1>3
<1>6. \A k \in Keys : hashtable'[k] = NULL /\ disk'[k] = NULL
  BY <1>t, <1>1, <1>2, <1>3, <1>5 DEF CalmFlush
<1>7. alive' = {}
  BY <1>t, <1>6 DEF ThumbInv, Indexed, IInv, TypeOK
<1>8. \A u \in Threads : step'[u] = "idle"
  <2>1. \A u \in Threads : u # t => step'[u] = step[u]
    BY StepAlone DEF Alone, ThumbInv
  <2>. QED
    BY <1>1, <1>2, <2>1 DEF CalmFlush
<1>9. \A u \in Threads : asked'[u] <= flushed'
  BY <1>t, <1>2, <1>4 DEF AllRecent
<1>. QED
  BY <1>t, <1>6, <1>7, <1>8, <1>9 DEF AllRecent, Recent

\* Nothing older than the newest edit whose flush met nobody is left, in memory or on disk.
THEOREM AlwaysRecent == ThumbSpec => [](AllRecent /\ CalmFlush)
<1>1. ThumbInit => AllRecent /\ CalmFlush
  BY ThumbAssumption DEF ThumbInit, Init, AllRecent, Recent, CalmFlush
<1>2. ThumbInv /\ ThumbInv' /\ AllRecent /\ CalmFlush /\ [ThumbNext]_thumbVars =>
        (AllRecent /\ CalmFlush)'
  <2>. SUFFICES ASSUME ThumbInv, ThumbInv', AllRecent, CalmFlush, [ThumbNext]_thumbVars
                PROVE  AllRecent' /\ CalmFlush'
    OBVIOUS
  <2>1. ASSUME NEW t \in Threads, ThreadStep(t), Calm PROVE AllRecent' /\ CalmFlush'
    BY <2>1, StepRecent, CalmFlushEmpties, StepCalm
  <2>2. CASE CleanupThumbs /\ Calm
    <3>1. /\ UNCHANGED <<flushed, opVars, pix, born>> /\ alive' = {}
          /\ \A t \in Threads : step[t] = "idle"
      BY <2>2 DEF CleanupThumbs, Cleanup, At
    <3>2. \A k \in Keys : Recent(disk'[k])
      BY <2>2, SavedIsRecent DEF CleanupThumbs
    <3>3. AllRecent'
      BY <3>1, <3>2 DEF AllRecent, Recent, opVars
    <3>4. calm' = {}
      BY <2>2, <3>1 DEF Calm, Flushing, opVars
    <3>. QED
      BY <3>3, <3>4 DEF CalmFlush
  <2>3. CASE UNCHANGED thumbVars
    BY <2>3
    DEF AllRecent, Recent, CalmFlush, Flushing, thumbVars, dataVars, opVars, vars, tableVars
  <2>. QED
    BY <2>1, <2>2, <2>3 DEF ThumbNext, ThreadStep
<1>. QED
  BY <1>1, <1>2, ThumbsKeepInvariant, PTL DEF ThumbSpec

\* However requests, stores, evictions and flushes of any number of threads meet afterwards, a
\* request that begins after the flush of an edit returned, having met nobody, shows that edit or
\* a newer one (dt_mipmap_cache_remove).
THEOREM RequestsShowNewest == ThumbSpec => []FreshAfterFlush
<1>1. ThumbInv /\ AllRecent => FreshAfterFlush
  <2>. SUFFICES ASSUME ThumbInv, AllRecent, NEW t \in Threads, step[t] = "have", buf[t] # NULL,
                       pix[buf[t]] \in Nat
                PROVE  pix[buf[t]] >= asked[t]
    BY DEF FreshAfterFlush, At
  <2>1. pix[buf[t]] >= flushed /\ asked[t] <= flushed
    BY DEF AllRecent, Recent
  <2>2. flushed \in Nat /\ asked[t] \in Nat
    BY ThumbAssumption DEF ThumbInv, OpTypes
  <2>. QED
    BY <2>1, <2>2
<1>. QED
  BY <1>1, ThumbsKeepInvariant, AlwaysRecent, PTL

============================================================================
