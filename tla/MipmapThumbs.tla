---------------------------- MODULE MipmapThumbs ----------------------------
(***************************************************************************)
(* The thumbnails of one image (caches/mipmap_cache.c, sizes below         *)
(* DT_MIPMAP_F): requests that render, the darkroom that stores its own    *)
(* output, edits that flush, and the copies on disk.                       *)
(*                                                                         *)
(* The cache underneath is CacheContract, so what this module shows holds  *)
(* for every choice of the collector.  A key is a mip size.  Pixels are    *)
(* told apart by the edit of the image that they show.  Thumbnails are     *)
(* rendered from the development (embedded_jpg = 0) and the disk backend   *)
(* is on.                                                                  *)
(***************************************************************************)
EXTENDS CacheContract, FiniteSetsExt

CONSTANTS
    Aborters,    \* the requesting threads whose job may be shut down while it renders
    Swappers,    \* the darkroom pipelines
    Flushers,    \* the threads that edit the image or evict its thumbnails
    MaxEdits,    \* bound: how often the image is edited
    BLANK,       \* memory that holds no picture
    SKULL        \* the picture of 8 by 8 pixels that stands for a missing image

\* The mip sizes are consecutive, from DT_MIPMAP_0.  The threads that request thumbnails
\* end every request with a read lock.
ASSUME ThumbAssumption ==
    /\ 0 \in Keys
    /\ \A k \in Keys : k \in Nat /\ 0..k \subseteq Keys
    /\ BLANK \notin Nat /\ SKULL \notin Nat /\ NULL \notin Nat
    /\ BLANK # SKULL /\ BLANK # NULL /\ SKULL # NULL
    /\ HasAllocate
    /\ Aborters \subseteq Demoters
    /\ Swappers \subseteq Threads
    /\ Flushers \subseteq Threads
    /\ MaxEdits \in Nat

VARIABLES
    gen, inval,  \* dsc->flags: GENERATE, INVALIDATE
    pix,         \* what the pixels of an entry show
    disk,        \* the file of each mip size, or NULL
    edit,        \* the newest edit of the image
    step,        \* where each thread is in an operation of this module
    mip,         \* the mip size a flush is at
    src,         \* what a thread renders, stores or flushes for
    buf,         \* buf->buf of a request: the entry it points into, or NULL
    flushed,     \* the newest edit whose flush has returned, and met nobody else
    asked,       \* flushed, when the request began
    calm,        \* the flushes during which no other thread has requested, stored or flushed
    exposed,     \* requests whose entry lost its protection to the end of another demotion
    spoilt       \* entries that a shutdown, or a refetch without protection, left unrendered

dataVars == <<gen, inval, pix, disk>>
opVars == <<step, mip, src, buf, asked>>
spoilVars == <<exposed, spoilt>>
thumbVars == <<vars, dataVars, edit, flushed, opVars, spoilVars, calm>>

Pixels == (0..MaxEdits) \cup {BLANK, SKULL}
Files == Pixels \cup {NULL}

\* An earlier session may have left files of the image as it is.
ThumbInit ==
    /\ Init
    /\ gen = [e \in Entries |-> FALSE]
    /\ inval = [e \in Entries |-> FALSE]
    /\ pix = [e \in Entries |-> BLANK]
    /\ disk \in [Keys -> {0, NULL}]
    /\ edit = 0
    /\ flushed = 0
    /\ step = [t \in Threads |-> "idle"]
    /\ mip = [t \in Threads |-> 0]
    /\ src = [t \in Threads |-> 0]
    /\ buf = [t \in Threads |-> NULL]
    /\ asked = [t \in Threads |-> 0]
    /\ calm = {}
    /\ exposed = {}
    /\ spoilt = {}

----------------------------------------------------------------------------
(* dt_mipmap_cache_deallocate_dynamic, dt_mipmap_cache_allocate_dynamic *)

At(t, label) == step[t] = label
Step(t, label) == step' = [step EXCEPT ![t] = label]

\* What the file of an entry's mip size may be once the entry is deallocated: the pixels,
\* nothing if writing them fails, what was there if the file cannot be opened.  Skulls
\* are not written, everything else is.
Saved(e) ==
    IF pix[e] = SKULL THEN {disk[ekey[e]]}
    ELSE {pix[e], NULL, IF inval[e] THEN NULL ELSE disk[ekey[e]]}

DiskAfter(S) ==
    {d \in [Keys -> Files] :
        \A k \in Keys : d[k] \in IF hashtable[k] \in S THEN Saved(hashtable[k]) ELSE {disk[k]}}

\* A new entry takes its pixels from the file, or has to be generated if there is none.
\* A file that cannot be read is deleted, one that cannot be opened stays.
Allocate(e, k, d) ==
    \/ /\ d[k] # NULL
       /\ pix' = [pix EXCEPT ![e] = d[k]]
       /\ gen' = [gen EXCEPT ![e] = FALSE]
       /\ disk' = d
    \/ /\ pix' = [pix EXCEPT ![e] = BLANK]
       /\ gen' = [gen EXCEPT ![e] = TRUE]
       /\ \E left \in {d[k], NULL} : disk' = [d EXCEPT ![k] = left]

Fetch(t, k, mode) ==
    \/ Hit(t, k, mode) /\ UNCHANGED dataVars
    \/ /\ Miss(t, k, mode)
       /\ \E d \in DiskAfter(alive \ alive') : Allocate(ptr'[t], k, d)
       /\ UNCHANGED inval

\* Mutant: an entry is evicted while somebody reads it.
DropAnyway(e) ==
    /\ Vanish({e})
    /\ disk' \in DiskAfter({e})
    /\ UNCHANGED <<ekey, born, lockVars, callVars, demoting, closed>>

\* Mutant: an entry is evicted while its lock is demoted.
DropDemoted(e) ==
    /\ e \in alive /\ wr[e] = NULL /\ rd[e] = {}
    /\ Vanish({e})
    /\ disk' \in DiskAfter({e})
    /\ UNCHANGED <<ekey, born, lockVars, callVars, demoting, closed>>

\* dt_cache_remove of an entry that nobody uses.
Drop(e) ==
    /\ e \in Unused
    /\ Vanish({e})
    /\ disk' \in DiskAfter({e})
    /\ UNCHANGED <<ekey, born, lockVars, callVars, demoting, closed>>

----------------------------------------------------------------------------
(* dt_mipmap_cache_get, blocking and for reading *)

GetThumb(t) ==
    /\ t \in Demoters
    /\ Idle(t) /\ At(t, "idle")
    /\ \E k \in Keys : Fetch(t, k, "r")
    /\ Step(t, "check")
    /\ asked' = [asked EXCEPT ![t] = flushed]
    /\ UNCHANGED <<demoting, closed, spoilVars, edit, flushed, mip, src, buf>>

\* Mutant: a larger thumbnail is read without its lock.
LargerThumbsUnlocked(k) == {j \in Keys : j > k /\ hashtable[j] # NULL}

\* _init_8 takes the smallest larger thumbnail that it can lock, or renders the history.
LargerThumbs(k) ==
    {j \in Keys : j > k /\ hashtable[j] # NULL /\ Lockable(hashtable[j], "r")}

Source(k) ==
    IF LargerThumbs(k) # {} THEN pix[hashtable[Min(LargerThumbs(k))]] ELSE edit

\* _generate_blocking: an entry that is not marked is ready.
CheckThumb(t) ==
    /\ At(t, "check")
    /\ IF gen[ptr[t]]
       THEN /\ Step(t, "render")
            /\ src' = [src EXCEPT ![t] = Source(ekey[ptr[t]])]
            /\ UNCHANGED buf
       ELSE /\ Step(t, "demote")
            /\ buf' = [buf EXCEPT ![t] = ptr[t]]
            /\ UNCHANGED src
    /\ UNCHANGED <<vars, dataVars, spoilVars, edit, flushed, mip, asked>>

\* Mutant: the mark stays after the picture is there.
RenderedStillMarked(t) ==
    /\ At(t, "render")
    /\ \E p \in {src[t], SKULL} : pix' = [pix EXCEPT ![ptr[t]] = p]
    /\ buf' = [buf EXCEPT ![t] = ptr[t]]
    /\ Step(t, "demote")
    /\ UNCHANGED <<vars, gen, inval, disk, spoilVars, edit, flushed, mip, src, asked>>

\* Rendering ends with the picture, or without one: the input is missing or broken.
Rendered(t) ==
    /\ At(t, "render")
    /\ \E p \in {src[t], SKULL} : pix' = [pix EXCEPT ![ptr[t]] = p]
    /\ gen' = [gen EXCEPT ![ptr[t]] = FALSE]
    /\ buf' = [buf EXCEPT ![t] = ptr[t]]
    /\ Step(t, "demote")
    /\ UNCHANGED <<vars, inval, disk, spoilVars, edit, flushed, mip, src, asked>>

\* The request is shut down while it renders, or just after: the entry stays marked and
\* keeps its size, and the caller gets no pixels.
Aborted(t) ==
    /\ At(t, "render")
    /\ t \in Aborters
    /\ \E p \in {src[t], BLANK} : pix' = [pix EXCEPT ![ptr[t]] = p]
    /\ buf' = [buf EXCEPT ![t] = NULL]
    /\ spoilt' = spoilt \cup {ptr[t]}
    /\ Step(t, "demote")
    /\ UNCHANGED <<vars, gen, inval, disk, exposed, edit, flushed, mip, src, asked>>

\* The lock is demoted; buf->buf is not set again.
DemoteThumb(t) ==
    /\ At(t, "demote")
    /\ Demote(t) \/ DemoteTail(t)
    /\ UNCHANGED <<dataVars, spoilVars, edit, flushed, opVars>>

\* The entry is fetched again and its flag cleared, whoever else relies on it.  An entry that
\* had to be allocated anew is not rendered.
RefetchThumb(t) ==
    /\ At(t, "demote")
    /\ pc[t] = "demote"
    /\ Fetch(t, ekey[ptr[t]], "r")
    /\ demoting' = [demoting EXCEPT ![ptr'[t]] = FALSE]
    /\ exposed' = exposed \cup {u \in Threads \ {t} : Demotes(u) /\ ptr[u] = ptr'[t]}
    /\ spoilt' = IF t \in exposed /\ gen'[ptr'[t]] THEN spoilt \cup {ptr'[t]} ELSE spoilt
    /\ Step(t, "have")
    /\ UNCHANGED <<closed, edit, flushed, mip, src, buf, asked>>

\* dt_mipmap_cache_release
ReleaseThumb(t) ==
    /\ At(t, "have")
    /\ Release(t)
    /\ Step(t, "idle")
    /\ buf' = [buf EXCEPT ![t] = NULL]
    /\ exposed' = exposed \ {t}
    /\ UNCHANGED <<dataVars, spoilt, edit, flushed, mip, src, asked>>

EndRelease(t) ==
    /\ ReleaseTail(t)
    /\ UNCHANGED <<dataVars, spoilVars, edit, flushed, opVars>>

----------------------------------------------------------------------------
(* dt_mipmap_cache_swap_at_size *)

SwapGet(t) ==
    /\ t \in Swappers
    /\ Idle(t) /\ At(t, "idle")
    /\ \E k \in Keys : Fetch(t, k, "w")
    /\ src' = [src EXCEPT ![t] = edit]
    /\ Step(t, "swap")
    /\ UNCHANGED <<demoting, closed, spoilVars, edit, flushed, mip, buf, asked>>

\* The output is scaled to the size of the entry, so a skull stays too small to be kept.
SwapStore(t) ==
    /\ At(t, "swap")
    /\ pix' = [pix EXCEPT ![ptr[t]] = IF @ = SKULL THEN SKULL ELSE src[t]]
    /\ gen' = [gen EXCEPT ![ptr[t]] = FALSE]
    /\ Release(t)
    /\ Step(t, "idle")
    /\ UNCHANGED <<inval, disk, spoilVars, edit, flushed, mip, src, buf, asked>>

----------------------------------------------------------------------------
(* An edit, then dt_mipmap_cache_remove(imgid, TRUE) *)

Flushing(t) == step[t] \in {"flushTest", "flushRelease", "flushRemove", "unlink"}

Commit(t) ==
    /\ t \in Flushers
    /\ Idle(t) /\ At(t, "idle")
    /\ edit < MaxEdits
    /\ edit' = edit + 1
    /\ src' = [src EXCEPT ![t] = edit + 1]
    /\ mip' = [mip EXCEPT ![t] = Min(Keys)]
    /\ Step(t, "flushTest")
    /\ UNCHANGED <<vars, dataVars, spoilVars, flushed, buf, asked>>

\* dt_mipmap_cache_remove_at_size takes the entry only if nobody has it.
FlushTest(t) ==
    /\ At(t, "flushTest")
    /\ \/ /\ Hit(t, mip[t], "w")
          /\ Step(t, "flushRelease")
       \/ /\ hashtable[mip[t]] # NULL => ~Lockable(hashtable[mip[t]], "w")
          /\ Step(t, "unlink")
          /\ UNCHANGED <<tableVars, lockVars, callVars>>
    /\ UNCHANGED <<demoting, closed, dataVars, spoilVars, edit, flushed, mip, src, buf, asked>>

FlushRelease(t) ==
    /\ At(t, "flushRelease")
    /\ inval' = [inval EXCEPT ![ptr[t]] = TRUE]
    /\ Release(t)
    /\ Step(t, "flushRemove")
    /\ UNCHANGED <<gen, pix, disk, spoilVars, edit, flushed, mip, src, buf, asked>>

\* dt_cache_remove waits until nobody uses the entry, or finds it gone.
FlushRemove(t) ==
    /\ At(t, "flushRemove")
    /\ pc[t] = "idle"
    /\ IF hashtable[mip[t]] = NULL THEN UNCHANGED <<vars, disk>> ELSE Drop(hashtable[mip[t]])
    /\ Step(t, "unlink")
    /\ UNCHANGED <<gen, inval, pix, spoilVars, edit, flushed, mip, src, buf, asked>>

\* Mutant: the file is left to the INVALIDATE flag.
UnlinkOmitted(t) ==
    /\ At(t, "unlink")
    /\ IF mip[t] + 1 \in Keys
       THEN /\ mip' = [mip EXCEPT ![t] = @ + 1]
            /\ Step(t, "flushTest")
            /\ UNCHANGED flushed
       ELSE /\ Step(t, "idle")
            /\ flushed' = IF t \in calm THEN Max({flushed, src[t]}) ELSE flushed
            /\ UNCHANGED mip
    /\ UNCHANGED <<vars, gen, inval, pix, disk, spoilVars, edit, src, buf, asked>>

\* The file goes last, then the next mip size is flushed.
Unlink(t) ==
    /\ At(t, "unlink")
    /\ disk' = [disk EXCEPT ![mip[t]] = NULL]
    /\ IF mip[t] + 1 \in Keys
       THEN /\ mip' = [mip EXCEPT ![t] = @ + 1]
            /\ Step(t, "flushTest")
            /\ UNCHANGED flushed
       ELSE /\ Step(t, "idle")
            /\ flushed' = IF t \in calm THEN Max({flushed, src[t]}) ELSE flushed
            /\ UNCHANGED mip
    /\ UNCHANGED <<vars, gen, inval, pix, spoilVars, edit, src, buf, asked>>

\* dt_mimap_cache_evict
EvictThumb(t) ==
    /\ t \in Flushers
    /\ Idle(t) /\ At(t, "idle")
    /\ \E k \in Keys : hashtable[k] # NULL /\ Drop(hashtable[k])
    /\ UNCHANGED <<gen, inval, pix, spoilVars, edit, flushed, opVars>>

\* dt_mipmap_cache_cleanup deallocates every entry.
CleanupThumbs ==
    /\ \A t \in Threads : At(t, "idle")
    /\ Cleanup
    /\ alive' = {}
    /\ disk' \in DiskAfter(alive)
    /\ UNCHANGED <<gen, inval, pix, spoilVars, edit, flushed, opVars>>

----------------------------------------------------------------------------

\* A flush stays calm as long as every other thread is outside the operations of this module.
Calm ==
    calm' = {t \in Threads :
                /\ Flushing(t)'
                /\ Flushing(t) => t \in calm
                /\ \A u \in Threads \ {t} : step[u] = "idle" /\ step'[u] = "idle"}

ThumbNext ==
    /\ \/ \E t \in Threads :
           \/ GetThumb(t) \/ CheckThumb(t) \/ Rendered(t) \/ Aborted(t)
           \/ DemoteThumb(t) \/ RefetchThumb(t) \/ ReleaseThumb(t) \/ EndRelease(t)
           \/ SwapGet(t) \/ SwapStore(t)
           \/ Commit(t) \/ FlushTest(t) \/ FlushRelease(t) \/ FlushRemove(t) \/ Unlink(t)
           \/ EvictThumb(t)
       \/ CleanupThumbs
    /\ Calm

ThumbSpec == ThumbInit /\ [][ThumbNext]_thumbVars

----------------------------------------------------------------------------
(* Properties *)

\* Every variable of this module has the type of what it models.
ThumbTypeOK ==
    /\ TypeOK
    /\ gen \in [Entries -> BOOLEAN] /\ inval \in [Entries -> BOOLEAN]
    /\ pix \in [Entries -> Pixels]
    /\ disk \in [Keys -> Files]
    /\ edit \in 0..MaxEdits /\ flushed \in 0..edit
    /\ mip \in [Threads -> Nat]
    /\ src \in [Threads -> Pixels]
    /\ buf \in [Threads -> Entries \cup {NULL}]
    /\ asked \in [Threads -> 0..edit]
    /\ calm \subseteq Threads /\ exposed \subseteq Threads /\ spoilt \subseteq Entries

\* The thumbnails use the cache as it is meant to be used: every step is a step of the
\* cache's contract.
UsesContract == Spec

\* Nothing was spoilt that the entry, or the file, of mip size k may have been made from.
Clean(k) == \A e \in spoilt : ekey[e] < k

\* No two threads render into the same entry, and none renders into one that somebody
\* looks at: the lock of dt_cache_get covers _generate_blocking.  It does not once the entry
\* stays marked without a writer: after a shutdown, of which _generate_blocking says that "the
\* next request can restart from a clean state", or when a refetch had to allocate it anew.
OneRenderer ==
    \A t, u \in Threads :
        t # u /\ At(t, "render") /\ pc[u] = "hold" /\ step[u] \in {"render", "have", "swap"} =>
            ptr[t] # ptr[u] \/ ptr[t] \in spoilt

\* Memory without a picture is stored as a thumbnail only if an entry of that mip size, or a
\* larger one that it was scaled from, was left unrendered: a shutdown keeps the entry with its
\* size, and its deallocation writes it, for all that _generate_blocking promises ("instead of
\* reusing a poisoned empty thumbnail for the rest of the session").
NoPoisonOnDisk == \A k \in Keys : disk[k] = BLANK => ~Clean(k)

\* What a request hands out lies in the entry that it locks ("we need to take some care to
\* re-init cache entries and dsc", dt_mipmap_cache_get), unless another request that ended its
\* demotion cleared the flag this one relied on; and it shows a picture, unless nothing but
\* an unrendered entry or file was there to take it from.
HandedOutIsReady ==
    \A t \in Threads : At(t, "have") /\ buf[t] # NULL /\ t \notin exposed =>
        /\ buf[t] = ptr[t]
        /\ Clean(ekey[ptr[t]]) => pix[buf[t]] # BLANK

\* "remove thumbnails, so they will be regenerated" (mipmap_cache.h): a request that begins
\* after the flush of an edit has returned does not show an older edit, whatever later flushes,
\* requests and stores meet.  The flush itself must have met nobody: it leaves alone an entry that
\* somebody uses (mipmap_cache.c:1309), and a request in between may render a size it has passed
\* from a larger one that it has not.
FreshAfterFlush ==
    \A t \in Threads : At(t, "have") /\ buf[t] # NULL /\ pix[buf[t]] \in Nat =>
        pix[buf[t]] >= asked[t]
============================================================================
