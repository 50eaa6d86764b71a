------------------------- MODULE PixelpipeRunProofs -------------------------
(***************************************************************************)
(* Proofs about the lines of the pixel cache under a pipe and its GUI, for *)
(* any pipe, any histories and any number of runs: the reference counts    *)
(* are exact up to the recorded losses, a held line is not freed, a        *)
(* published line shows its hash, a reader sees whole pixels, and the      *)
(* painter's line is kept.                                                 *)
(*                                                                         *)
(* The inductive invariant has two parts.  Content says what a line shows  *)
(* and who has it locked, for every place the worker and the GUI can be    *)
(* at; References counts the holders of a line.                            *)
(***************************************************************************)
EXTENDS PixelpipeRun, TLAPS, FiniteSetTheorems, SequenceTheorems

----------------------------------------------------------------------------
(* The inductive invariant.  Its parts are operators of the table L, the   *)
(* worker c, the backbuffer b and the GUI g.                               *)

LineRec == [hash : Hashes, refs : Int, auto_destroy : BOOLEAN, writer : BOOLEAN,
            readers : SUBSET {"worker", "gui"}, pixels : Hashes \cup {NoHash, Garbled},
            drift : Int]

\* A table of lines: no two have the same hash.
TableOK(L) ==
    /\ DOMAIN L \subseteq Entries
    /\ \A e \in DOMAIN L : L[e] \in LineRec
    /\ \A e, f \in DOMAIN L : L[e].hash = L[f].hash => e = f

\* The hint of a module is a line of that module.
HintOK(h) ==
    /\ h \in [1..(Modules - 1) -> Leases]
    /\ \A n \in 1..(Modules - 1) : h[n].hash # NoHash => Len(h[n].hash) = n

\* Where the worker has its output locked for writing.
Writing == {"begin", "process", "publish", "failing"}
\* Where the recursion has returned a line.
Returned == {"return", "finish", "finalcheck", "swap", "swapold", "swapnew", "unref", "unrefdone"}
Swapping == {"swap", "swapold", "swapnew"}
\* Where a line of the output's hash shows it.
Shown == {"exact", "exactref", "exactdrop", "exactagain", "exactin", "return", "reap", "recheck"}
\* Where the output is being withdrawn.
Withdrawn == {"dropin", "dropagain", "reapin", "dropout", "remove", "mark"}

OutHash(c) == Hash(c.history, c.node)

WorkerType(c) ==
    c \in [pc : Pcs, node : 1..Modules, history : Histories \cup {NoHash}, target : 1..Modules,
           bypass : BOOLEAN, in : EntryOrNone, out : EntryOrNone, ptr : EntryOrNone,
           old : EntryOrNone, ret : Leases, after : {None, "idle", "unref"}]

\* What its program counter says of its own variables.
CallOK(c) ==
    /\ c.pc # "idle" => c.history \in Histories
    /\ c.node <= c.target
    /\ c.pc \notin Returned => c.ret = NoLease
    /\ c.pc \in Swapping => c.after # None /\ (c.after = "idle" => c.ret = NoLease)
    /\ c.pc \in {"look", "check", "enter"} => c.in = None
    /\ c.pc \in {"look", "check"} => c.node = c.target
    /\ c.pc = "return" => c.ret.hash = OutHash(c)

\* The write lock: the worker has that of its output and no other, and the GUI does not read.
WriterOK(c, L) ==
    /\ c.pc \in Writing => c.out \in DOMAIN L /\ L[c.out].writer /\ L[c.out].hash = OutHash(c)
    /\ \A e \in DOMAIN L : L[e].writer => e = c.out /\ c.pc \in Writing /\ "gui" \notin L[e].readers

\* A line about to be rekeyed is one of the same module, and its new hash is not taken.
RekeyOK(c, L) ==
    c.pc = "rekey" => /\ c.node < Modules
                      /\ c.out \in DOMAIN L /\ Len(L[c.out].hash) = c.node
                      /\ \A e \in DOMAIN L : L[e].hash # OutHash(c)

\* The input is the output of the module before, and shows it; it is locked while it is read.
InputOK(c, L, re) ==
    /\ c.pc \in {"acquire", "rekey", "begin", "process"} /\ c.in \in DOMAIN L =>
         /\ c.node > 1 /\ L[c.in].hash = Hash(c.history, c.node - 1)
         /\ ~re => L[c.in].pixels = L[c.in].hash
    /\ c.pc = "process" /\ c.in \in DOMAIN L => "worker" \in L[c.in].readers

\* It has not been freed before it is read.
InputLive(c, L) == c.pc = "process" /\ c.in # None => c.in \in DOMAIN L

\* A line with the hash of the output shows it.
ShownOK(c, L, sh, re) ==
    c.pc \in Shown \/ (c.pc \in {"publish", "published"} /\ ~sh) =>
        (~re => \A e \in DOMAIN L : L[e].hash = OutHash(c) => L[e].pixels = OutHash(c))

\* The line for the backbuffer has the hash of the last module.
FinalOK(c, L) ==
    /\ c.pc \in Swapping \cup {"check", "finalcheck"} => c.ptr # None
    /\ c.pc = "check" /\ c.ptr \in DOMAIN L => L[c.ptr].hash = OutHash(c)
    /\ c.pc \in Swapping \cup {"finalcheck"} /\ c.ptr \in DOMAIN L =>
         L[c.ptr].hash = Hash(c.history, Modules)

\* The backbuffer's line: it keeps its hash, and is missing only between two lines.
BackbufOK(b, c, L) ==
    /\ b \in Leases
    /\ b.hash # NoHash => Len(b.hash) = Modules
    /\ b.hash # NoHash /\ c.pc # "swapnew" => b.entry # None
    /\ b.entry \in DOMAIN L => L[b.entry].hash = b.hash
    /\ c.pc = "swapold" => b.entry = c.old
    /\ c.pc = "swapnew" => b.entry = None

\* A reader has its lock, and the line of a painter is one of the last module.
GuiOK(g, L) ==
    /\ g \in [pc : {"idle", "held", "reading", "read", "releasing", "borrow", "painting"},
              hash : Hashes \cup {NoHash}, entry : EntryOrNone]
    /\ g.pc = "reading" /\ g.entry \in DOMAIN L => "gui" \in L[g.entry].readers
    /\ g.pc \in {"borrow", "painting"} =>
         /\ Len(g.hash) = Modules
         /\ g.entry \in DOMAIN L => L[g.entry].hash = g.hash

\* A published line shows its hash, unless the worker is withdrawing it.
TrueOK(c, L, sh, re) ==
    ~re => \A e \in DOMAIN L :
        ~L[e].writer /\ ~L[e].auto_destroy
            /\ ~(e = c.out /\ (c.pc \in Withdrawn \/ (c.pc = "published" /\ sh)))
        => L[e].pixels = L[e].hash

WorkerOK(c, L, sh, re) ==
    /\ WorkerType(c) /\ CallOK(c) /\ WriterOK(c, L) /\ RekeyOK(c, L) /\ InputOK(c, L, re)
    /\ ShownOK(c, L, sh, re) /\ FinalOK(c, L) /\ TrueOK(c, L, sh, re)

Content ==
    /\ TableOK(lines) /\ HintOK(hint)
    /\ WorkerOK(w, lines, shutdown, reused) /\ (fault = None => InputLive(w, lines))
    /\ BackbufOK(backbuf, w, lines) /\ GuiOK(gui, lines)
    /\ shutdown \in BOOLEAN /\ reused \in BOOLEAN /\ over \in BOOLEAN
    /\ runs \in 0..MaxRuns /\ flushes \in 0..MaxFlushes /\ fault \in Places \cup {None}

\* Who holds a line: the worker's input, output, exact hit and returned line, the backbuffer,
\* and the GUI.
HeldIn(c) == IF c.pc \in InputHeld THEN c.in ELSE None
HeldOut(c) == IF c.pc \in OutputHeld THEN c.out ELSE None
HeldPtr(c) == IF c.pc \in {"exactdrop", "exactin"} THEN c.ptr ELSE None
HeldGui(g) == IF g.pc \in {"held", "reading", "read", "releasing"} THEN g.entry ELSE None

One(x, y) == IF x = y THEN 1 ELSE 0

Count(c, b, g, e) ==
    One(HeldIn(c), e) + One(HeldOut(c), e) + One(HeldPtr(c), e) + One(c.ret.entry, e)
        + One(b.entry, e) + One(HeldGui(g), e)

\* The references on a line somebody will give back.
Net(L, e) == L[e].refs - L[e].drift

References ==
    /\ \A e \in Live : Net(lines, e) = Count(w, backbuf, gui, e)
    /\ ~over => \A e \in Live : lines[e].drift >= 0
    /\ flushes = 0 /\ ~over => \A e \in Entries : Count(w, backbuf, gui, e) > 0 => e \in Live

Inv == Content /\ (fault = None => References)

----------------------------------------------------------------------------
(* Hashes *)

\* A history is a sequence of one parameter per module.
LEMMA HistoryIsSeq == \A h \in Histories : h \in Seq(Nat) /\ Len(h) = Modules
<1>. SUFFICES ASSUME NEW h \in Histories PROVE h \in Seq(Nat) /\ Len(h) = Modules
  OBVIOUS
<1>1. Modules \in Nat /\ h \in [1..Modules -> Nat]
  BY ModulesAssumption, HistoriesAssumption
<1>2. h \in Seq(Nat)
  BY <1>1, IsASeq
<1>. QED BY <1>1, <1>2, LenProperties

\* The hash of module n tells n, and is never the invalid hash.
LEMMA HashFacts ==
    /\ \A h \in Histories, n \in 1..Modules : Hash(h, n) \in Hashes /\ Len(Hash(h, n)) = n
    /\ \A x \in Hashes : Len(x) \in 1..Modules
    /\ NoHash \notin Hashes
<1>1. ASSUME NEW h \in Histories, NEW n \in 1..Modules
      PROVE  Hash(h, n) \in Hashes /\ Len(Hash(h, n)) = n
  <2>1. h \in Seq(Nat) /\ Len(h) = Modules
    BY HistoryIsSeq
  <2>2. Modules \in Nat
    BY ModulesAssumption
  <2>3. Len(SubSeq(h, 1, n)) = n
    BY <2>1, <2>2, SubSeqProperties
  <2>. QED BY <2>3 DEF Hash, Hashes
<1>2. \A x \in Hashes : Len(x) \in 1..Modules
  <2>. SUFFICES ASSUME NEW x \in Hashes PROVE Len(x) \in 1..Modules
    OBVIOUS
  <2>1. PICK h \in Histories, n \in 1..Modules : x = Hash(h, n)
    BY DEF Hashes
  <2>. QED BY <2>1, <1>1
<1>3. NoHash \notin Hashes
  BY <1>2 DEF NoHash
<1>. QED BY <1>1, <1>2, <1>3

----------------------------------------------------------------------------
(* What an operation on the table keeps. *)

\* M is what became of L when lines were freed and otherwise only counts changed.
Keeps(L, M) ==
    /\ TableOK(M)
    /\ DOMAIN M \subseteq DOMAIN L
    /\ \A e \in DOMAIN M : /\ M[e].hash = L[e].hash /\ M[e].pixels = L[e].pixels
                           /\ M[e].writer = L[e].writer /\ M[e].readers = L[e].readers
                           /\ M[e].auto_destroy = L[e].auto_destroy

\* The reference on x was given up and one on y was taken; no reference was lost.
Moves(L, M, x, y) == \A e \in DOMAIN M : Net(M, e) = Net(L, e) - One(x, e) + One(y, e)
NoLoss(L, M) == \A e \in DOMAIN M : M[e].drift >= L[e].drift
\* Only lines without references, or without a lock, were freed.
Unheld(L, M) == \A e \in DOMAIN L \ DOMAIN M : L[e].refs <= 0
Unlocked(L, M) == \A e \in DOMAIN L \ DOMAIN M : ~L[e].writer /\ L[e].readers = {}

\* Nothing changes.
LEMMA KeepsSame ==
    ASSUME NEW L, TableOK(L)
    PROVE  Keeps(L, L) /\ Moves(L, L, None, None) /\ NoLoss(L, L) /\ Unheld(L, L) /\ Unlocked(L, L)
<1>1. Keeps(L, L) /\ Unheld(L, L) /\ Unlocked(L, L)
  BY DEF Keeps, Unheld, Unlocked
<1>2. \A e \in DOMAIN L : e # None /\ L[e].refs \in Int /\ L[e].drift \in Int
  BY EntriesAssumption DEF TableOK, LineRec
<1>. QED BY <1>1, <1>2 DEF Moves, NoLoss, Net, One

\* A thread takes a reference on e.
LEMMA RefCountUp ==
    ASSUME NEW L, TableOK(L), NEW e
    PROVE  /\ Keeps(L, RefCount(L, e, 1)) /\ Moves(L, RefCount(L, e, 1), None, e)
           /\ NoLoss(L, RefCount(L, e, 1)) /\ Unheld(L, RefCount(L, e, 1))
           /\ Unlocked(L, RefCount(L, e, 1)) /\ DOMAIN RefCount(L, e, 1) = DOMAIN L
<1>. DEFINE M == RefCount(L, e, 1)
<1>1. DOMAIN M = DOMAIN L
  BY DEF RefCount
<1>2. \A x \in DOMAIN L :
        /\ L[x] \in LineRec /\ M[x] \in LineRec
        /\ M[x].hash = L[x].hash /\ M[x].pixels = L[x].pixels
        /\ M[x].writer = L[x].writer /\ M[x].readers = L[x].readers
        /\ M[x].auto_destroy = L[x].auto_destroy /\ M[x].drift = L[x].drift
        /\ M[x].refs = IF x = e THEN L[x].refs + 1 ELSE L[x].refs
  BY DEF RefCount, TableOK, LineRec
<1>3. \A x \in DOMAIN L : x # None /\ L[x].refs \in Int /\ L[x].drift \in Int
  BY <1>2, EntriesAssumption DEF TableOK, LineRec
<1>. HIDE DEF M
<1>4. Keeps(L, M)
  BY <1>1, <1>2 DEF Keeps, TableOK
<1>5. Moves(L, M, None, e) /\ NoLoss(L, M)
  BY <1>1, <1>2, <1>3 DEF Moves, NoLoss, Net, One
<1>. QED BY <1>1, <1>4, <1>5 DEF M, Unheld, Unlocked

\* A thread gives a reference on e back.
LEMMA RefCountDown ==
    ASSUME NEW L, TableOK(L), NEW e
    PROVE  /\ Keeps(L, RefCount(L, e, -1)) /\ Moves(L, RefCount(L, e, -1), e, None)
           /\ NoLoss(L, RefCount(L, e, -1)) /\ Unheld(L, RefCount(L, e, -1))
           /\ Unlocked(L, RefCount(L, e, -1)) /\ DOMAIN RefCount(L, e, -1) = DOMAIN L
<1>. DEFINE M == RefCount(L, e, -1)
<1>1. DOMAIN M = DOMAIN L
  BY DEF RefCount
<1>2. \A x \in DOMAIN L :
        /\ L[x] \in LineRec /\ M[x] \in LineRec
        /\ M[x].hash = L[x].hash /\ M[x].pixels = L[x].pixels
        /\ M[x].writer = L[x].writer /\ M[x].readers = L[x].readers
        /\ M[x].auto_destroy = L[x].auto_destroy /\ M[x].drift = L[x].drift
        /\ M[x].refs = IF x = e THEN L[x].refs - 1 ELSE L[x].refs
  BY DEF RefCount, TableOK, LineRec
<1>3. \A x \in DOMAIN L : x # None /\ L[x].refs \in Int /\ L[x].drift \in Int
  BY <1>2, EntriesAssumption DEF TableOK, LineRec
<1>. HIDE DEF M
<1>4. Keeps(L, M)
  BY <1>1, <1>2 DEF Keeps, TableOK
<1>5. Moves(L, M, e, None) /\ NoLoss(L, M)
  BY <1>1, <1>2, <1>3 DEF Moves, NoLoss, Net, One
<1>. QED BY <1>1, <1>4, <1>5 DEF M, Unheld, Unlocked

\* The drift of e records a change of who will give a reference back.
LEMMA DriftsBy ==
    ASSUME NEW L, TableOK(L), NEW e, NEW d \in Int
    PROVE  /\ Keeps(L, Drifts(L, e, d)) /\ DOMAIN Drifts(L, e, d) = DOMAIN L
           /\ \A x \in DOMAIN L :
                /\ Net(Drifts(L, e, d), x) = Net(L, x) - (IF x = e THEN d ELSE 0)
                /\ Drifts(L, e, d)[x].drift = L[x].drift + (IF x = e THEN d ELSE 0)
<1>. DEFINE M == Drifts(L, e, d)
<1>1. DOMAIN M = DOMAIN L
  BY DEF Drifts
<1>2. \A x \in DOMAIN L :
        /\ L[x] \in LineRec /\ M[x] \in LineRec
        /\ M[x].hash = L[x].hash /\ M[x].pixels = L[x].pixels
        /\ M[x].writer = L[x].writer /\ M[x].readers = L[x].readers
        /\ M[x].auto_destroy = L[x].auto_destroy /\ M[x].refs = L[x].refs
        /\ M[x].drift = IF x = e THEN L[x].drift + d ELSE L[x].drift
  BY DEF Drifts, TableOK, LineRec
<1>3. \A x \in DOMAIN L : L[x].refs \in Int /\ L[x].drift \in Int
  BY <1>2 DEF LineRec
<1>. HIDE DEF M
<1>4. Keeps(L, M)
  BY <1>1, <1>2 DEF Keeps, TableOK
<1>5. \A x \in DOMAIN L : /\ Net(M, x) = Net(L, x) - (IF x = e THEN d ELSE 0)
                          /\ M[x].drift = L[x].drift + (IF x = e THEN d ELSE 0)
  BY <1>2, <1>3 DEF Net
<1>. QED BY <1>1, <1>4, <1>5 DEF M

\* A reference is forgotten: the line keeps it, and nobody will give it back.
LEMMA DriftsUp ==
    ASSUME NEW L, TableOK(L), NEW e
    PROVE  /\ Keeps(L, Drifts(L, e, 1)) /\ Moves(L, Drifts(L, e, 1), e, None)
           /\ NoLoss(L, Drifts(L, e, 1)) /\ Unheld(L, Drifts(L, e, 1))
           /\ Unlocked(L, Drifts(L, e, 1)) /\ DOMAIN Drifts(L, e, 1) = DOMAIN L
<1>1. \A x \in DOMAIN L : x # None /\ L[x].drift \in Int /\ Net(L, x) \in Int
  BY EntriesAssumption DEF TableOK, LineRec, Net
<1>. QED BY <1>1, DriftsBy DEF Moves, NoLoss, Unheld, Unlocked, One

\* Two operations in a row.
LEMMA KeepsTrans ==
    ASSUME NEW L, NEW M, NEW N, Keeps(L, M), Keeps(M, N) PROVE Keeps(L, N)
BY DEF Keeps

\* The line found under a hash is the only one.
LEMMA FoundFacts ==
    ASSUME TableOK(lines), NEW h
    PROVE  /\ FoundOrNone(h) \in Live \cup {None} /\ FoundOrNone(h) \in EntryOrNone
           /\ \A e \in Live : lines[e].hash = h => Found(h) = {e} /\ FoundOrNone(h) = e
           /\ Found(h) = {} <=> FoundOrNone(h) = None
           /\ FoundOrNone(h) \in Live => lines[FoundOrNone(h)].hash = h
<1>1. CASE Found(h) = {}
  <2>1. FoundOrNone(h) = None
    BY <1>1 DEF FoundOrNone
  <2>2. None \notin Live
    BY EntriesAssumption DEF TableOK, Live
  <2>. QED BY <1>1, <2>1, <2>2 DEF Found, EntryOrNone
<1>2. CASE Found(h) # {}
  <2>1. PICK e \in Live : lines[e].hash = h
    BY <1>2 DEF Found
  <2>2. Found(h) = {e}
    BY <2>1 DEF Found, TableOK, Live
  <2>3. FoundOrNone(h) = e
    BY <2>2 DEF FoundOrNone
  <2>4. e \in Entries /\ e # None
    BY <2>1, EntriesAssumption DEF TableOK, Live
  <2>. QED BY <2>1, <2>2, <2>3, <2>4 DEF EntryOrNone, Found
<1>. QED BY <1>1, <1>2

\* The release of lease goes to the line found under its hash now.
LEMMA ReattributedMoves ==
    ASSUME TableOK(lines), NEW lease, lease.entry \in EntryOrNone,
           NEW y, y = FoundOrNone(lease.hash)
    PROVE  /\ Keeps(lines, Reattributed(lines, lease))
           /\ DOMAIN Reattributed(lines, lease) = Live
           /\ Moves(lines, Reattributed(lines, lease), lease.entry, y)
           /\ y \in {lease.entry, None} => NoLoss(lines, Reattributed(lines, lease))
           /\ Unheld(lines, Reattributed(lines, lease))
<1>. DEFINE M == Drifts(lines, lease.entry, 1)
            N == Drifts(M, y, -1)
<1>0. \A x \in Live : x # None /\ lines[x].drift \in Int /\ Net(lines, x) \in Int
  BY EntriesAssumption DEF TableOK, LineRec, Net, Live
<1>1. CASE y = lease.entry
  <2>1. Reattributed(lines, lease) = lines
    BY <1>1 DEF Reattributed
  <2>2. Moves(lines, lines, lease.entry, y)
    BY <1>0, <1>1 DEF Moves, One, Live
  <2>. QED BY <2>1, <2>2, KeepsSame DEF Live, Unheld
<1>2. CASE y # lease.entry
  <2>1. Reattributed(lines, lease) = N
    BY <1>2 DEF Reattributed
  <2>2. /\ Keeps(lines, M) /\ DOMAIN M = Live
        /\ \A x \in Live :
             /\ Net(M, x) = Net(lines, x) - (IF x = lease.entry THEN 1 ELSE 0)
             /\ M[x].drift = lines[x].drift + (IF x = lease.entry THEN 1 ELSE 0)
    BY DriftsBy DEF Live
  <2>3. TableOK(M)
    BY <2>2 DEF Keeps
  <2>. HIDE DEF M
  <2>4. /\ Keeps(M, N) /\ DOMAIN N = DOMAIN M
        /\ \A x \in DOMAIN M :
             /\ Net(N, x) = Net(M, x) - (IF x = y THEN -1 ELSE 0)
             /\ N[x].drift = M[x].drift + (IF x = y THEN -1 ELSE 0)
    BY <2>3, DriftsBy
  <2>. HIDE DEF N
  <2>5. Keeps(lines, N)
    BY <2>2, <2>4, KeepsTrans
  <2>6. Moves(lines, N, lease.entry, y)
    <3>. SUFFICES ASSUME NEW x \in DOMAIN N
                  PROVE  Net(N, x) = Net(lines, x) - One(lease.entry, x) + One(y, x)
      BY DEF Moves
    <3>1. Net(M, x) = Net(lines, x) - (IF x = lease.entry THEN 1 ELSE 0)
      BY <2>2, <2>4
    <3>2. Net(N, x) = Net(M, x) - (IF x = y THEN -1 ELSE 0)
      BY <2>4
    <3>3. Net(lines, x) \in Int
      BY <1>0, <2>2, <2>4
    <3>. QED BY <3>1, <3>2, <3>3 DEF One
  <2>7. ASSUME y = None PROVE NoLoss(lines, N)
    <3>. SUFFICES ASSUME NEW x \in DOMAIN N PROVE N[x].drift >= lines[x].drift
      BY DEF NoLoss
    <3>1. x \in Live /\ x # y
      BY <1>0, <2>2, <2>4, <2>7
    <3>. QED BY <3>1, <1>0, <2>2, <2>4
  <2>. QED BY <1>2, <2>1, <2>2, <2>4, <2>5, <2>6, <2>7 DEF Unheld, Live
<1>. QED BY <1>1, <1>2

\* Lines leave the table.
LEMMA WithoutKeeps ==
    ASSUME TableOK(lines), NEW S
    PROVE  /\ Keeps(lines, Without(S)) /\ DOMAIN Without(S) = Live \ S
           /\ Moves(lines, Without(S), None, None) /\ NoLoss(lines, Without(S))
           /\ (\A e \in S \cap Live : Removable(e, FALSE)) =>
                 Unheld(lines, Without(S)) /\ Unlocked(lines, Without(S))
<1>. DEFINE M == Without(S)
<1>1. DOMAIN M = Live \ S /\ \A e \in Live \ S : M[e] = lines[e]
  BY DEF Without, Restrict
<1>2. \A e \in Live : lines[e] \in LineRec
  BY DEF TableOK, Live
<1>. HIDE DEF M
<1>3. Keeps(lines, M)
  BY <1>1, <1>2 DEF Keeps, TableOK, Live
<1>4. \A e \in Live : e # None /\ lines[e].refs \in Int /\ lines[e].drift \in Int
  BY <1>2, EntriesAssumption DEF TableOK, LineRec, Live
<1>5. Moves(lines, M, None, None) /\ NoLoss(lines, M)
  BY <1>1, <1>4 DEF Moves, NoLoss, Net, One
<1>6. (\A e \in S \cap Live : Removable(e, FALSE)) => Unheld(lines, M) /\ Unlocked(lines, M)
  BY <1>1 DEF Unheld, Unlocked, Removable, Locked, Live
<1>. QED BY <1>1, <1>3, <1>5, <1>6 DEF M

\* The references of two operations in a row.
LEMMA MovesTrans ==
    ASSUME NEW L, NEW M, NEW N, TableOK(L), Keeps(L, M), Keeps(M, N),
           Moves(L, M, None, None), NoLoss(L, M), NEW x, NEW y, Moves(M, N, x, y), NoLoss(M, N)
    PROVE  Moves(L, N, x, y) /\ NoLoss(L, N)
<1>1. DOMAIN N \subseteq DOMAIN M /\ DOMAIN M \subseteq DOMAIN L
  BY DEF Keeps
<1>2. TableOK(M) /\ TableOK(N)
  BY DEF Keeps
<1>3. \A e \in DOMAIN N :
        /\ e # None /\ Net(L, e) \in Int /\ L[e].drift \in Int
        /\ M[e].drift \in Int /\ N[e].drift \in Int
  BY <1>1, <1>2, EntriesAssumption DEF TableOK, LineRec, Net
<1>4. Moves(L, N, x, y)
  <2>. SUFFICES ASSUME NEW e \in DOMAIN N
                PROVE  Net(N, e) = Net(L, e) - One(x, e) + One(y, e)
    BY DEF Moves
  <2>1. Net(M, e) = Net(L, e) - One(None, e) + One(None, e)
    BY <1>1 DEF Moves
  <2>2. Net(N, e) = Net(M, e) - One(x, e) + One(y, e)
    BY DEF Moves
  <2>. QED BY <2>1, <2>2, <1>3 DEF One
<1>5. NoLoss(L, N)
  BY <1>1, <1>3 DEF NoLoss
<1>. QED BY <1>4, <1>5

----------------------------------------------------------------------------
(* Counting *)

\* A count is a natural number, and counts the places that hold the line.
LEMMA CountFacts ==
    ASSUME NEW c, NEW b, NEW g, NEW e
    PROVE  /\ Count(c, b, g, e) \in Nat
           /\ Count(c, b, g, e) > 0 <=>
                \/ HeldIn(c) = e \/ HeldOut(c) = e \/ HeldPtr(c) = e \/ c.ret.entry = e
                \/ b.entry = e \/ HeldGui(g) = e
BY DEF Count, One

\* The definition of the run's property counts the same.
LEMMA CountIsCard ==
    ASSUME NEW e \in Entries
    PROVE  IsFiniteSet(Holders(e)) /\ Cardinality(Holders(e)) = Count(w, backbuf, gui, e)
<1>. DEFINE A(h, b) == IF b THEN {h} ELSE {}
            S1 == A("input", HeldIn(w) = e)
            S2 == A("output", HeldOut(w) = e)
            S3 == A("exact", HeldPtr(w) = e)
            S4 == A("returned", w.ret.entry = e)
            S5 == A("backbuf", backbuf.entry = e)
            S6 == A("gui", HeldGui(gui) = e)
<1>0. e # None
  BY EntriesAssumption
<1>1. Holders(e) = S1 \cup S2 \cup S3 \cup S4 \cup S5 \cup S6
  BY <1>0 DEF Holders, HeldIn, HeldOut, HeldPtr, HeldGui
<1>2. ASSUME NEW h, NEW b \in BOOLEAN
      PROVE  IsFiniteSet(A(h, b)) /\ Cardinality(A(h, b)) = IF b THEN 1 ELSE 0
  BY FS_Singleton, FS_EmptySet
<1>3. ASSUME NEW S, IsFiniteSet(S), NEW h, h \notin S, NEW b \in BOOLEAN
      PROVE  /\ IsFiniteSet(S \cup A(h, b))
             /\ Cardinality(S \cup A(h, b)) = Cardinality(S) + IF b THEN 1 ELSE 0
  <2>1. CASE b
    <3>1. S \cup A(h, b) = S \cup {h}
      BY <2>1
    <3>. QED BY <2>1, <3>1, <1>3, FS_AddElement
  <2>2. CASE ~b
    <3>1. S \cup A(h, b) = S
      BY <2>2
    <3>2. Cardinality(S) \in Nat
      BY <1>3, FS_CardinalityType
    <3>. QED BY <2>2, <3>1, <3>2, <1>3
  <2>. QED BY <2>1, <2>2
<1>4. IsFiniteSet(S1) /\ Cardinality(S1) = One(HeldIn(w), e)
  BY <1>2 DEF One
<1>5. /\ IsFiniteSet(S1 \cup S2)
      /\ Cardinality(S1 \cup S2) = Cardinality(S1) + One(HeldOut(w), e)
  <2>1. "output" \notin S1
    OBVIOUS
  <2>. QED BY <2>1, <1>3, <1>4 DEF One
<1>6. /\ IsFiniteSet(S1 \cup S2 \cup S3)
      /\ Cardinality(S1 \cup S2 \cup S3) = Cardinality(S1 \cup S2) + One(HeldPtr(w), e)
  <2>1. "exact" \notin S1 \cup S2
    OBVIOUS
  <2>. QED BY <2>1, <1>3, <1>5 DEF One
<1>7. /\ IsFiniteSet(S1 \cup S2 \cup S3 \cup S4)
      /\ Cardinality(S1 \cup S2 \cup S3 \cup S4)
           = Cardinality(S1 \cup S2 \cup S3) + One(w.ret.entry, e)
  <2>1. "returned" \notin S1 \cup S2 \cup S3
    OBVIOUS
  <2>. QED BY <2>1, <1>3, <1>6 DEF One
<1>8. /\ IsFiniteSet(S1 \cup S2 \cup S3 \cup S4 \cup S5)
      /\ Cardinality(S1 \cup S2 \cup S3 \cup S4 \cup S5)
           = Cardinality(S1 \cup S2 \cup S3 \cup S4) + One(backbuf.entry, e)
  <2>1. "backbuf" \notin S1 \cup S2 \cup S3 \cup S4
    OBVIOUS
  <2>. QED BY <2>1, <1>3, <1>7 DEF One
<1>9. /\ IsFiniteSet(S1 \cup S2 \cup S3 \cup S4 \cup S5 \cup S6)
      /\ Cardinality(S1 \cup S2 \cup S3 \cup S4 \cup S5 \cup S6)
           = Cardinality(S1 \cup S2 \cup S3 \cup S4 \cup S5) + One(HeldGui(gui), e)
  <2>1. "gui" \notin S1 \cup S2 \cup S3 \cup S4 \cup S5
    OBVIOUS
  <2>. QED BY <2>1, <1>3, <1>8 DEF One
<1>. HIDE DEF S1, S2, S3, S4, S5, S6
<1>. QED BY <1>1, <1>4, <1>5, <1>6, <1>7, <1>8, <1>9 DEF Count

\* A step that gives a reference on x up, takes one on y and frees only unheld lines
\* keeps the count of every line, and every held line.
LEMMA ReferencesStep ==
    ASSUME Content, References, TableOK(lines'), Live' \subseteq Live,
           flushes' \in {flushes, flushes + 1}, over => over',
           NEW x, NEW y, y \in Live' \cup {None},
           Moves(lines, lines', x, y),
           over' \/ NoLoss(lines, lines'),
           flushes' # flushes \/ Unheld(lines, lines'),
           \A e \in Entries : Count(w', backbuf', gui', e)
                                = Count(w, backbuf, gui, e) - One(x, e) + One(y, e)
    PROVE  References'
<1>0. TableOK(lines)
  BY DEF Content
<1>1. /\ \A e \in Live : e \in Entries /\ lines[e].refs \in Int /\ lines[e].drift \in Int
      /\ \A e \in Live' : e \in Entries /\ lines'[e].refs \in Int /\ lines'[e].drift \in Int
  BY <1>0 DEF TableOK, LineRec, Live
<1>2. ASSUME NEW e \in Live' PROVE Net(lines', e) = Count(w', backbuf', gui', e)
  BY <1>1, Live' \subseteq Live DEF References, Moves, Live
<1>3. ASSUME ~over', NEW e \in Live' PROVE lines'[e].drift >= 0
  <2>1. lines'[e].drift >= lines[e].drift
    BY <1>3 DEF NoLoss, Live
  <2>2. lines[e].drift >= 0
    BY <1>3 DEF References
  <2>. QED BY <2>1, <2>2, <1>1
<1>4. ASSUME flushes' = 0, ~over', NEW e \in Entries, Count(w', backbuf', gui', e) > 0
      PROVE  e \in Live'
  <2>1. flushes = 0 /\ ~over
    BY <1>4, BoundsAssumption DEF Content
  <2>2. CASE e = y
    BY <2>2, EntriesAssumption
  <2>3. CASE e # y
    <3>1. Count(w, backbuf, gui, e) \in Nat
      BY CountFacts
    <3>2. Count(w, backbuf, gui, e) > 0
      BY <1>4, <2>3, <3>1 DEF One
    <3>3. e \in Live
      BY <2>1, <3>2 DEF References
    <3>4. lines[e].refs - lines[e].drift > 0
      BY <3>2, <3>3 DEF References, Net
    <3>5. lines[e].drift >= 0
      BY <2>1, <3>3 DEF References
    <3>6. ~(lines[e].refs <= 0)
      BY <3>3, <3>4, <3>5, <1>1
    <3>. QED BY <1>4, <2>1, <3>3, <3>6 DEF Unheld, Live
  <2>. QED BY <2>2, <2>3
<1>5. (\A e \in Live : Net(lines, e) = Count(w, backbuf, gui, e))'
  BY <1>2
<1>6. (~over => \A e \in Live : lines[e].drift >= 0)'
  BY <1>3
<1>7. (flushes = 0 /\ ~over => \A e \in Entries : Count(w, backbuf, gui, e) > 0 => e \in Live)'
  BY <1>4
<1>. QED BY <1>5, <1>6, <1>7 DEF References

----------------------------------------------------------------------------
(* Content *)

\* What the invariant says of the worker stays true when only counts change and lines are
\* freed, save the one it writes or waits for.
LEMMA KeepWorker ==
    ASSUME NEW L, NEW M, TableOK(L), Keeps(L, M), NEW c, NEW sh, NEW re, WorkerOK(c, L, sh, re),
           c.pc \in Writing \cup {"rekey"} => c.out \in DOMAIN M
    PROVE  WorkerOK(c, M, sh, re)
<1>1. WriterOK(c, M)
  BY DEF WorkerOK, WriterOK, Keeps
<1>2. RekeyOK(c, M)
  BY DEF WorkerOK, RekeyOK, Keeps
<1>3. InputOK(c, M, re)
  BY DEF WorkerOK, InputOK, Keeps
<1>4. ShownOK(c, M, sh, re)
  BY DEF WorkerOK, ShownOK, Keeps
<1>5. FinalOK(c, M)
  BY DEF WorkerOK, FinalOK, Keeps
<1>6. TrueOK(c, M, sh, re)
  BY DEF WorkerOK, TrueOK, Keeps
<1>. QED BY <1>1, <1>2, <1>3, <1>4, <1>5, <1>6 DEF WorkerOK

\* The same of the backbuffer and the GUI.
LEMMA KeepOthers ==
    ASSUME NEW L, NEW M, TableOK(L), Keeps(L, M), NEW c, NEW b, NEW g,
           BackbufOK(b, c, L), GuiOK(g, L)
    PROVE  BackbufOK(b, c, M) /\ GuiOK(g, M)
BY DEF BackbufOK, GuiOK, Keeps

\* A hint to a freed line is forgotten.
LEMMA ForgetOK ==
    ASSUME HintOK(hint), NEW S, Forget(S) PROVE HintOK(hint')
<1>1. NoLease \in Leases /\ NoLease.hash = NoHash
  BY DEF NoLease, Leases, EntryOrNone
<1>. QED BY <1>1 DEF HintOK, Forget

----------------------------------------------------------------------------
(* The worker before and on the way down the recursion *)

\* The places of the worker.
LEMMA PcsFacts == \A p \in {"idle", "look", "check", "enter", "return", "acquire", "rekey",
        "exact", "exactref", "exactdrop", "exactagain", "exactin", "begin", "process", "publish",
        "published", "failing", "reap", "recheck", "dropin", "dropagain", "reapin", "dropout",
        "remove", "mark", "finish", "finalcheck", "swap", "swapold", "swapnew", "unref",
        "unrefdone"} : p \in Pcs
BY DEF Pcs

\* No line at all.
LEMMA NoLeaseFacts == NoLease \in Leases /\ NoLease.hash = NoHash /\ NoLease.entry = None
BY DEF NoLease, Leases, EntryOrNone

\* A worker without a run.
LEMMA IdleFacts ==
    /\ WorkerType(Idle) /\ Idle.pc = "idle" /\ Idle.node = 1 /\ Idle.history = NoHash
    /\ Idle.target = 1 /\ Idle.in = None /\ Idle.out = None /\ Idle.ptr = None /\ Idle.old = None
    /\ Idle.ret = NoLease /\ Idle.after = None
BY ModulesAssumption, PcsFacts DEF Idle, WorkerType, EntryOrNone, Leases, NoLease

\* The hash of the output of a running worker.
LEMMA HashOK ==
    ASSUME NEW c, WorkerType(c), CallOK(c), c.pc # "idle"
    PROVE  OutHash(c) \in Hashes /\ Len(OutHash(c)) = c.node
BY HashFacts DEF WorkerType, CallOK, OutHash

\* The exact-hit probe finds nothing.
LEMMA LookMissStep ==
    ASSUME Inv, fault = None, Look, w.bypass \/ Found(hash) = {}
    PROVE  Inv'
<1>0. /\ Content /\ References /\ TableOK(lines) /\ HintOK(hint)
      /\ WorkerOK(w, lines, shutdown, reused) /\ WorkerType(w) /\ w.pc = "look"
      /\ BackbufOK(backbuf, w, lines) /\ GuiOK(gui, lines)
  BY DEF Inv, Content, WorkerOK, Look, At
<1>1. UNCHANGED <<lines, hint, fault, shutdown, backbuf, gui, runs, flushes, over, reused>>
  BY DEF Look, Only
<1>2. /\ Keeps(lines, lines') /\ Moves(lines, lines', None, None) /\ Unheld(lines, lines')
      /\ DOMAIN lines' = DOMAIN lines /\ NoLoss(lines, lines')
  BY <1>0, <1>1, KeepsSame
<1>3. /\ WorkerOK(w, lines', shutdown, reused) /\ TableOK(lines')
      /\ BackbufOK(backbuf, w, lines') /\ GuiOK(gui, lines')
  BY <1>0, <1>2, KeepWorker, KeepOthers DEF Keeps, Writing
<1>4. /\ w'.pc = "enter" /\ w'.node = w.node /\ w'.history = w.history /\ w'.target = w.target
      /\ w'.in = w.in
      /\ w'.out = w.out /\ w'.ptr = w.ptr /\ w'.old = w.old /\ w'.ret = w.ret /\ w'.after = w.after
  BY <1>0 DEF Look, WorkerType, Goto
<1>5. WorkerType(w')
  BY <1>0, PcsFacts DEF Look, WorkerType, Goto
<1>6. WorkerOK(w', lines', shutdown', reused')
  BY <1>0, <1>1, <1>3, <1>4, <1>5 DEF WorkerOK, CallOK, WriterOK, RekeyOK, InputOK, ShownOK,
     FinalOK, TrueOK, OutHash, hash,
     Writing, Shown, Returned, Swapping, Withdrawn
<1>7. Content'
  BY <1>0, <1>1, <1>3, <1>4, <1>6 DEF Content, InputLive, BackbufOK
<1>8. ASSUME fault' = None PROVE References'
  <2>1. /\ HeldIn(w) = None /\ HeldOut(w) = None /\ HeldPtr(w) = None
        /\ HeldIn(w') = None /\ HeldOut(w') = None /\ HeldPtr(w') = None
    BY <1>0, <1>4 DEF HeldIn, HeldOut, HeldPtr, InputHeld, OutputHeld
  <2>2. w'.ret.entry = w.ret.entry /\ w.ret.entry = None
    BY <1>0, <1>4 DEF WorkerOK, CallOK, Returned, NoLease
  <2>3. ASSUME NEW f \in Entries
        PROVE  Count(w', backbuf', gui', f)
                 = Count(w, backbuf, gui, f) - One(None, f) + One(None, f)
    BY <1>1, <2>1, <2>2, EntriesAssumption DEF Count, One
  <2>. QED BY <1>0, <1>1, <1>2, <2>3, ReferencesStep DEF Keeps, Live
<1>. QED BY <1>0, <1>7, <1>8 DEF Inv

\* The exact-hit probe finds a line.
LEMMA LookHitStep ==
    ASSUME Inv, fault = None, Look, ~(w.bypass \/ Found(hash) = {})
    PROVE  Inv'
<1>0. /\ Content /\ References /\ TableOK(lines) /\ HintOK(hint)
      /\ WorkerOK(w, lines, shutdown, reused) /\ WorkerType(w) /\ w.pc = "look"
      /\ BackbufOK(backbuf, w, lines) /\ GuiOK(gui, lines)
  BY DEF Inv, Content, WorkerOK, Look, At
<1>1. UNCHANGED <<lines, hint, fault, shutdown, backbuf, gui, runs, flushes, over, reused>>
  BY DEF Look, Only
<1>2. /\ FoundOrNone(hash) \in EntryOrNone
      /\ (FoundOrNone(hash) \in Live => lines[FoundOrNone(hash)].hash = hash)
      /\ (Found(hash) # {} => FoundOrNone(hash) # None)
  BY <1>0, FoundFacts
<1>3. /\ Keeps(lines, lines') /\ Moves(lines, lines', None, None) /\ Unheld(lines, lines')
      /\ DOMAIN lines' = DOMAIN lines /\ NoLoss(lines, lines')
  BY <1>0, <1>1, KeepsSame
<1>4. /\ WorkerOK(w, lines', shutdown, reused) /\ TableOK(lines')
      /\ BackbufOK(backbuf, w, lines') /\ GuiOK(gui, lines')
  BY <1>0, <1>3, KeepWorker, KeepOthers DEF Keeps, Writing
<1>5. /\ w'.pc = "check" /\ w'.node = w.node /\ w'.history = w.history /\ w'.target = w.target
      /\ w'.in = w.in
      /\ w'.out = w.out /\ w'.ptr = FoundOrNone(hash) /\ w'.old = w.old /\ w'.ret = w.ret
      /\ w'.after = w.after
  BY <1>0, <1>2 DEF Look, WorkerType, Goto
<1>6. WorkerType(w')
  BY <1>0, <1>2, PcsFacts DEF Look, WorkerType, Goto
<1>7. WorkerOK(w', lines', shutdown', reused')
  BY <1>0, <1>1, <1>4, <1>5, <1>6, <1>2 DEF WorkerOK, CallOK, WriterOK, RekeyOK, InputOK, ShownOK,
     FinalOK, TrueOK, OutHash, hash,
     Writing, Shown, Returned, Swapping, Withdrawn, Live
<1>8. Content'
  BY <1>0, <1>1, <1>4, <1>5, <1>7 DEF Content, InputLive, BackbufOK
<1>9. ASSUME fault' = None PROVE References'
  <2>1. /\ HeldIn(w) = None /\ HeldOut(w) = None /\ HeldPtr(w) = None
        /\ HeldIn(w') = None /\ HeldOut(w') = None /\ HeldPtr(w') = None
    BY <1>0, <1>5 DEF HeldIn, HeldOut, HeldPtr, InputHeld, OutputHeld
  <2>2. w'.ret.entry = w.ret.entry /\ w.ret.entry = None
    BY <1>0, <1>5 DEF WorkerOK, CallOK, Returned, NoLease
  <2>3. ASSUME NEW f \in Entries
        PROVE  Count(w', backbuf', gui', f)
                 = Count(w, backbuf, gui, f) - One(None, f) + One(None, f)
    BY <1>1, <2>1, <2>2, EntriesAssumption DEF Count, One
  <2>. QED BY <1>0, <1>1, <1>3, <2>3, ReferencesStep DEF Keeps, Live
<1>. QED BY <1>0, <1>8, <1>9 DEF Inv

\* The line is published and is what the run was to render.
LEMMA CheckSwapStep ==
    ASSUME Inv, fault = None, Check, Exists(w.ptr) /\ Published(w.ptr) /\ w.target = Modules
    PROVE  Inv'
<1>0. /\ Content /\ References /\ TableOK(lines) /\ HintOK(hint)
      /\ WorkerOK(w, lines, shutdown, reused) /\ WorkerType(w) /\ w.pc = "check"
      /\ BackbufOK(backbuf, w, lines) /\ GuiOK(gui, lines)
  BY DEF Inv, Content, WorkerOK, Check, At
<1>1. UNCHANGED <<lines, hint, shutdown, backbuf, gui, runs, flushes, over, reused>>
  BY DEF Check, Only
<1>2. /\ Keeps(lines, lines') /\ Moves(lines, lines', None, None) /\ Unheld(lines, lines')
      /\ DOMAIN lines' = DOMAIN lines /\ NoLoss(lines, lines')
  BY <1>0, <1>1, KeepsSame
<1>3. /\ WorkerOK(w, lines', shutdown, reused) /\ TableOK(lines')
      /\ BackbufOK(backbuf, w, lines') /\ GuiOK(gui, lines')
  BY <1>0, <1>2, KeepWorker, KeepOthers DEF Keeps, Writing
<1>4. fault' \in Places \cup {None}
  BY DEF Check, Touch, TouchInput, Places
<1>5. /\ w'.pc = "swap" /\ w'.node = w.node /\ w'.history = w.history /\ w'.target = w.target
      /\ w'.in = w.in
      /\ w'.out = w.out /\ w'.ptr = w.ptr /\ w'.old = w.old /\ w'.ret = w.ret /\ w'.after = "idle"
  BY <1>0 DEF Check, WorkerType, Goto
<1>6. WorkerType(w')
  BY <1>0, PcsFacts DEF Check, WorkerType, Goto
<1>7. WorkerOK(w', lines', shutdown', reused')
  BY <1>0, <1>1, <1>3, <1>5, <1>6 DEF WorkerOK, CallOK, WriterOK, RekeyOK, InputOK, ShownOK,
     FinalOK, TrueOK, OutHash, hash,
     Writing, Shown, Returned, Swapping, Withdrawn, None
<1>8. Content'
  BY <1>0, <1>1, <1>3, <1>5, <1>7, <1>4 DEF Content, InputLive, BackbufOK
<1>9. ASSUME fault' = None PROVE References'
  <2>1. /\ HeldIn(w) = None /\ HeldOut(w) = None /\ HeldPtr(w) = None
        /\ HeldIn(w') = None /\ HeldOut(w') = None /\ HeldPtr(w') = None
    BY <1>0, <1>5 DEF HeldIn, HeldOut, HeldPtr, InputHeld, OutputHeld
  <2>2. w'.ret.entry = w.ret.entry /\ w.ret.entry = None
    BY <1>0, <1>5 DEF WorkerOK, CallOK, Returned, NoLease
  <2>3. ASSUME NEW f \in Entries
        PROVE  Count(w', backbuf', gui', f)
                 = Count(w, backbuf, gui, f) - One(None, f) + One(None, f)
    BY <1>1, <2>1, <2>2, EntriesAssumption DEF Count, One
  <2>. QED BY <1>0, <1>1, <1>2, <2>3, ReferencesStep DEF Keeps, Live
<1>. QED BY <1>0, <1>8, <1>9 DEF Inv

\* The same for the output of a module.
LEMMA CheckDoneStep ==
    ASSUME Inv, fault = None, Check, Exists(w.ptr) /\ Published(w.ptr) /\ w.target # Modules
    PROVE  Inv'
<1>0. /\ Content /\ References /\ TableOK(lines) /\ HintOK(hint)
      /\ WorkerOK(w, lines, shutdown, reused) /\ WorkerType(w) /\ w.pc = "check"
      /\ BackbufOK(backbuf, w, lines) /\ GuiOK(gui, lines)
  BY DEF Inv, Content, WorkerOK, Check, At
<1>1. UNCHANGED <<lines, hint, shutdown, backbuf, gui, runs, flushes, over, reused>>
  BY DEF Check, Only
<1>2. /\ Keeps(lines, lines') /\ Moves(lines, lines', None, None) /\ Unheld(lines, lines')
      /\ DOMAIN lines' = DOMAIN lines /\ NoLoss(lines, lines')
  BY <1>0, <1>1, KeepsSame
<1>3. /\ WorkerOK(w, lines', shutdown, reused) /\ TableOK(lines')
      /\ BackbufOK(backbuf, w, lines') /\ GuiOK(gui, lines')
  BY <1>0, <1>2, KeepWorker, KeepOthers DEF Keeps, Writing
<1>4. fault' \in Places \cup {None}
  BY DEF Check, Touch, TouchInput, Places
<1>5. w' = Idle
  BY <1>0 DEF Check
<1>6. /\ w'.pc = "idle" /\ w'.node = 1 /\ w'.history = NoHash /\ w'.target = 1 /\ w'.in = None
      /\ w'.out = None /\ w'.ptr = None /\ w'.old = None /\ w'.ret = NoLease /\ w'.after = None
  BY <1>5, IdleFacts
<1>7. WorkerType(w')
  BY <1>5, IdleFacts
<1>8. WorkerOK(w', lines', shutdown', reused')
  BY <1>0, <1>1, <1>3, <1>6, <1>7 DEF WorkerOK, CallOK, WriterOK, RekeyOK, InputOK, ShownOK,
     FinalOK, TrueOK, OutHash, hash,
     Writing, Shown, Returned, Swapping, Withdrawn, NoLease
<1>9. Content'
  BY <1>0, <1>1, <1>3, <1>6, <1>8, <1>4 DEF Content, InputLive, BackbufOK
<1>10. ASSUME fault' = None PROVE References'
  <2>1. /\ HeldIn(w) = None /\ HeldOut(w) = None /\ HeldPtr(w) = None
        /\ HeldIn(w') = None /\ HeldOut(w') = None /\ HeldPtr(w') = None
    BY <1>0, <1>6 DEF HeldIn, HeldOut, HeldPtr, InputHeld, OutputHeld
  <2>2. w'.ret.entry = None /\ w.ret.entry = None
    BY <1>0, <1>6 DEF WorkerOK, CallOK, Returned, NoLease
  <2>3. ASSUME NEW f \in Entries
        PROVE  Count(w', backbuf', gui', f)
                 = Count(w, backbuf, gui, f) - One(None, f) + One(None, f)
    BY <1>1, <2>1, <2>2, EntriesAssumption DEF Count, One
  <2>. QED BY <1>0, <1>1, <1>2, <2>3, ReferencesStep DEF Keeps, Live
<1>. QED BY <1>0, <1>9, <1>10 DEF Inv

\* The line is not published.
LEMMA CheckMissStep ==
    ASSUME Inv, fault = None, Check, ~(Exists(w.ptr) /\ Published(w.ptr))
    PROVE  Inv'
<1>0. /\ Content /\ References /\ TableOK(lines) /\ HintOK(hint)
      /\ WorkerOK(w, lines, shutdown, reused) /\ WorkerType(w) /\ w.pc = "check"
      /\ BackbufOK(backbuf, w, lines) /\ GuiOK(gui, lines)
  BY DEF Inv, Content, WorkerOK, Check, At
<1>1. UNCHANGED <<lines, hint, shutdown, backbuf, gui, runs, flushes, over, reused>>
  BY DEF Check, Only
<1>2. /\ Keeps(lines, lines') /\ Moves(lines, lines', None, None) /\ Unheld(lines, lines')
      /\ DOMAIN lines' = DOMAIN lines /\ NoLoss(lines, lines')
  BY <1>0, <1>1, KeepsSame
<1>3. /\ WorkerOK(w, lines', shutdown, reused) /\ TableOK(lines')
      /\ BackbufOK(backbuf, w, lines') /\ GuiOK(gui, lines')
  BY <1>0, <1>2, KeepWorker, KeepOthers DEF Keeps, Writing
<1>4. fault' \in Places \cup {None}
  BY DEF Check, Touch, TouchInput, Places
<1>5. /\ w'.pc = "enter" /\ w'.node = w.node /\ w'.history = w.history /\ w'.target = w.target
      /\ w'.in = w.in
      /\ w'.out = w.out /\ w'.ptr = None /\ w'.old = w.old /\ w'.ret = w.ret /\ w'.after = w.after
  BY <1>0 DEF Check, WorkerType, EntryOrNone
<1>6. WorkerType(w')
  BY <1>0, PcsFacts DEF Check, WorkerType, EntryOrNone
<1>7. WorkerOK(w', lines', shutdown', reused')
  BY <1>0, <1>1, <1>3, <1>5, <1>6 DEF WorkerOK, CallOK, WriterOK, RekeyOK, InputOK, ShownOK,
     FinalOK, TrueOK, OutHash, hash,
     Writing, Shown, Returned, Swapping, Withdrawn
<1>8. Content'
  BY <1>0, <1>1, <1>3, <1>5, <1>7, <1>4 DEF Content, InputLive, BackbufOK
<1>9. ASSUME fault' = None PROVE References'
  <2>1. /\ HeldIn(w) = None /\ HeldOut(w) = None /\ HeldPtr(w) = None
        /\ HeldIn(w') = None /\ HeldOut(w') = None /\ HeldPtr(w') = None
    BY <1>0, <1>5 DEF HeldIn, HeldOut, HeldPtr, InputHeld, OutputHeld
  <2>2. w'.ret.entry = w.ret.entry /\ w.ret.entry = None
    BY <1>0, <1>5 DEF WorkerOK, CallOK, Returned, NoLease
  <2>3. ASSUME NEW f \in Entries
        PROVE  Count(w', backbuf', gui', f)
                 = Count(w, backbuf, gui, f) - One(None, f) + One(None, f)
    BY <1>1, <2>1, <2>2, EntriesAssumption DEF Count, One
  <2>. QED BY <1>0, <1>1, <1>2, <2>3, ReferencesStep DEF Keeps, Live
<1>. QED BY <1>0, <1>8, <1>9 DEF Inv

\* The switch on the way down.
LEMMA EnterAbortedStep ==
    ASSUME Inv, fault = None, EnterAborted
    PROVE  Inv'
<1>0. /\ Content /\ References /\ TableOK(lines) /\ HintOK(hint)
      /\ WorkerOK(w, lines, shutdown, reused) /\ WorkerType(w) /\ w.pc = "enter"
      /\ BackbufOK(backbuf, w, lines) /\ GuiOK(gui, lines)
  BY DEF Inv, Content, WorkerOK, EnterAborted, At
<1>1. UNCHANGED <<lines, hint, fault, shutdown, backbuf, gui, runs, flushes, over, reused>>
  BY DEF EnterAborted, Only
<1>2. NoLease \in Leases /\ None \in EntryOrNone
  BY NoLeaseFacts DEF EntryOrNone
<1>3. /\ Keeps(lines, lines') /\ Moves(lines, lines', None, None) /\ Unheld(lines, lines')
      /\ DOMAIN lines' = DOMAIN lines /\ NoLoss(lines, lines')
  BY <1>0, <1>1, KeepsSame
<1>4. /\ WorkerOK(w, lines', shutdown, reused) /\ TableOK(lines')
      /\ BackbufOK(backbuf, w, lines') /\ GuiOK(gui, lines')
  BY <1>0, <1>3, KeepWorker, KeepOthers DEF Keeps, Writing
<1>5. /\ w'.pc = "finish" /\ w'.node = w.node /\ w'.history = w.history /\ w'.target = w.target
      /\ w'.in = None
      /\ w'.out = None /\ w'.ptr = None /\ w'.old = w.old /\ w'.ret = NoLease /\ w'.after = w.after
  BY <1>0, <1>2 DEF EnterAborted, WorkerType, ReturnError
<1>6. WorkerType(w')
  BY <1>0, <1>2, PcsFacts DEF EnterAborted, WorkerType, ReturnError
<1>7. WorkerOK(w', lines', shutdown', reused')
  BY <1>0, <1>1, <1>4, <1>5, <1>6 DEF WorkerOK, CallOK, WriterOK, RekeyOK, InputOK, ShownOK,
     FinalOK, TrueOK, OutHash, hash,
     Writing, Shown, Returned, Swapping, Withdrawn, NoLease
<1>8. Content'
  BY <1>0, <1>1, <1>4, <1>5, <1>7 DEF Content, InputLive, BackbufOK
<1>9. ASSUME fault' = None PROVE References'
  <2>1. /\ HeldIn(w) = None /\ HeldOut(w) = None /\ HeldPtr(w) = None
        /\ HeldIn(w') = None /\ HeldOut(w') = None /\ HeldPtr(w') = None
    BY <1>0, <1>5 DEF HeldIn, HeldOut, HeldPtr, InputHeld, OutputHeld
  <2>2. w'.ret.entry = None /\ w.ret.entry = None
    BY <1>0, <1>5 DEF WorkerOK, CallOK, Returned, NoLease
  <2>3. ASSUME NEW f \in Entries
        PROVE  Count(w', backbuf', gui', f)
                 = Count(w, backbuf, gui, f) - One(None, f) + One(None, f)
    BY <1>1, <2>1, <2>2, EntriesAssumption DEF Count, One
  <2>. QED BY <1>0, <1>1, <1>3, <2>3, ReferencesStep DEF Keeps, Live
<1>. QED BY <1>0, <1>8, <1>9 DEF Inv

\* The output is cached: its reference is taken for the caller.
LEMMA EnterHitStep ==
    ASSUME Inv, fault = None, NEW e \in Entries, EnterHit(e)
    PROVE  Inv'
<1>0. /\ Content /\ References /\ TableOK(lines) /\ HintOK(hint)
      /\ WorkerOK(w, lines, shutdown, reused) /\ WorkerType(w) /\ w.pc = "enter"
      /\ BackbufOK(backbuf, w, lines) /\ GuiOK(gui, lines)
  BY DEF Inv, Content, WorkerOK, EnterHit, At
<1>1. UNCHANGED <<hint, fault, shutdown, backbuf, gui, runs, flushes, over, reused>>
  BY DEF EnterHit, Only
<1>2. OutHash(w) \in Hashes /\ hash = OutHash(w)
  BY <1>0, HashOK DEF WorkerOK, hash, OutHash
<1>3. e \in Live /\ lines[e].hash = hash /\ ~lines[e].auto_destroy
  BY DEF EnterHit, DirectHit, Found
<1>4. ~reused => \A f \in Live : lines[f].hash = hash => lines[f].pixels = hash
  BY <1>0, <1>3 DEF WorkerOK, TrueOK, WriterOK, TableOK, Live, Writing, Withdrawn
<1>5. lines' = RefCount(lines, e, 1)
  BY DEF EnterHit
<1>6. /\ Keeps(lines, lines') /\ Moves(lines, lines', None, e) /\ Unheld(lines, lines')
      /\ DOMAIN lines' = DOMAIN lines /\ NoLoss(lines, lines')
  BY <1>0, <1>5, RefCountUp
<1>7. /\ WorkerOK(w, lines', shutdown, reused) /\ TableOK(lines')
      /\ BackbufOK(backbuf, w, lines') /\ GuiOK(gui, lines')
  BY <1>0, <1>6, KeepWorker, KeepOthers DEF Keeps, Writing
<1>8. /\ w'.pc = "return" /\ w'.node = w.node /\ w'.history = w.history /\ w'.target = w.target
      /\ w'.in = w.in
      /\ w'.out = w.out /\ w'.ptr = w.ptr /\ w'.old = w.old /\ w'.ret = [hash |-> hash, entry |-> e]
      /\ w'.after = w.after
  BY <1>0, <1>2 DEF EnterHit, WorkerType, Leases, EntryOrNone
<1>9. WorkerType(w')
  BY <1>0, <1>2, PcsFacts DEF EnterHit, WorkerType, Leases, EntryOrNone
<1>10. WorkerOK(w', lines', shutdown', reused')
  BY <1>0, <1>1, <1>7, <1>8, <1>9, <1>3, <1>4, <1>6 DEF WorkerOK, CallOK, WriterOK, RekeyOK,
     InputOK, ShownOK, FinalOK, TrueOK, OutHash, hash,
     Writing, Shown, Returned, Swapping, Withdrawn, Keeps, Live
<1>11. Content'
  BY <1>0, <1>1, <1>7, <1>8, <1>10 DEF Content, InputLive, BackbufOK
<1>12. ASSUME fault' = None PROVE References'
  <2>1. /\ HeldIn(w) = None /\ HeldOut(w) = None /\ HeldPtr(w) = None
        /\ HeldIn(w') = None /\ HeldOut(w') = None /\ HeldPtr(w') = None
    BY <1>0, <1>8 DEF HeldIn, HeldOut, HeldPtr, InputHeld, OutputHeld
  <2>2. w'.ret.entry = e /\ w.ret.entry = None
    BY <1>0, <1>8 DEF WorkerOK, CallOK, Returned, NoLease
  <2>3. ASSUME NEW f \in Entries
        PROVE  Count(w', backbuf', gui', f) = Count(w, backbuf, gui, f) - One(None, f) + One(e, f)
    BY <1>1, <2>1, <2>2, EntriesAssumption DEF Count, One
  <2>4. e \in Live' \cup {None}
    BY <1>3, <1>6 DEF Live
  <2>. QED BY <1>0, <1>1, <1>6, <2>3, <2>4, ReferencesStep DEF Keeps, Live
<1>. QED BY <1>0, <1>11, <1>12 DEF Inv

\* The first module has no input.
LEMMA EnterFirstStep ==
    ASSUME Inv, fault = None, EnterMiss, w.node = 1
    PROVE  Inv'
<1>0. /\ Content /\ References /\ TableOK(lines) /\ HintOK(hint)
      /\ WorkerOK(w, lines, shutdown, reused) /\ WorkerType(w) /\ w.pc = "enter"
      /\ BackbufOK(backbuf, w, lines) /\ GuiOK(gui, lines)
  BY DEF Inv, Content, WorkerOK, EnterMiss, At
<1>1. UNCHANGED <<lines, hint, fault, shutdown, backbuf, gui, runs, flushes, over, reused>>
  BY DEF EnterMiss, Only
<1>2. None \notin Live /\ w.in = None
  BY <1>0, EntriesAssumption DEF TableOK, WorkerOK, CallOK, Live
<1>3. /\ Keeps(lines, lines') /\ Moves(lines, lines', None, None) /\ Unheld(lines, lines')
      /\ DOMAIN lines' = DOMAIN lines /\ NoLoss(lines, lines')
  BY <1>0, <1>1, KeepsSame
<1>4. /\ WorkerOK(w, lines', shutdown, reused) /\ TableOK(lines')
      /\ BackbufOK(backbuf, w, lines') /\ GuiOK(gui, lines')
  BY <1>0, <1>3, KeepWorker, KeepOthers DEF Keeps, Writing
<1>5. /\ w'.pc = "acquire" /\ w'.node = w.node /\ w'.history = w.history /\ w'.target = w.target
      /\ w'.in = w.in
      /\ w'.out = w.out /\ w'.ptr = w.ptr /\ w'.old = w.old /\ w'.ret = w.ret /\ w'.after = w.after
  BY <1>0 DEF EnterMiss, WorkerType, Goto
<1>6. WorkerType(w')
  BY <1>0, PcsFacts DEF EnterMiss, WorkerType, Goto
<1>7. WorkerOK(w', lines', shutdown', reused')
  BY <1>0, <1>1, <1>4, <1>5, <1>6, <1>2 DEF WorkerOK, CallOK, WriterOK, RekeyOK, InputOK, ShownOK,
     FinalOK, TrueOK, OutHash, hash,
     Writing, Shown, Returned, Swapping, Withdrawn, Live
<1>8. Content'
  BY <1>0, <1>1, <1>4, <1>5, <1>7 DEF Content, InputLive, BackbufOK
<1>9. ASSUME fault' = None PROVE References'
  <2>1. /\ HeldIn(w) = None /\ HeldOut(w) = None /\ HeldPtr(w) = None
        /\ HeldIn(w') = w.in /\ HeldOut(w') = None /\ HeldPtr(w') = None
    BY <1>0, <1>5 DEF HeldIn, HeldOut, HeldPtr, InputHeld, OutputHeld
  <2>2. w'.ret.entry = w.ret.entry /\ w.ret.entry = None /\ w.in = None
    BY <1>0, <1>5 DEF WorkerOK, CallOK, Returned, NoLease
  <2>3. ASSUME NEW f \in Entries
        PROVE  Count(w', backbuf', gui', f)
                 = Count(w, backbuf, gui, f) - One(None, f) + One(None, f)
    BY <1>1, <2>1, <2>2, EntriesAssumption DEF Count, One
  <2>. QED BY <1>0, <1>1, <1>3, <2>3, ReferencesStep DEF Keeps, Live
<1>. QED BY <1>0, <1>8, <1>9 DEF Inv

\* The recursion descends.
LEMMA EnterDownStep ==
    ASSUME Inv, fault = None, EnterMiss, w.node # 1
    PROVE  Inv'
<1>0. /\ Content /\ References /\ TableOK(lines) /\ HintOK(hint)
      /\ WorkerOK(w, lines, shutdown, reused) /\ WorkerType(w) /\ w.pc = "enter"
      /\ BackbufOK(backbuf, w, lines) /\ GuiOK(gui, lines)
  BY DEF Inv, Content, WorkerOK, EnterMiss, At
<1>1. UNCHANGED <<lines, hint, fault, shutdown, backbuf, gui, runs, flushes, over, reused>>
  BY DEF EnterMiss, Only
<1>2. w.node - 1 \in 1..Modules /\ w.node - 1 <= w.target
  BY <1>0, ModulesAssumption DEF WorkerType, WorkerOK, CallOK
<1>3. /\ Keeps(lines, lines') /\ Moves(lines, lines', None, None) /\ Unheld(lines, lines')
      /\ DOMAIN lines' = DOMAIN lines /\ NoLoss(lines, lines')
  BY <1>0, <1>1, KeepsSame
<1>4. /\ WorkerOK(w, lines', shutdown, reused) /\ TableOK(lines')
      /\ BackbufOK(backbuf, w, lines') /\ GuiOK(gui, lines')
  BY <1>0, <1>3, KeepWorker, KeepOthers DEF Keeps, Writing
<1>5. /\ w'.pc = "enter" /\ w'.node = w.node - 1 /\ w'.history = w.history /\ w'.target = w.target
      /\ w'.in = w.in
      /\ w'.out = w.out /\ w'.ptr = w.ptr /\ w'.old = w.old /\ w'.ret = w.ret /\ w'.after = w.after
  BY <1>0, <1>2 DEF EnterMiss, WorkerType, Goto
<1>6. WorkerType(w')
  BY <1>0, <1>2, PcsFacts DEF EnterMiss, WorkerType, Goto
<1>7. WorkerOK(w', lines', shutdown', reused')
  BY <1>0, <1>1, <1>4, <1>5, <1>6, <1>2 DEF WorkerOK, CallOK, WriterOK, RekeyOK, InputOK, ShownOK,
     FinalOK, TrueOK, OutHash, hash,
     Writing, Shown, Returned, Swapping, Withdrawn
<1>8. Content'
  BY <1>0, <1>1, <1>4, <1>5, <1>7 DEF Content, InputLive, BackbufOK
<1>9. ASSUME fault' = None PROVE References'
  <2>1. /\ HeldIn(w) = None /\ HeldOut(w) = None /\ HeldPtr(w) = None
        /\ HeldIn(w') = None /\ HeldOut(w') = None /\ HeldPtr(w') = None
    BY <1>0, <1>5 DEF HeldIn, HeldOut, HeldPtr, InputHeld, OutputHeld
  <2>2. w'.ret.entry = w.ret.entry /\ w.ret.entry = None
    BY <1>0, <1>5 DEF WorkerOK, CallOK, Returned, NoLease
  <2>3. ASSUME NEW f \in Entries
        PROVE  Count(w', backbuf', gui', f)
                 = Count(w, backbuf, gui, f) - One(None, f) + One(None, f)
    BY <1>1, <2>1, <2>2, EntriesAssumption DEF Count, One
  <2>. QED BY <1>0, <1>1, <1>3, <2>3, ReferencesStep DEF Keeps, Live
<1>. QED BY <1>0, <1>8, <1>9 DEF Inv

----------------------------------------------------------------------------
(* The worker on the way up: its input and its output *)

\* The switch between a module and its child forgets the returned reference.
LEMMA ReturnAbortedStep ==
    ASSUME Inv, fault = None, ReturnAborted
    PROVE  Inv'
<1>0. /\ Content /\ References /\ TableOK(lines) /\ HintOK(hint)
      /\ WorkerOK(w, lines, shutdown, reused) /\ WorkerType(w) /\ w.pc = "return"
      /\ BackbufOK(backbuf, w, lines) /\ GuiOK(gui, lines)
  BY DEF Inv, Content, WorkerOK, ReturnAborted, At
<1>1. UNCHANGED <<hint, fault, shutdown, backbuf, gui, runs, flushes, over, reused>>
  BY DEF ReturnAborted, Only
<1>2. NoLease \in Leases /\ None \in EntryOrNone
  BY NoLeaseFacts DEF EntryOrNone
<1>3. lines' = Drifts(lines, w.ret.entry, 1)
  BY DEF ReturnAborted
<1>4. /\ Keeps(lines, lines') /\ Moves(lines, lines', w.ret.entry, None) /\ Unheld(lines, lines')
      /\ DOMAIN lines' = DOMAIN lines /\ NoLoss(lines, lines')
  BY <1>0, <1>3, DriftsUp
<1>5. /\ WorkerOK(w, lines', shutdown, reused) /\ TableOK(lines')
      /\ BackbufOK(backbuf, w, lines') /\ GuiOK(gui, lines')
  BY <1>0, <1>4, KeepWorker, KeepOthers DEF Keeps, Writing
<1>6. /\ w'.pc = "finish" /\ w'.node = w.node /\ w'.history = w.history /\ w'.target = w.target
      /\ w'.in = None
      /\ w'.out = None /\ w'.ptr = None /\ w'.old = w.old /\ w'.ret = NoLease /\ w'.after = w.after
  BY <1>0, <1>2 DEF ReturnAborted, WorkerType, ReturnError
<1>7. WorkerType(w')
  BY <1>0, <1>2, PcsFacts DEF ReturnAborted, WorkerType, ReturnError
<1>8. WorkerOK(w', lines', shutdown', reused')
  BY <1>0, <1>1, <1>5, <1>6, <1>7 DEF WorkerOK, CallOK, WriterOK, RekeyOK, InputOK, ShownOK,
     FinalOK, TrueOK, OutHash, hash,
     Writing, Shown, Returned, Swapping, Withdrawn, NoLease
<1>9. Content'
  BY <1>0, <1>1, <1>5, <1>6, <1>8 DEF Content, InputLive, BackbufOK
<1>10. ASSUME fault' = None PROVE References'
  <2>1. /\ HeldIn(w) = None /\ HeldOut(w) = None /\ HeldPtr(w) = None
        /\ HeldIn(w') = None /\ HeldOut(w') = None /\ HeldPtr(w') = None
    BY <1>0, <1>6 DEF HeldIn, HeldOut, HeldPtr, InputHeld, OutputHeld
  <2>2. w'.ret.entry = None
    BY <1>0, <1>6 DEF WorkerOK, CallOK, Returned, NoLease
  <2>3. ASSUME NEW f \in Entries
        PROVE  Count(w', backbuf', gui', f)
                 = Count(w, backbuf, gui, f) - One(w.ret.entry, f) + One(None, f)
    BY <1>1, <2>1, <2>2, EntriesAssumption DEF Count, One
  <2>. QED BY <1>0, <1>1, <1>4, <2>3, ReferencesStep DEF Keeps, Live
<1>. QED BY <1>0, <1>9, <1>10 DEF Inv

\* The child's output has gone.
LEMMA ReopenMissingStep ==
    ASSUME Inv, fault = None, ReopenInput, Found(w.ret.hash) = {}
    PROVE  Inv'
<1>0. /\ Content /\ References /\ TableOK(lines) /\ HintOK(hint)
      /\ WorkerOK(w, lines, shutdown, reused) /\ WorkerType(w) /\ w.pc = "return"
      /\ BackbufOK(backbuf, w, lines) /\ GuiOK(gui, lines)
  BY DEF Inv, Content, WorkerOK, ReopenInput, At
<1>1. UNCHANGED <<hint, fault, shutdown, backbuf, gui, runs, flushes, reused>>
  BY DEF ReopenInput, Only
<1>2. NoLease \in Leases /\ None \in EntryOrNone
  BY NoLeaseFacts DEF EntryOrNone
<1>3. FoundOrNone(w.ret.hash) = None
  BY <1>0, FoundFacts
<1>4. lines' = Reattributed(lines, w.ret) /\ Stray(w.ret)
  BY DEF ReopenInput
<1>5. None = FoundOrNone(w.ret.hash) /\ w.ret.entry \in EntryOrNone
  BY <1>0, <1>3 DEF WorkerType, Leases, BackbufOK, GuiOK
<1>6. /\ Keeps(lines, lines') /\ Moves(lines, lines', w.ret.entry, None) /\ Unheld(lines, lines')
      /\ DOMAIN lines' = DOMAIN lines
      /\ None \in {w.ret.entry, None} => NoLoss(lines, lines')
  BY <1>0, <1>4, <1>5, ReattributedMoves DEF Live
<1>7. over' \in BOOLEAN /\ (over => over') /\ (over' \/ NoLoss(lines, lines'))
  BY <1>0, <1>4, <1>5, <1>6 DEF Stray, Content
<1>8. /\ WorkerOK(w, lines', shutdown, reused) /\ TableOK(lines')
      /\ BackbufOK(backbuf, w, lines') /\ GuiOK(gui, lines')
  BY <1>0, <1>6, KeepWorker, KeepOthers DEF Keeps, Writing
<1>9. /\ w'.pc = "finish" /\ w'.node = w.node /\ w'.history = w.history /\ w'.target = w.target
      /\ w'.in = None
      /\ w'.out = None /\ w'.ptr = None /\ w'.old = w.old /\ w'.ret = NoLease /\ w'.after = w.after
  BY <1>0, <1>2 DEF ReopenInput, WorkerType, ReturnError
<1>10. WorkerType(w')
  BY <1>0, <1>2, PcsFacts DEF ReopenInput, WorkerType, ReturnError
<1>11. WorkerOK(w', lines', shutdown', reused')
  BY <1>0, <1>1, <1>8, <1>9, <1>10 DEF WorkerOK, CallOK, WriterOK, RekeyOK, InputOK, ShownOK,
     FinalOK, TrueOK, OutHash, hash,
     Writing, Shown, Returned, Swapping, Withdrawn, NoLease
<1>12. Content'
  BY <1>0, <1>1, <1>8, <1>9, <1>11, <1>7 DEF Content, InputLive, BackbufOK
<1>13. ASSUME fault' = None PROVE References'
  <2>1. /\ HeldIn(w) = None /\ HeldOut(w) = None /\ HeldPtr(w) = None
        /\ HeldIn(w') = None /\ HeldOut(w') = None /\ HeldPtr(w') = None
    BY <1>0, <1>9 DEF HeldIn, HeldOut, HeldPtr, InputHeld, OutputHeld
  <2>2. w'.ret.entry = None
    BY <1>0, <1>9 DEF WorkerOK, CallOK, Returned, NoLease
  <2>3. ASSUME NEW f \in Entries
        PROVE  Count(w', backbuf', gui', f)
                 = Count(w, backbuf, gui, f) - One(w.ret.entry, f) + One(None, f)
    BY <1>1, <2>1, <2>2, EntriesAssumption DEF Count, One
  <2>. QED BY <1>0, <1>1, <1>6, <2>3, <1>7, ReferencesStep DEF Keeps, Live
<1>. QED BY <1>0, <1>12, <1>13 DEF Inv

\* The child's output becomes the input of its parent.
LEMMA ReopenInputStep ==
    ASSUME Inv, fault = None, ReopenInput, Found(w.ret.hash) # {}
    PROVE  Inv'
<1>0. /\ Content /\ References /\ TableOK(lines) /\ HintOK(hint)
      /\ WorkerOK(w, lines, shutdown, reused) /\ WorkerType(w) /\ w.pc = "return"
      /\ BackbufOK(backbuf, w, lines) /\ GuiOK(gui, lines)
  BY DEF Inv, Content, WorkerOK, ReopenInput, At
<1>1. UNCHANGED <<hint, fault, shutdown, backbuf, gui, runs, flushes, reused>>
  BY DEF ReopenInput, Only
<1>2. NoLease \in Leases /\ None \in EntryOrNone
  BY NoLeaseFacts DEF EntryOrNone
<1>3. /\ FoundOrNone(w.ret.hash) \in Live /\ FoundOrNone(w.ret.hash) \in EntryOrNone
      /\ lines[FoundOrNone(w.ret.hash)].hash = w.ret.hash
  BY <1>0, FoundFacts
<1>4. w.node \in Nat /\ w.node + 1 \in 1..Modules /\ w.node + 1 <= w.target /\ w.node + 1 - 1 = w.node /\ w.node + 1 > 1
  BY <1>0, ModulesAssumption DEF ReopenInput, WorkerType, WorkerOK, CallOK
<1>5. w.ret.hash = OutHash(w) /\ (~reused => \A f \in Live : lines[f].hash = OutHash(w) => lines[f].pixels = OutHash(w))
  BY <1>0 DEF WorkerOK, CallOK, ShownOK, Shown, Live
<1>6. lines' = Reattributed(lines, w.ret) /\ Stray(w.ret)
  BY DEF ReopenInput
<1>7. FoundOrNone(w.ret.hash) = FoundOrNone(w.ret.hash) /\ w.ret.entry \in EntryOrNone
  BY <1>0, <1>3 DEF WorkerType, Leases, BackbufOK, GuiOK
<1>8. /\ Keeps(lines, lines') /\ Moves(lines, lines', w.ret.entry, FoundOrNone(w.ret.hash))
      /\ Unheld(lines, lines')
      /\ DOMAIN lines' = DOMAIN lines
      /\ FoundOrNone(w.ret.hash) \in {w.ret.entry, None} => NoLoss(lines, lines')
  BY <1>0, <1>6, <1>7, ReattributedMoves DEF Live
<1>9. over' \in BOOLEAN /\ (over => over') /\ (over' \/ NoLoss(lines, lines'))
  BY <1>0, <1>6, <1>7, <1>8 DEF Stray, Content
<1>10. /\ WorkerOK(w, lines', shutdown, reused) /\ TableOK(lines')
       /\ BackbufOK(backbuf, w, lines') /\ GuiOK(gui, lines')
  BY <1>0, <1>8, KeepWorker, KeepOthers DEF Keeps, Writing
<1>11. WorkerType(w) /\ w' = [w EXCEPT !.pc = "acquire", !.node = @ + 1, !.ret = NoLease,
                        !.in = FoundOrNone(w.ret.hash)]
  BY <1>0 DEF ReopenInput, EntryOrNone
<1>12. /\ w'.pc = "acquire" /\ w'.node = w.node + 1 /\ w'.history = w.history
       /\ w'.target = w.target /\ w'.in = FoundOrNone(w.ret.hash)
       /\ w'.out = w.out /\ w'.ptr = w.ptr /\ w'.old = w.old /\ w'.ret = NoLease
       /\ w'.after = w.after
  BY <1>0, <1>11 DEF WorkerType
<1>13. WorkerType(w')
  BY <1>11, <1>2, <1>3, <1>4, PcsFacts DEF WorkerType
<1>14. w'.node - 1 = w.node /\ w'.node > 1 /\ w'.history = w.history
  BY <1>4, <1>12
<1>15. /\ w'.in \in Live /\ lines[w'.in].hash = Hash(w.history, w.node)
       /\ ~reused => lines[w'.in].pixels = lines[w'.in].hash
  BY <1>3, <1>5, <1>12 DEF OutHash
<1>16. Hash(w'.history, w'.node - 1) = Hash(w.history, w.node)
  BY <1>14, Zenon
<1>17. /\ lines'[w'.in].hash = Hash(w.history, w.node)
       /\ ~reused => lines'[w'.in].pixels = lines'[w'.in].hash
  BY <1>15, <1>8 DEF Keeps, Live
<1>18. /\ lines'[w'.in].hash = Hash(w'.history, w'.node - 1)
       /\ ~reused => lines'[w'.in].pixels = lines'[w'.in].hash
  BY <1>16, <1>17, Zenon
<1>19. CallOK(w')
  BY <1>0, <1>1, <1>10, <1>12, <1>13, <1>4, <1>14, <1>15, <1>18 DEF WorkerOK, CallOK, Returned,
     Swapping, OutHash, hash, NoLease, Live
<1>20. WriterOK(w', lines')
  BY <1>0, <1>1, <1>10, <1>12, <1>13, <1>4, <1>14, <1>15, <1>18 DEF WorkerOK, WriterOK, Writing,
     OutHash, hash, Live
<1>21. RekeyOK(w', lines')
  BY <1>0, <1>1, <1>10, <1>12, <1>13, <1>4, <1>14, <1>15, <1>18 DEF WorkerOK, RekeyOK, OutHash,
     hash, Live
<1>22. InputOK(w', lines', reused')
  BY <1>0, <1>1, <1>10, <1>12, <1>13, <1>4, <1>14, <1>15, <1>18 DEF WorkerOK, InputOK, OutHash, Live
<1>23. ShownOK(w', lines', shutdown', reused')
  BY <1>0, <1>1, <1>10, <1>12, <1>13, <1>4, <1>14, <1>15, <1>18 DEF WorkerOK, ShownOK, Shown,
     OutHash, hash, Live
<1>24. FinalOK(w', lines')
  BY <1>0, <1>1, <1>10, <1>12, <1>13, <1>4, <1>14, <1>15, <1>18 DEF WorkerOK, FinalOK, Swapping,
     OutHash, Live
<1>25. TrueOK(w', lines', shutdown', reused')
  BY <1>0, <1>1, <1>10, <1>12, <1>13, <1>4, <1>14, <1>15, <1>18 DEF WorkerOK, TrueOK, Withdrawn,
     Live
<1>26. WorkerOK(w', lines', shutdown', reused')
  BY <1>13, <1>19, <1>20, <1>21, <1>22, <1>23, <1>24, <1>25 DEF WorkerOK
<1>27. Content'
  BY <1>0, <1>1, <1>10, <1>12, <1>26, <1>9 DEF Content, InputLive, BackbufOK
<1>28. ASSUME fault' = None PROVE References'
  <2>1. /\ HeldIn(w) = None /\ HeldOut(w) = None /\ HeldPtr(w) = None
        /\ HeldIn(w') = FoundOrNone(w.ret.hash) /\ HeldOut(w') = None /\ HeldPtr(w') = None
    BY <1>0, <1>12 DEF HeldIn, HeldOut, HeldPtr, InputHeld, OutputHeld
  <2>2. w'.ret.entry = None
    BY <1>0, <1>12 DEF WorkerOK, CallOK, Returned, NoLease
  <2>3. ASSUME NEW f \in Entries
        PROVE  Count(w', backbuf', gui', f)
                 = Count(w, backbuf, gui, f) - One(w.ret.entry, f) + One(FoundOrNone(w.ret.hash), f)
    BY <1>1, <2>1, <2>2, EntriesAssumption DEF Count, One
  <2>4. FoundOrNone(w.ret.hash) \in Live' \cup {None}
    BY <1>3, <1>8 DEF Live
  <2>. QED BY <1>0, <1>1, <1>8, <2>3, <2>4, <1>9, ReferencesStep DEF Keeps, Live
<1>. QED BY <1>0, <1>27, <1>28 DEF Inv

\* The recursion returns to its caller.
LEMMA ReturnToProcessStep ==
    ASSUME Inv, fault = None, ReturnToProcess
    PROVE  Inv'
<1>0. /\ Content /\ References /\ TableOK(lines) /\ HintOK(hint)
      /\ WorkerOK(w, lines, shutdown, reused) /\ WorkerType(w) /\ w.pc = "return"
      /\ BackbufOK(backbuf, w, lines) /\ GuiOK(gui, lines)
  BY DEF Inv, Content, WorkerOK, ReturnToProcess, At
<1>1. UNCHANGED <<lines, hint, fault, shutdown, backbuf, gui, runs, flushes, over, reused>>
  BY DEF ReturnToProcess, Only
<1>2. /\ Keeps(lines, lines') /\ Moves(lines, lines', None, None) /\ Unheld(lines, lines')
      /\ DOMAIN lines' = DOMAIN lines /\ NoLoss(lines, lines')
  BY <1>0, <1>1, KeepsSame
<1>3. /\ WorkerOK(w, lines', shutdown, reused) /\ TableOK(lines')
      /\ BackbufOK(backbuf, w, lines') /\ GuiOK(gui, lines')
  BY <1>0, <1>2, KeepWorker, KeepOthers DEF Keeps, Writing
<1>4. /\ w'.pc = "finish" /\ w'.node = w.node /\ w'.history = w.history /\ w'.target = w.target
      /\ w'.in = w.in
      /\ w'.out = w.out /\ w'.ptr = w.ptr /\ w'.old = w.old /\ w'.ret = w.ret /\ w'.after = w.after
  BY <1>0 DEF ReturnToProcess, WorkerType, Goto
<1>5. WorkerType(w')
  BY <1>0, PcsFacts DEF ReturnToProcess, WorkerType, Goto
<1>6. WorkerOK(w', lines', shutdown', reused')
  BY <1>0, <1>1, <1>3, <1>4, <1>5 DEF WorkerOK, CallOK, WriterOK, RekeyOK, InputOK, ShownOK,
     FinalOK, TrueOK, OutHash, hash,
     Writing, Shown, Returned, Swapping, Withdrawn
<1>7. Content'
  BY <1>0, <1>1, <1>3, <1>4, <1>6 DEF Content, InputLive, BackbufOK
<1>8. ASSUME fault' = None PROVE References'
  <2>1. /\ HeldIn(w) = None /\ HeldOut(w) = None /\ HeldPtr(w) = None
        /\ HeldIn(w') = None /\ HeldOut(w') = None /\ HeldPtr(w') = None
    BY <1>0, <1>4 DEF HeldIn, HeldOut, HeldPtr, InputHeld, OutputHeld
  <2>2. w'.ret.entry = w.ret.entry
    BY <1>0, <1>4 DEF WorkerOK, CallOK, Returned, NoLease
  <2>3. ASSUME NEW f \in Entries
        PROVE  Count(w', backbuf', gui', f)
                 = Count(w, backbuf, gui, f) - One(None, f) + One(None, f)
    BY <1>1, <2>1, <2>2, EntriesAssumption DEF Count, One
  <2>. QED BY <1>0, <1>1, <1>2, <2>3, ReferencesStep DEF Keeps, Live
<1>. QED BY <1>0, <1>7, <1>8 DEF Inv

\* The hash of the output is taken already.
LEMMA AcquireExactHitStep ==
    ASSUME Inv, fault = None, NEW e \in Entries, AcquireExactHit(e)
    PROVE  Inv'
<1>0. /\ Content /\ References /\ TableOK(lines) /\ HintOK(hint)
      /\ WorkerOK(w, lines, shutdown, reused) /\ WorkerType(w) /\ w.pc = "acquire"
      /\ BackbufOK(backbuf, w, lines) /\ GuiOK(gui, lines)
  BY DEF Inv, Content, WorkerOK, AcquireExactHit, At
<1>1. UNCHANGED <<lines, hint, fault, shutdown, backbuf, gui, runs, flushes, over>>
  BY DEF AcquireExactHit, Only
<1>2. reused' \in BOOLEAN /\ reused' = (reused \/ lines[e].auto_destroy)
  BY <1>0 DEF AcquireExactHit, Content, TableOK, LineRec, ExactHit, Found, Live
<1>3. e \in Live /\ lines[e].hash = hash
  BY DEF AcquireExactHit, ExactHit, Found
<1>4. ~reused' => \A f \in Live : lines[f].hash = hash => lines[f].pixels = hash
  BY <1>0, <1>2, <1>3 DEF WorkerOK, TrueOK, WriterOK, TableOK, Live, Writing, Withdrawn
<1>5. /\ Keeps(lines, lines') /\ Moves(lines, lines', None, None) /\ Unheld(lines, lines')
      /\ DOMAIN lines' = DOMAIN lines /\ NoLoss(lines, lines')
  BY <1>0, <1>1, KeepsSame
<1>6. /\ WorkerOK(w, lines', shutdown, reused) /\ TableOK(lines')
      /\ BackbufOK(backbuf, w, lines') /\ GuiOK(gui, lines')
  BY <1>0, <1>5, KeepWorker, KeepOthers DEF Keeps, Writing
<1>7. /\ w'.pc = "exact" /\ w'.node = w.node /\ w'.history = w.history /\ w'.target = w.target
      /\ w'.in = w.in
      /\ w'.out = w.out /\ w'.ptr = w.ptr /\ w'.old = w.old /\ w'.ret = w.ret /\ w'.after = w.after
  BY <1>0 DEF AcquireExactHit, WorkerType, Goto
<1>8. WorkerType(w')
  BY <1>0, PcsFacts DEF AcquireExactHit, WorkerType, Goto
<1>9. CallOK(w')
  BY <1>0, <1>1, <1>6, <1>7, <1>8, <1>2, <1>4, <1>5 DEF WorkerOK, CallOK, Returned, Swapping,
     OutHash, hash, NoLease, Keeps, Live
<1>10. WriterOK(w', lines')
  BY <1>0, <1>1, <1>6, <1>7, <1>8, <1>2, <1>4, <1>5 DEF WorkerOK, WriterOK, Writing, OutHash, hash,
     Keeps, Live
<1>11. RekeyOK(w', lines')
  BY <1>0, <1>1, <1>6, <1>7, <1>8, <1>2, <1>4, <1>5 DEF WorkerOK, RekeyOK, OutHash, hash, Keeps,
     Live
<1>12. InputOK(w', lines', reused')
  BY <1>0, <1>1, <1>6, <1>7, <1>8, <1>2, <1>4, <1>5 DEF WorkerOK, InputOK, OutHash, Keeps, Live
<1>13. ShownOK(w', lines', shutdown', reused')
  BY <1>0, <1>1, <1>6, <1>7, <1>8, <1>2, <1>4, <1>5 DEF WorkerOK, ShownOK, Shown, OutHash, hash,
     Keeps, Live
<1>14. FinalOK(w', lines')
  BY <1>0, <1>1, <1>6, <1>7, <1>8, <1>2, <1>4, <1>5 DEF WorkerOK, FinalOK, Swapping, OutHash,
     Keeps, Live
<1>15. TrueOK(w', lines', shutdown', reused')
  BY <1>0, <1>1, <1>6, <1>7, <1>8, <1>2, <1>4, <1>5 DEF WorkerOK, TrueOK, Withdrawn, Keeps, Live
<1>16. WorkerOK(w', lines', shutdown', reused')
  BY <1>8, <1>9, <1>10, <1>11, <1>12, <1>13, <1>14, <1>15 DEF WorkerOK
<1>17. Content'
  BY <1>0, <1>1, <1>6, <1>7, <1>16, <1>2 DEF Content, InputLive, BackbufOK
<1>18. ASSUME fault' = None PROVE References'
  <2>1. /\ HeldIn(w) = w.in /\ HeldOut(w) = None /\ HeldPtr(w) = None
        /\ HeldIn(w') = w.in /\ HeldOut(w') = None /\ HeldPtr(w') = None
    BY <1>0, <1>7 DEF HeldIn, HeldOut, HeldPtr, InputHeld, OutputHeld
  <2>2. w'.ret.entry = w.ret.entry /\ w.ret.entry = None
    BY <1>0, <1>7 DEF WorkerOK, CallOK, Returned, NoLease
  <2>3. ASSUME NEW f \in Entries
        PROVE  Count(w', backbuf', gui', f)
                 = Count(w, backbuf, gui, f) - One(None, f) + One(None, f)
    BY <1>1, <2>1, <2>2, EntriesAssumption DEF Count, One
  <2>. QED BY <1>0, <1>1, <1>5, <2>3, ReferencesStep DEF Keeps, Live
<1>. QED BY <1>0, <1>17, <1>18 DEF Inv

\* A line of an earlier run is taken for another hash.
LEMMA AcquireRekeyStep ==
    ASSUME Inv, fault = None, NEW e \in Entries, AcquireRekey(e)
    PROVE  Inv'
<1>0. /\ Content /\ References /\ TableOK(lines) /\ HintOK(hint)
      /\ WorkerOK(w, lines, shutdown, reused) /\ WorkerType(w) /\ w.pc = "acquire"
      /\ BackbufOK(backbuf, w, lines) /\ GuiOK(gui, lines)
  BY DEF Inv, Content, WorkerOK, AcquireRekey, At
<1>1. UNCHANGED <<fault, shutdown, backbuf, gui, runs, flushes, over, reused>>
  BY DEF AcquireRekey, Only
<1>2. OutHash(w) \in Hashes /\ hash = OutHash(w)
  BY <1>0, HashOK DEF WorkerOK, hash, OutHash
<1>3. w.node \in 1..(Modules - 1) /\ w.node < Modules
  BY <1>0, ModulesAssumption DEF AcquireRekey, IsFinal, WorkerType
<1>4. e \in Live /\ lines[e].hash = hint[w.node].hash /\ lines[e].hash # hash /\ lines[e].hash \in Hashes
  BY <1>0 DEF AcquireRekey, Rekeyable, Found, TableOK, LineRec, Live
<1>5. Len(lines[e].hash) = w.node
  BY <1>0, <1>3, <1>4, HashFacts DEF HintOK
<1>6. e \notin Stale(hash) /\ \A f \in Live \ Stale(hash) : lines[f].hash # hash
  BY <1>4 DEF AcquireRekey, Stale, ExactHit, Found
<1>7. lines' = RefCount(Without(Stale(hash)), e, 1) /\ Forget(Stale(hash))
  BY DEF AcquireRekey, Drop
<1>8. \A s \in Stale(hash) \cap Live : Removable(s, FALSE)
  BY DEF Stale
<1>9. /\ Keeps(lines, Without(Stale(hash))) /\ DOMAIN Without(Stale(hash)) = Live \ Stale(hash)
      /\ TableOK(Without(Stale(hash)))
      /\ Moves(lines, Without(Stale(hash)), None, None) /\ NoLoss(lines, Without(Stale(hash)))
      /\ Unheld(lines, Without(Stale(hash)))
  BY <1>0, <1>8, WithoutKeeps DEF Keeps
<1>10. /\ Keeps(Without(Stale(hash)), lines') /\ Moves(Without(Stale(hash)), lines', None, e)
       /\ NoLoss(Without(Stale(hash)), lines') /\ DOMAIN lines' = DOMAIN Without(Stale(hash))
  BY <1>7, <1>9, RefCountUp
<1>11. /\ Keeps(lines, lines') /\ Moves(lines, lines', None, e) /\ Unheld(lines, lines')
       /\ DOMAIN lines' = Live \ Stale(hash) /\ NoLoss(lines, lines')
  BY <1>0, <1>9, <1>10, KeepsTrans, MovesTrans DEF Unheld
<1>12. HintOK(hint')
  BY <1>0, <1>7, ForgetOK
<1>13. /\ WorkerOK(w, lines', shutdown, reused) /\ TableOK(lines')
       /\ BackbufOK(backbuf, w, lines') /\ GuiOK(gui, lines')
  BY <1>0, <1>11, KeepWorker, KeepOthers DEF Keeps, Writing
<1>14. /\ w'.pc = "rekey" /\ w'.node = w.node /\ w'.history = w.history /\ w'.target = w.target
       /\ w'.in = w.in
       /\ w'.out = e /\ w'.ptr = w.ptr /\ w'.old = w.old /\ w'.ret = w.ret /\ w'.after = w.after
  BY <1>0 DEF AcquireRekey, WorkerType, EntryOrNone
<1>15. WorkerType(w')
  BY <1>0, PcsFacts DEF AcquireRekey, WorkerType, EntryOrNone
<1>16. WorkerOK(w', lines', shutdown', reused')
  BY <1>0, <1>1, <1>13, <1>14, <1>15, <1>2, <1>3, <1>4, <1>5, <1>6, <1>11 DEF WorkerOK, CallOK,
     WriterOK, RekeyOK, InputOK, ShownOK, FinalOK, TrueOK, OutHash, hash,
     Writing, Shown, Returned, Swapping, Withdrawn, Keeps, Live
<1>17. Content'
  BY <1>0, <1>1, <1>13, <1>14, <1>16, <1>12 DEF Content, InputLive, BackbufOK
<1>18. ASSUME fault' = None PROVE References'
  <2>1. /\ HeldIn(w) = w.in /\ HeldOut(w) = None /\ HeldPtr(w) = None
        /\ HeldIn(w') = w.in /\ HeldOut(w') = e /\ HeldPtr(w') = None
    BY <1>0, <1>14 DEF HeldIn, HeldOut, HeldPtr, InputHeld, OutputHeld
  <2>2. w'.ret.entry = w.ret.entry /\ w.ret.entry = None
    BY <1>0, <1>14 DEF WorkerOK, CallOK, Returned, NoLease
  <2>3. ASSUME NEW f \in Entries
        PROVE  Count(w', backbuf', gui', f) = Count(w, backbuf, gui, f) - One(None, f) + One(e, f)
    BY <1>1, <2>1, <2>2, EntriesAssumption DEF Count, One
  <2>4. e \in Live' \cup {None}
    BY <1>4, <1>6, <1>11 DEF Live
  <2>. QED BY <1>0, <1>1, <1>11, <2>3, <2>4, ReferencesStep DEF Keeps, Live
<1>. QED BY <1>0, <1>17, <1>18 DEF Inv

\* No memory for the output: the module gives its input back.
LEMMA AcquireFailsStep ==
    ASSUME Inv, fault = None, AcquireFails
    PROVE  Inv'
<1>0. /\ Content /\ References /\ TableOK(lines) /\ HintOK(hint)
      /\ WorkerOK(w, lines, shutdown, reused) /\ WorkerType(w) /\ w.pc = "acquire"
      /\ BackbufOK(backbuf, w, lines) /\ GuiOK(gui, lines)
  BY DEF Inv, Content, WorkerOK, AcquireFails, At
<1>1. UNCHANGED <<shutdown, backbuf, gui, runs, flushes, over, reused>>
  BY DEF AcquireFails, Only
<1>2. NoLease \in Leases /\ None \in EntryOrNone
  BY NoLeaseFacts DEF EntryOrNone
<1>3. lines' = RefCount(Without(Stale(hash)), w.in, -1) /\ Forget(Stale(hash))
  BY DEF AcquireFails, Drop
<1>4. \A s \in Stale(hash) \cap Live : Removable(s, FALSE)
  BY DEF Stale
<1>5. /\ Keeps(lines, Without(Stale(hash))) /\ DOMAIN Without(Stale(hash)) = Live \ Stale(hash)
      /\ TableOK(Without(Stale(hash)))
      /\ Moves(lines, Without(Stale(hash)), None, None) /\ NoLoss(lines, Without(Stale(hash)))
      /\ Unheld(lines, Without(Stale(hash)))
  BY <1>0, <1>4, WithoutKeeps DEF Keeps
<1>6. /\ Keeps(Without(Stale(hash)), lines') /\ Moves(Without(Stale(hash)), lines', w.in, None)
      /\ NoLoss(Without(Stale(hash)), lines') /\ DOMAIN lines' = DOMAIN Without(Stale(hash))
  BY <1>3, <1>5, RefCountDown
<1>7. /\ Keeps(lines, lines') /\ Moves(lines, lines', w.in, None) /\ Unheld(lines, lines')
      /\ DOMAIN lines' = Live \ Stale(hash) /\ NoLoss(lines, lines')
  BY <1>0, <1>5, <1>6, KeepsTrans, MovesTrans DEF Unheld
<1>8. HintOK(hint')
  BY <1>0, <1>3, ForgetOK
<1>9. /\ WorkerOK(w, lines', shutdown, reused) /\ TableOK(lines')
      /\ BackbufOK(backbuf, w, lines') /\ GuiOK(gui, lines')
  BY <1>0, <1>7, KeepWorker, KeepOthers DEF Keeps, Writing
<1>10. fault' \in Places \cup {None}
  BY DEF AcquireFails, Touch, TouchInput, Places
<1>11. /\ w'.pc = "finish" /\ w'.node = w.node /\ w'.history = w.history /\ w'.target = w.target
       /\ w'.in = None
       /\ w'.out = None /\ w'.ptr = None /\ w'.old = w.old /\ w'.ret = NoLease /\ w'.after = w.after
  BY <1>0, <1>2 DEF AcquireFails, WorkerType, ReturnError
<1>12. WorkerType(w')
  BY <1>0, <1>2, PcsFacts DEF AcquireFails, WorkerType, ReturnError
<1>13. WorkerOK(w', lines', shutdown', reused')
  BY <1>0, <1>1, <1>9, <1>11, <1>12 DEF WorkerOK, CallOK, WriterOK, RekeyOK, InputOK, ShownOK,
     FinalOK, TrueOK, OutHash, hash,
     Writing, Shown, Returned, Swapping, Withdrawn, NoLease
<1>14. Content'
  BY <1>0, <1>1, <1>9, <1>11, <1>13, <1>10, <1>8 DEF Content, InputLive, BackbufOK
<1>15. ASSUME fault' = None PROVE References'
  <2>1. /\ HeldIn(w) = w.in /\ HeldOut(w) = None /\ HeldPtr(w) = None
        /\ HeldIn(w') = None /\ HeldOut(w') = None /\ HeldPtr(w') = None
    BY <1>0, <1>11 DEF HeldIn, HeldOut, HeldPtr, InputHeld, OutputHeld
  <2>2. w'.ret.entry = None /\ w.ret.entry = None
    BY <1>0, <1>11 DEF WorkerOK, CallOK, Returned, NoLease
  <2>3. ASSUME NEW f \in Entries
        PROVE  Count(w', backbuf', gui', f)
                 = Count(w, backbuf, gui, f) - One(w.in, f) + One(None, f)
    BY <1>1, <2>1, <2>2, EntriesAssumption DEF Count, One
  <2>. QED BY <1>0, <1>1, <1>7, <2>3, ReferencesStep DEF Keeps, Live
<1>. QED BY <1>0, <1>14, <1>15 DEF Inv

\* The exact hit is looked up again.
LEMMA ExactLookupStep ==
    ASSUME Inv, fault = None, ExactLookup
    PROVE  Inv'
<1>0. /\ Content /\ References /\ TableOK(lines) /\ HintOK(hint)
      /\ WorkerOK(w, lines, shutdown, reused) /\ WorkerType(w) /\ w.pc = "exact"
      /\ BackbufOK(backbuf, w, lines) /\ GuiOK(gui, lines)
  BY DEF Inv, Content, WorkerOK, ExactLookup, At
<1>1. UNCHANGED <<lines, hint, fault, shutdown, backbuf, gui, runs, flushes, over, reused>>
  BY DEF ExactLookup, Only
<1>2. FoundOrNone(hash) \in EntryOrNone /\ (FoundOrNone(hash) \in Live => lines[FoundOrNone(hash)].hash = hash)
  BY <1>0, FoundFacts
<1>3. /\ Keeps(lines, lines') /\ Moves(lines, lines', None, None) /\ Unheld(lines, lines')
      /\ DOMAIN lines' = DOMAIN lines /\ NoLoss(lines, lines')
  BY <1>0, <1>1, KeepsSame
<1>4. /\ WorkerOK(w, lines', shutdown, reused) /\ TableOK(lines')
      /\ BackbufOK(backbuf, w, lines') /\ GuiOK(gui, lines')
  BY <1>0, <1>3, KeepWorker, KeepOthers DEF Keeps, Writing
<1>5. /\ w'.pc = "exactref" /\ w'.node = w.node /\ w'.history = w.history /\ w'.target = w.target
      /\ w'.in = w.in
      /\ w'.out = w.out /\ w'.ptr = FoundOrNone(hash) /\ w'.old = w.old /\ w'.ret = w.ret
      /\ w'.after = w.after
  BY <1>0, <1>2 DEF ExactLookup, WorkerType, Goto
<1>6. WorkerType(w')
  BY <1>0, <1>2, PcsFacts DEF ExactLookup, WorkerType, Goto
<1>7. WorkerOK(w', lines', shutdown', reused')
  BY <1>0, <1>1, <1>4, <1>5, <1>6, <1>2 DEF WorkerOK, CallOK, WriterOK, RekeyOK, InputOK, ShownOK,
     FinalOK, TrueOK, OutHash, hash,
     Writing, Shown, Returned, Swapping, Withdrawn
<1>8. Content'
  BY <1>0, <1>1, <1>4, <1>5, <1>7 DEF Content, InputLive, BackbufOK
<1>9. ASSUME fault' = None PROVE References'
  <2>1. /\ HeldIn(w) = w.in /\ HeldOut(w) = None /\ HeldPtr(w) = None
        /\ HeldIn(w') = w.in /\ HeldOut(w') = None /\ HeldPtr(w') = None
    BY <1>0, <1>5 DEF HeldIn, HeldOut, HeldPtr, InputHeld, OutputHeld
  <2>2. w'.ret.entry = w.ret.entry /\ w.ret.entry = None
    BY <1>0, <1>5 DEF WorkerOK, CallOK, Returned, NoLease
  <2>3. ASSUME NEW f \in Entries
        PROVE  Count(w', backbuf', gui', f)
                 = Count(w, backbuf, gui, f) - One(None, f) + One(None, f)
    BY <1>1, <2>1, <2>2, EntriesAssumption DEF Count, One
  <2>. QED BY <1>0, <1>1, <1>3, <2>3, ReferencesStep DEF Keeps, Live
<1>. QED BY <1>0, <1>8, <1>9 DEF Inv

\* It has gone.
LEMMA ExactMissingStep ==
    ASSUME Inv, fault = None, ExactMissing
    PROVE  Inv'
<1>0. /\ Content /\ References /\ TableOK(lines) /\ HintOK(hint)
      /\ WorkerOK(w, lines, shutdown, reused) /\ WorkerType(w) /\ w.pc = "exact"
      /\ BackbufOK(backbuf, w, lines) /\ GuiOK(gui, lines)
  BY DEF Inv, Content, WorkerOK, ExactMissing, At
<1>1. UNCHANGED <<hint, shutdown, backbuf, gui, runs, flushes, over, reused>>
  BY DEF ExactMissing, Only
<1>2. NoLease \in Leases /\ None \in EntryOrNone
  BY NoLeaseFacts DEF EntryOrNone
<1>3. lines' = RefCount(lines, w.in, -1)
  BY DEF ExactMissing
<1>4. /\ Keeps(lines, lines') /\ Moves(lines, lines', w.in, None) /\ Unheld(lines, lines')
      /\ DOMAIN lines' = DOMAIN lines /\ NoLoss(lines, lines')
  BY <1>0, <1>3, RefCountDown
<1>5. /\ WorkerOK(w, lines', shutdown, reused) /\ TableOK(lines')
      /\ BackbufOK(backbuf, w, lines') /\ GuiOK(gui, lines')
  BY <1>0, <1>4, KeepWorker, KeepOthers DEF Keeps, Writing
<1>6. fault' \in Places \cup {None}
  BY DEF ExactMissing, Touch, TouchInput, Places
<1>7. /\ w'.pc = "finish" /\ w'.node = w.node /\ w'.history = w.history /\ w'.target = w.target
      /\ w'.in = None
      /\ w'.out = None /\ w'.ptr = None /\ w'.old = w.old /\ w'.ret = NoLease /\ w'.after = w.after
  BY <1>0, <1>2 DEF ExactMissing, WorkerType, ReturnError
<1>8. WorkerType(w')
  BY <1>0, <1>2, PcsFacts DEF ExactMissing, WorkerType, ReturnError
<1>9. WorkerOK(w', lines', shutdown', reused')
  BY <1>0, <1>1, <1>5, <1>7, <1>8 DEF WorkerOK, CallOK, WriterOK, RekeyOK, InputOK, ShownOK,
     FinalOK, TrueOK, OutHash, hash,
     Writing, Shown, Returned, Swapping, Withdrawn, NoLease
<1>10. Content'
  BY <1>0, <1>1, <1>5, <1>7, <1>9, <1>6 DEF Content, InputLive, BackbufOK
<1>11. ASSUME fault' = None PROVE References'
  <2>1. /\ HeldIn(w) = w.in /\ HeldOut(w) = None /\ HeldPtr(w) = None
        /\ HeldIn(w') = None /\ HeldOut(w') = None /\ HeldPtr(w') = None
    BY <1>0, <1>7 DEF HeldIn, HeldOut, HeldPtr, InputHeld, OutputHeld
  <2>2. w'.ret.entry = None /\ w.ret.entry = None
    BY <1>0, <1>7 DEF WorkerOK, CallOK, Returned, NoLease
  <2>3. ASSUME NEW f \in Entries
        PROVE  Count(w', backbuf', gui', f)
                 = Count(w, backbuf, gui, f) - One(w.in, f) + One(None, f)
    BY <1>1, <2>1, <2>2, EntriesAssumption DEF Count, One
  <2>. QED BY <1>0, <1>1, <1>4, <2>3, ReferencesStep DEF Keeps, Live
<1>. QED BY <1>0, <1>10, <1>11 DEF Inv

\* A reference to wait for its publication.
LEMMA ExactRefStep ==
    ASSUME Inv, fault = None, ExactRef
    PROVE  Inv'
<1>0. /\ Content /\ References /\ TableOK(lines) /\ HintOK(hint)
      /\ WorkerOK(w, lines, shutdown, reused) /\ WorkerType(w) /\ w.pc = "exactref"
      /\ BackbufOK(backbuf, w, lines) /\ GuiOK(gui, lines)
  BY DEF Inv, Content, WorkerOK, ExactRef, ExactStep, At
<1>1. UNCHANGED <<hint, shutdown, backbuf, gui, runs, flushes, over, reused>>
  BY DEF ExactRef, ExactStep, Only
<1>2. lines' = RefCount(lines, w.ptr, 1)
  BY DEF ExactRef, ExactStep
<1>3. /\ Keeps(lines, lines') /\ Moves(lines, lines', None, w.ptr) /\ Unheld(lines, lines')
      /\ DOMAIN lines' = DOMAIN lines /\ NoLoss(lines, lines')
  BY <1>0, <1>2, RefCountUp
<1>4. /\ WorkerOK(w, lines', shutdown, reused) /\ TableOK(lines')
      /\ BackbufOK(backbuf, w, lines') /\ GuiOK(gui, lines')
  BY <1>0, <1>3, KeepWorker, KeepOthers DEF Keeps, Writing
<1>5. fault' \in Places \cup {None}
  BY DEF ExactRef, ExactStep, Touch, TouchInput, Places
<1>6. /\ w'.pc = "exactdrop" /\ w'.node = w.node /\ w'.history = w.history /\ w'.target = w.target
      /\ w'.in = w.in
      /\ w'.out = w.out /\ w'.ptr = w.ptr /\ w'.old = w.old /\ w'.ret = w.ret /\ w'.after = w.after
  BY <1>0 DEF ExactRef, ExactStep, WorkerType, Goto
<1>7. WorkerType(w')
  BY <1>0, PcsFacts DEF ExactRef, ExactStep, WorkerType, Goto
<1>8. WorkerOK(w', lines', shutdown', reused')
  BY <1>0, <1>1, <1>4, <1>6, <1>7 DEF WorkerOK, CallOK, WriterOK, RekeyOK, InputOK, ShownOK,
     FinalOK, TrueOK, OutHash, hash,
     Writing, Shown, Returned, Swapping, Withdrawn
<1>9. Content'
  BY <1>0, <1>1, <1>4, <1>6, <1>8, <1>5 DEF Content, InputLive, BackbufOK
<1>10. ASSUME fault' = None PROVE References'
  <2>1. /\ HeldIn(w) = w.in /\ HeldOut(w) = None /\ HeldPtr(w) = None
        /\ HeldIn(w') = w.in /\ HeldOut(w') = None /\ HeldPtr(w') = w.ptr
    BY <1>0, <1>6 DEF HeldIn, HeldOut, HeldPtr, InputHeld, OutputHeld
  <2>2. w'.ret.entry = w.ret.entry /\ w.ret.entry = None
    BY <1>0, <1>6 DEF WorkerOK, CallOK, Returned, NoLease
  <2>3. ASSUME NEW f \in Entries
        PROVE  Count(w', backbuf', gui', f)
                 = Count(w, backbuf, gui, f) - One(None, f) + One(w.ptr, f)
    BY <1>1, <2>1, <2>2, EntriesAssumption DEF Count, One
  <2>4. w.ptr \in Live' \cup {None}
    BY <1>3, <1>10 DEF ExactRef, ExactStep, Touch, Exists, None, Live
  <2>. QED BY <1>0, <1>1, <1>3, <2>3, <2>4, ReferencesStep DEF Keeps, Live
<1>. QED BY <1>0, <1>9, <1>10 DEF Inv

\* That reference is given back.
LEMMA ExactDropStep ==
    ASSUME Inv, fault = None, ExactDrop
    PROVE  Inv'
<1>0. /\ Content /\ References /\ TableOK(lines) /\ HintOK(hint)
      /\ WorkerOK(w, lines, shutdown, reused) /\ WorkerType(w) /\ w.pc = "exactdrop"
      /\ BackbufOK(backbuf, w, lines) /\ GuiOK(gui, lines)
  BY DEF Inv, Content, WorkerOK, ExactDrop, ExactStep, At
<1>1. UNCHANGED <<hint, shutdown, backbuf, gui, runs, flushes, over, reused>>
  BY DEF ExactDrop, ExactStep, Only
<1>2. lines' = RefCount(lines, w.ptr, -1)
  BY DEF ExactDrop, ExactStep
<1>3. /\ Keeps(lines, lines') /\ Moves(lines, lines', w.ptr, None) /\ Unheld(lines, lines')
      /\ DOMAIN lines' = DOMAIN lines /\ NoLoss(lines, lines')
  BY <1>0, <1>2, RefCountDown
<1>4. /\ WorkerOK(w, lines', shutdown, reused) /\ TableOK(lines')
      /\ BackbufOK(backbuf, w, lines') /\ GuiOK(gui, lines')
  BY <1>0, <1>3, KeepWorker, KeepOthers DEF Keeps, Writing
<1>5. fault' \in Places \cup {None}
  BY DEF ExactDrop, ExactStep, Touch, TouchInput, Places
<1>6. /\ w'.pc = "exactagain" /\ w'.node = w.node /\ w'.history = w.history /\ w'.target = w.target
      /\ w'.in = w.in
      /\ w'.out = w.out /\ w'.ptr = w.ptr /\ w'.old = w.old /\ w'.ret = w.ret /\ w'.after = w.after
  BY <1>0 DEF ExactDrop, ExactStep, WorkerType, Goto
<1>7. WorkerType(w')
  BY <1>0, PcsFacts DEF ExactDrop, ExactStep, WorkerType, Goto
<1>8. WorkerOK(w', lines', shutdown', reused')
  BY <1>0, <1>1, <1>4, <1>6, <1>7 DEF WorkerOK, CallOK, WriterOK, RekeyOK, InputOK, ShownOK,
     FinalOK, TrueOK, OutHash, hash,
     Writing, Shown, Returned, Swapping, Withdrawn
<1>9. Content'
  BY <1>0, <1>1, <1>4, <1>6, <1>8, <1>5 DEF Content, InputLive, BackbufOK
<1>10. ASSUME fault' = None PROVE References'
  <2>1. /\ HeldIn(w) = w.in /\ HeldOut(w) = None /\ HeldPtr(w) = w.ptr
        /\ HeldIn(w') = w.in /\ HeldOut(w') = None /\ HeldPtr(w') = None
    BY <1>0, <1>6 DEF HeldIn, HeldOut, HeldPtr, InputHeld, OutputHeld
  <2>2. w'.ret.entry = w.ret.entry /\ w.ret.entry = None
    BY <1>0, <1>6 DEF WorkerOK, CallOK, Returned, NoLease
  <2>3. ASSUME NEW f \in Entries
        PROVE  Count(w', backbuf', gui', f)
                 = Count(w, backbuf, gui, f) - One(w.ptr, f) + One(None, f)
    BY <1>1, <2>1, <2>2, EntriesAssumption DEF Count, One
  <2>. QED BY <1>0, <1>1, <1>3, <2>3, ReferencesStep DEF Keeps, Live
<1>. QED BY <1>0, <1>9, <1>10 DEF Inv

\* A reference for the caller.
LEMMA ExactAgainStep ==
    ASSUME Inv, fault = None, ExactAgain
    PROVE  Inv'
<1>0. /\ Content /\ References /\ TableOK(lines) /\ HintOK(hint)
      /\ WorkerOK(w, lines, shutdown, reused) /\ WorkerType(w) /\ w.pc = "exactagain"
      /\ BackbufOK(backbuf, w, lines) /\ GuiOK(gui, lines)
  BY DEF Inv, Content, WorkerOK, ExactAgain, ExactStep, At
<1>1. UNCHANGED <<hint, shutdown, backbuf, gui, runs, flushes, over, reused>>
  BY DEF ExactAgain, ExactStep, Only
<1>2. lines' = RefCount(lines, w.ptr, 1)
  BY DEF ExactAgain, ExactStep
<1>3. /\ Keeps(lines, lines') /\ Moves(lines, lines', None, w.ptr) /\ Unheld(lines, lines')
      /\ DOMAIN lines' = DOMAIN lines /\ NoLoss(lines, lines')
  BY <1>0, <1>2, RefCountUp
<1>4. /\ WorkerOK(w, lines', shutdown, reused) /\ TableOK(lines')
      /\ BackbufOK(backbuf, w, lines') /\ GuiOK(gui, lines')
  BY <1>0, <1>3, KeepWorker, KeepOthers DEF Keeps, Writing
<1>5. fault' \in Places \cup {None}
  BY DEF ExactAgain, ExactStep, Touch, TouchInput, Places
<1>6. /\ w'.pc = "exactin" /\ w'.node = w.node /\ w'.history = w.history /\ w'.target = w.target
      /\ w'.in = w.in
      /\ w'.out = w.out /\ w'.ptr = w.ptr /\ w'.old = w.old /\ w'.ret = w.ret /\ w'.after = w.after
  BY <1>0 DEF ExactAgain, ExactStep, WorkerType, Goto
<1>7. WorkerType(w')
  BY <1>0, PcsFacts DEF ExactAgain, ExactStep, WorkerType, Goto
<1>8. WorkerOK(w', lines', shutdown', reused')
  BY <1>0, <1>1, <1>4, <1>6, <1>7 DEF WorkerOK, CallOK, WriterOK, RekeyOK, InputOK, ShownOK,
     FinalOK, TrueOK, OutHash, hash,
     Writing, Shown, Returned, Swapping, Withdrawn
<1>9. Content'
  BY <1>0, <1>1, <1>4, <1>6, <1>8, <1>5 DEF Content, InputLive, BackbufOK
<1>10. ASSUME fault' = None PROVE References'
  <2>1. /\ HeldIn(w) = w.in /\ HeldOut(w) = None /\ HeldPtr(w) = None
        /\ HeldIn(w') = w.in /\ HeldOut(w') = None /\ HeldPtr(w') = w.ptr
    BY <1>0, <1>6 DEF HeldIn, HeldOut, HeldPtr, InputHeld, OutputHeld
  <2>2. w'.ret.entry = w.ret.entry /\ w.ret.entry = None
    BY <1>0, <1>6 DEF WorkerOK, CallOK, Returned, NoLease
  <2>3. ASSUME NEW f \in Entries
        PROVE  Count(w', backbuf', gui', f)
                 = Count(w, backbuf, gui, f) - One(None, f) + One(w.ptr, f)
    BY <1>1, <2>1, <2>2, EntriesAssumption DEF Count, One
  <2>4. w.ptr \in Live' \cup {None}
    BY <1>3, <1>10 DEF ExactAgain, ExactStep, Touch, Exists, None, Live
  <2>. QED BY <1>0, <1>1, <1>3, <2>3, <2>4, ReferencesStep DEF Keeps, Live
<1>. QED BY <1>0, <1>9, <1>10 DEF Inv

\* The input is released and the exact hit returned.
LEMMA ExactReturnStep ==
    ASSUME Inv, fault = None, ExactReturn
    PROVE  Inv'
<1>0. /\ Content /\ References /\ TableOK(lines) /\ HintOK(hint)
      /\ WorkerOK(w, lines, shutdown, reused) /\ WorkerType(w) /\ w.pc = "exactin"
      /\ BackbufOK(backbuf, w, lines) /\ GuiOK(gui, lines)
  BY DEF Inv, Content, WorkerOK, ExactReturn, At
<1>1. UNCHANGED <<hint, shutdown, backbuf, gui, runs, flushes, over, reused>>
  BY DEF ExactReturn, Only
<1>2. OutHash(w) \in Hashes /\ hash = OutHash(w)
  BY <1>0, HashOK DEF WorkerOK, hash, OutHash
<1>3. NoLease \in Leases /\ None \in EntryOrNone
  BY NoLeaseFacts DEF EntryOrNone
<1>4. lines' = RefCount(lines, w.in, -1)
  BY DEF ExactReturn
<1>5. /\ Keeps(lines, lines') /\ Moves(lines, lines', w.in, None) /\ Unheld(lines, lines')
      /\ DOMAIN lines' = DOMAIN lines /\ NoLoss(lines, lines')
  BY <1>0, <1>4, RefCountDown
<1>6. /\ WorkerOK(w, lines', shutdown, reused) /\ TableOK(lines')
      /\ BackbufOK(backbuf, w, lines') /\ GuiOK(gui, lines')
  BY <1>0, <1>5, KeepWorker, KeepOthers DEF Keeps, Writing
<1>7. fault' \in Places \cup {None}
  BY DEF ExactReturn, Touch, TouchInput, Places
<1>8. /\ w'.pc = "return" /\ w'.node = w.node /\ w'.history = w.history /\ w'.target = w.target
      /\ w'.in = None
      /\ w'.out = w.out /\ w'.ptr = None /\ w'.old = w.old
      /\ w'.ret = [hash |-> hash, entry |-> w.ptr] /\ w'.after = w.after
  BY <1>0, <1>2, <1>3 DEF ExactReturn, WorkerType, Leases
<1>9. WorkerType(w')
  BY <1>0, <1>2, <1>3, PcsFacts DEF ExactReturn, WorkerType, Leases
<1>10. WorkerOK(w', lines', shutdown', reused')
  BY <1>0, <1>1, <1>6, <1>8, <1>9, <1>2 DEF WorkerOK, CallOK, WriterOK, RekeyOK, InputOK, ShownOK,
     FinalOK, TrueOK, OutHash, hash,
     Writing, Shown, Returned, Swapping, Withdrawn
<1>11. Content'
  BY <1>0, <1>1, <1>6, <1>8, <1>10, <1>7 DEF Content, InputLive, BackbufOK
<1>12. ASSUME fault' = None PROVE References'
  <2>1. /\ HeldIn(w) = w.in /\ HeldOut(w) = None /\ HeldPtr(w) = w.ptr
        /\ HeldIn(w') = None /\ HeldOut(w') = None /\ HeldPtr(w') = None
    BY <1>0, <1>8 DEF HeldIn, HeldOut, HeldPtr, InputHeld, OutputHeld
  <2>2. w'.ret.entry = w.ptr /\ w.ret.entry = None
    BY <1>0, <1>8 DEF WorkerOK, CallOK, Returned, NoLease
  <2>3. ASSUME NEW f \in Entries
        PROVE  Count(w', backbuf', gui', f)
                 = Count(w, backbuf, gui, f) - One(w.in, f) + One(None, f)
    BY <1>1, <2>1, <2>2, EntriesAssumption DEF Count, One
  <2>. QED BY <1>0, <1>1, <1>5, <2>3, ReferencesStep DEF Keeps, Live
<1>. QED BY <1>0, <1>11, <1>12 DEF Inv

----------------------------------------------------------------------------
(* The worker while it has its output locked *)

\* The hint of a module is reset.
LEMMA ResetOK == ASSUME HintOK(hint), ResetHint PROVE HintOK(hint')
BY NoLeaseFacts DEF HintOK, ResetHint, SetHint

\* One line is changed, but not its counts.
LEMMA EditLine ==
    ASSUME NEW L, TableOK(L), NEW M, DOMAIN M = DOMAIN L, \A f \in DOMAIN L : M[f] \in LineRec,
           \A f \in DOMAIN L : M[f].refs = L[f].refs /\ M[f].drift = L[f].drift,
           \A e, f \in DOMAIN L : M[e].hash = M[f].hash => e = f
    PROVE  TableOK(M) /\ Moves(L, M, None, None) /\ NoLoss(L, M) /\ Unheld(L, M)
<1>1. TableOK(M) /\ Unheld(L, M)
  BY DEF TableOK, Unheld
<1>2. \A f \in DOMAIN L : f # None /\ L[f].refs \in Int /\ L[f].drift \in Int
  BY EntriesAssumption DEF TableOK, LineRec
<1>. QED BY <1>1, <1>2 DEF Moves, NoLoss, Net, One

\* A line nobody has locked gets its new hash.
LEMMA RekeyStep ==
    ASSUME Inv, fault = None, Rekey
    PROVE  Inv'
<1>0. /\ Content /\ References /\ TableOK(lines) /\ HintOK(hint)
      /\ WorkerOK(w, lines, shutdown, reused) /\ WorkerType(w) /\ w.pc = "rekey"
      /\ BackbufOK(backbuf, w, lines) /\ GuiOK(gui, lines)
  BY DEF Inv, Content, WorkerOK, Rekey, At
<1>1. UNCHANGED <<hint, fault, shutdown, backbuf, gui, runs, flushes, over, reused>>
  BY DEF Rekey, Only
<1>2. OutHash(w) \in Hashes /\ hash = OutHash(w) /\ Len(hash) = w.node
  BY <1>0, HashOK DEF WorkerOK, hash, OutHash
<1>3. /\ w.node < Modules /\ w.out \in Live /\ Len(lines[w.out].hash) = w.node /\ ~Locked(w.out)
      /\ \A f \in Live : lines[f].hash # hash
  BY <1>0, <1>2 DEF Rekey, WorkerOK, RekeyOK, Live
<1>4. w.history \in Histories /\ (w.node > 1 => w.node - 1 \in 1..Modules /\ w.node - 1 # w.node)
  BY <1>0, ModulesAssumption DEF WorkerType, WorkerOK, CallOK
<1>5. w.node > 1 => Len(Hash(w.history, w.node - 1)) # w.node
  BY <1>4, HashFacts
<1>6. /\ DOMAIN lines' = Live /\ \A f \in Live : f # w.out => lines'[f] = lines[f]
      /\ lines'[w.out] \in LineRec /\ lines'[w.out].refs = lines[w.out].refs
      /\ lines'[w.out].drift = lines[w.out].drift
      /\ lines'[w.out].hash = hash /\ lines'[w.out].writer = TRUE /\ lines'[w.out].readers = {}
  BY <1>0, <1>2, <1>3 DEF Rekey, TableOK, LineRec, Live, Locked
<1>7. \A f \in Live : lines[f] \in LineRec /\ lines[f].hash \in Hashes
  BY <1>0 DEF TableOK, LineRec, Live
<1>8. \A e, f \in Live : lines'[e].hash = lines'[f].hash => e = f
  BY <1>0, <1>3, <1>6 DEF TableOK, Live
<1>9. /\ TableOK(lines') /\ Moves(lines, lines', None, None) /\ NoLoss(lines, lines')
      /\ Unheld(lines, lines')
  BY <1>0, <1>6, <1>7, <1>8, EditLine DEF Live
<1>10. \A f \in Live : Len(lines[f].hash) # w.node => lines'[f] = lines[f]
  BY <1>6, <1>3
<1>11. w.in \in Live => w.in # w.out
  BY <1>0, <1>3, <1>5 DEF WorkerOK, InputOK, Live
<1>12. /\ w'.pc = "begin" /\ w'.node = w.node /\ w'.history = w.history /\ w'.target = w.target
       /\ w'.in = w.in
       /\ w'.out = w.out /\ w'.ptr = w.ptr /\ w'.old = w.old /\ w'.ret = w.ret /\ w'.after = w.after
  BY <1>0 DEF Rekey, WorkerType, Goto
<1>13. WorkerType(w')
  BY <1>0, PcsFacts DEF Rekey, WorkerType, Goto
<1>14. backbuf.entry \in Live => backbuf.entry # w.out
  BY <1>0, <1>3, <1>7, HashFacts DEF BackbufOK, Live
<1>15. gui.pc \in {"borrow", "painting"} /\ gui.entry \in Live => gui.entry # w.out
  BY <1>0, <1>3, <1>7 DEF GuiOK, Live
<1>16. gui.pc = "reading" /\ gui.entry \in Live => gui.entry # w.out
  BY <1>0, <1>3 DEF GuiOK, Live, Locked
<1>17. CallOK(w')
  BY <1>0, <1>1, <1>12, <1>13, <1>2, <1>3, <1>6, <1>11 DEF WorkerOK, CallOK, Returned, Swapping,
     OutHash, hash, NoLease, Live
<1>18. WriterOK(w', lines')
  BY <1>0, <1>1, <1>12, <1>13, <1>2, <1>3, <1>6, <1>11 DEF WorkerOK, WriterOK, Writing, OutHash,
     hash, Live
<1>19. RekeyOK(w', lines')
  BY <1>0, <1>1, <1>12, <1>13, <1>2, <1>3, <1>6, <1>11 DEF WorkerOK, RekeyOK, OutHash, hash, Live
<1>20. InputOK(w', lines', reused')
  BY <1>0, <1>1, <1>12, <1>13, <1>2, <1>3, <1>6, <1>11 DEF WorkerOK, InputOK, OutHash, Live
<1>21. ShownOK(w', lines', shutdown', reused')
  BY <1>0, <1>1, <1>12, <1>13, <1>2, <1>3, <1>6, <1>11 DEF WorkerOK, ShownOK, Shown, OutHash, hash,
     Live
<1>22. FinalOK(w', lines')
  BY <1>0, <1>1, <1>12, <1>13, <1>2, <1>3, <1>6, <1>11 DEF WorkerOK, FinalOK, Swapping, OutHash,
     Live
<1>23. TrueOK(w', lines', shutdown', reused')
  BY <1>0, <1>1, <1>12, <1>13, <1>2, <1>3, <1>6, <1>11 DEF WorkerOK, TrueOK, Withdrawn, Live
<1>24. WorkerOK(w', lines', shutdown', reused')
  BY <1>13, <1>17, <1>18, <1>19, <1>20, <1>21, <1>22, <1>23 DEF WorkerOK
<1>25. BackbufOK(backbuf', w', lines')
  BY <1>0, <1>1, <1>12, <1>6, <1>14 DEF BackbufOK, Live
<1>26. GuiOK(gui', lines')
  BY <1>0, <1>1, <1>6, <1>15, <1>16 DEF GuiOK, Live
<1>27. Content'
  BY <1>0, <1>1, <1>26, <1>9, <1>12, <1>24, <1>25 DEF Content, InputLive
<1>28. ASSUME fault' = None PROVE References'
  <2>1. /\ HeldIn(w) = w.in /\ HeldOut(w) = w.out /\ HeldPtr(w) = None
        /\ HeldIn(w') = w.in /\ HeldOut(w') = w.out /\ HeldPtr(w') = None
    BY <1>0, <1>12 DEF HeldIn, HeldOut, HeldPtr, InputHeld, OutputHeld
  <2>2. w'.ret.entry = w.ret.entry /\ w.ret.entry = None
    BY <1>0, <1>12 DEF WorkerOK, CallOK, Returned, NoLease
  <2>3. ASSUME NEW f \in Entries
        PROVE  Count(w', backbuf', gui', f)
                 = Count(w, backbuf, gui, f) - One(None, f) + One(None, f)
    BY <1>1, <2>1, <2>2, EntriesAssumption DEF Count, One
  <2>. QED BY <1>0, <1>1, <1>9, <2>3, <1>6, ReferencesStep DEF Keeps, Live
<1>. QED BY <1>0, <1>27, <1>28 DEF Inv

\* A line is locked for reading or unlocked by the worker, and the pixels of o may change.
SamePlace(L, M, o) ==
    /\ DOMAIN M = DOMAIN L
    /\ \A f \in DOMAIN L :
         /\ M[f] \in LineRec /\ M[f].refs = L[f].refs /\ M[f].drift = L[f].drift
         /\ M[f].hash = L[f].hash /\ M[f].writer = L[f].writer
         /\ M[f].auto_destroy = L[f].auto_destroy
         /\ "gui" \in M[f].readers <=> "gui" \in L[f].readers
         /\ f # o => M[f].pixels = L[f].pixels

\* The counts, the backbuffer and the GUI do not depend on it.
LEMMA SamePlaceKeeps ==
    ASSUME NEW L, NEW M, NEW o, TableOK(L), SamePlace(L, M, o), NEW c, NEW b, NEW g,
           BackbufOK(b, c, L), GuiOK(g, L)
    PROVE  /\ TableOK(M) /\ Moves(L, M, None, None) /\ NoLoss(L, M) /\ Unheld(L, M)
           /\ BackbufOK(b, c, M) /\ GuiOK(g, M)
<1>1. \A e, f \in DOMAIN L : M[e].hash = M[f].hash => e = f
  BY DEF SamePlace, TableOK
<1>2. TableOK(M) /\ Moves(L, M, None, None) /\ NoLoss(L, M) /\ Unheld(L, M)
  BY <1>1, EditLine DEF SamePlace
<1>3. BackbufOK(b, c, M)
  BY DEF BackbufOK, SamePlace
<1>4. GuiOK(g, M)
  BY DEF GuiOK, SamePlace
<1>. QED BY <1>2, <1>3, <1>4

\* What a module writes, or leaves when it fails.
LEMMA ProcessEdit ==
    ASSUME TableOK(lines), NEW o \in Live, NEW i, NEW P \in Hashes \cup {NoHash, Garbled},
           lines' = [ReadLocked(lines, i, FALSE) EXCEPT ![o].pixels = P]
    PROVE  SamePlace(lines, lines', o) /\ lines'[o].pixels = P
<1>. DEFINE R == ReadLocked(lines, i, FALSE)
<1>1. /\ DOMAIN R = Live
      /\ \A f \in Live :
           /\ R[f] \in LineRec /\ R[f].refs = lines[f].refs /\ R[f].drift = lines[f].drift
           /\ R[f].hash = lines[f].hash /\ R[f].writer = lines[f].writer
           /\ R[f].auto_destroy = lines[f].auto_destroy /\ R[f].pixels = lines[f].pixels
           /\ "gui" \in R[f].readers <=> "gui" \in lines[f].readers
  BY DEF ReadLocked, TableOK, LineRec, Live
<1>. HIDE DEF R
<1>2. lines' = [R EXCEPT ![o].pixels = P]
  BY DEF R
<1>3. DOMAIN lines' = Live /\ \A f \in Live : f # o => lines'[f] = R[f]
  BY <1>1, <1>2
<1>4. lines'[o] = [R[o] EXCEPT !.pixels = P] /\ R[o] \in LineRec
  BY <1>1, <1>2
<1>5. ASSUME NEW r \in LineRec
      PROVE  /\ [r EXCEPT !.pixels = P] \in LineRec /\ [r EXCEPT !.pixels = P].refs = r.refs
             /\ [r EXCEPT !.pixels = P].drift = r.drift /\ [r EXCEPT !.pixels = P].hash = r.hash
             /\ [r EXCEPT !.pixels = P].writer = r.writer
             /\ [r EXCEPT !.pixels = P].auto_destroy = r.auto_destroy
             /\ [r EXCEPT !.pixels = P].readers = r.readers /\ [r EXCEPT !.pixels = P].pixels = P
  BY DEF LineRec
<1>6. /\ lines'[o] \in LineRec /\ lines'[o].refs = R[o].refs /\ lines'[o].drift = R[o].drift
      /\ lines'[o].hash = R[o].hash /\ lines'[o].writer = R[o].writer
      /\ lines'[o].auto_destroy = R[o].auto_destroy /\ lines'[o].readers = R[o].readers
      /\ lines'[o].pixels = P
  BY <1>4, <1>5
<1>7. ASSUME NEW f \in Live
      PROVE  /\ lines'[f] \in LineRec /\ lines'[f].refs = lines[f].refs
             /\ lines'[f].drift = lines[f].drift
             /\ lines'[f].hash = lines[f].hash /\ lines'[f].writer = lines[f].writer
             /\ lines'[f].auto_destroy = lines[f].auto_destroy
             /\ "gui" \in lines'[f].readers <=> "gui" \in lines[f].readers
             /\ f # o => lines'[f].pixels = lines[f].pixels
  <2>1. CASE f = o
    BY <1>1, <1>6, <2>1
  <2>2. CASE f # o
    BY <1>1, <1>3, <2>2
  <2>. QED BY <2>1, <2>2
<1>. QED BY <1>3, <1>6, <1>7 DEF SamePlace, Live

\* The input is locked for reading.
LEMMA BeginStep ==
    ASSUME Inv, fault = None, Begin
    PROVE  Inv'
<1>0. /\ Content /\ References /\ TableOK(lines) /\ HintOK(hint)
      /\ WorkerOK(w, lines, shutdown, reused) /\ WorkerType(w) /\ w.pc = "begin"
      /\ BackbufOK(backbuf, w, lines) /\ GuiOK(gui, lines)
  BY DEF Inv, Content, WorkerOK, Begin, At
<1>1. UNCHANGED <<hint, shutdown, backbuf, gui, runs, flushes, over, reused>>
  BY DEF Begin, Only
<1>2. SamePlace(lines, lines', None) /\ (w.in \in Live => "worker" \in lines'[w.in].readers)
  BY <1>0 DEF Begin, ReadLocked, TableOK, LineRec, SamePlace, Live
<1>3. None \notin Live
  BY <1>0, EntriesAssumption DEF TableOK, Live
<1>4. /\ TableOK(lines') /\ Moves(lines, lines', None, None) /\ NoLoss(lines, lines')
      /\ Unheld(lines, lines') /\ BackbufOK(backbuf, w, lines') /\ GuiOK(gui, lines')
  BY <1>0, <1>2, SamePlaceKeeps
<1>5. fault' = None => (w.in = None \/ w.in \in Live)
  BY DEF Begin, TouchInput, Exists, None
<1>6. fault' \in Places \cup {None}
  BY DEF Begin, Touch, TouchInput, Places
<1>7. /\ w'.pc = "process" /\ w'.node = w.node /\ w'.history = w.history /\ w'.target = w.target
      /\ w'.in = w.in
      /\ w'.out = w.out /\ w'.ptr = w.ptr /\ w'.old = w.old /\ w'.ret = w.ret /\ w'.after = w.after
  BY <1>0 DEF Begin, WorkerType, Goto
<1>8. WorkerType(w')
  BY <1>0, PcsFacts DEF Begin, WorkerType, Goto
<1>9. CallOK(w')
  BY <1>0, <1>1, <1>7, <1>8, <1>2, <1>3 DEF WorkerOK, CallOK, Returned, Swapping, OutHash, hash,
     NoLease, SamePlace, Live
<1>10. WriterOK(w', lines')
  BY <1>0, <1>1, <1>7, <1>8, <1>2, <1>3 DEF WorkerOK, WriterOK, Writing, OutHash, hash, SamePlace,
     Live
<1>11. RekeyOK(w', lines')
  BY <1>0, <1>1, <1>7, <1>8, <1>2, <1>3 DEF WorkerOK, RekeyOK, OutHash, hash, SamePlace, Live
<1>12. InputOK(w', lines', reused')
  BY <1>0, <1>1, <1>7, <1>8, <1>2, <1>3 DEF WorkerOK, InputOK, OutHash, SamePlace, Live
<1>13. ShownOK(w', lines', shutdown', reused')
  BY <1>0, <1>1, <1>7, <1>8, <1>2, <1>3 DEF WorkerOK, ShownOK, Shown, OutHash, hash, SamePlace, Live
<1>14. FinalOK(w', lines')
  BY <1>0, <1>1, <1>7, <1>8, <1>2, <1>3 DEF WorkerOK, FinalOK, Swapping, OutHash, SamePlace, Live
<1>15. TrueOK(w', lines', shutdown', reused')
  BY <1>0, <1>1, <1>7, <1>8, <1>2, <1>3 DEF WorkerOK, TrueOK, Withdrawn, SamePlace, Live
<1>16. WorkerOK(w', lines', shutdown', reused')
  BY <1>8, <1>9, <1>10, <1>11, <1>12, <1>13, <1>14, <1>15 DEF WorkerOK
<1>17. BackbufOK(backbuf', w', lines')
  BY <1>0, <1>1, <1>4, <1>7 DEF BackbufOK
<1>18. GuiOK(gui', lines')
  BY <1>1, <1>4
<1>19. Content'
  BY <1>0, <1>1, <1>18, <1>4, <1>7, <1>16, <1>6, <1>17, <1>5, <1>2 DEF Content, InputLive,
     SamePlace, Live
<1>20. ASSUME fault' = None PROVE References'
  <2>1. /\ HeldIn(w) = w.in /\ HeldOut(w) = w.out /\ HeldPtr(w) = None
        /\ HeldIn(w') = w.in /\ HeldOut(w') = w.out /\ HeldPtr(w') = None
    BY <1>0, <1>7 DEF HeldIn, HeldOut, HeldPtr, InputHeld, OutputHeld
  <2>2. w'.ret.entry = w.ret.entry /\ w.ret.entry = None
    BY <1>0, <1>7 DEF WorkerOK, CallOK, Returned, NoLease
  <2>3. ASSUME NEW f \in Entries
        PROVE  Count(w', backbuf', gui', f)
                 = Count(w, backbuf, gui, f) - One(None, f) + One(None, f)
    BY <1>1, <2>1, <2>2, EntriesAssumption DEF Count, One
  <2>. QED BY <1>0, <1>1, <1>4, <2>3, <1>2, ReferencesStep DEF SamePlace, Live
<1>. QED BY <1>0, <1>19, <1>20 DEF Inv

\* A module has run.
LEMMA ComputeStep ==
    ASSUME Inv, fault = None, Compute
    PROVE  Inv'
<1>0. /\ Content /\ References /\ TableOK(lines) /\ HintOK(hint)
      /\ WorkerOK(w, lines, shutdown, reused) /\ WorkerType(w) /\ w.pc = "process"
      /\ BackbufOK(backbuf, w, lines) /\ GuiOK(gui, lines)
  BY DEF Inv, Content, WorkerOK, Compute, At
<1>1. UNCHANGED <<hint, fault, shutdown, backbuf, gui, runs, flushes, over, reused>>
  BY DEF Compute, Only
<1>2. OutHash(w) \in Hashes /\ hash = OutHash(w) /\ Len(hash) = w.node
  BY <1>0, HashOK DEF WorkerOK, hash, OutHash
<1>3. w.out \in Live /\ lines[w.out].writer /\ lines[w.out].hash = hash
  BY <1>0 DEF WorkerOK, WriterOK, Writing, OutHash, hash, Live
<1>4. /\ (IF InputRight THEN hash ELSE Garbled) \in Hashes \cup {NoHash, Garbled}
      /\ lines' = [ReadLocked(lines, w.in, FALSE) EXCEPT
                      ![w.out].pixels = IF InputRight THEN hash ELSE Garbled]
  BY <1>2 DEF Compute
<1>5. ~reused => InputRight
  BY <1>0 DEF Inv, Content, WorkerOK, InputOK, InputLive, InputRight, Live
<1>6. \A f \in Live : lines[f].hash = hash => f = w.out
  BY <1>0, <1>3 DEF TableOK, Live
<1>7. SamePlace(lines, lines', w.out) /\ lines'[w.out].pixels = (IF InputRight THEN hash ELSE Garbled)
  BY <1>0, <1>2, <1>3, <1>4, ProcessEdit
<1>8. /\ TableOK(lines') /\ Moves(lines, lines', None, None) /\ NoLoss(lines, lines')
      /\ Unheld(lines, lines') /\ BackbufOK(backbuf, w, lines') /\ GuiOK(gui, lines')
  BY <1>0, <1>7, SamePlaceKeeps
<1>9. /\ w'.pc = "publish" /\ w'.node = w.node /\ w'.history = w.history /\ w'.target = w.target
      /\ w'.in = w.in
      /\ w'.out = w.out /\ w'.ptr = w.ptr /\ w'.old = w.old /\ w'.ret = w.ret /\ w'.after = w.after
  BY <1>0 DEF Compute, WorkerType, Goto
<1>10. WorkerType(w')
  BY <1>0, PcsFacts DEF Compute, WorkerType, Goto
<1>11. CallOK(w')
  BY <1>0, <1>1, <1>9, <1>10, <1>2, <1>3, <1>7, <1>5, <1>6 DEF WorkerOK, CallOK, Returned,
     Swapping, OutHash, hash, NoLease, SamePlace, Live
<1>12. WriterOK(w', lines')
  BY <1>0, <1>1, <1>9, <1>10, <1>2, <1>3, <1>7, <1>5, <1>6 DEF WorkerOK, WriterOK, Writing,
     OutHash, hash, SamePlace, Live
<1>13. RekeyOK(w', lines')
  BY <1>0, <1>1, <1>9, <1>10, <1>2, <1>3, <1>7, <1>5, <1>6 DEF WorkerOK, RekeyOK, OutHash, hash,
     SamePlace, Live
<1>14. InputOK(w', lines', reused')
  BY <1>0, <1>1, <1>9, <1>10, <1>2, <1>3, <1>7, <1>5, <1>6 DEF WorkerOK, InputOK, OutHash,
     SamePlace, Live
<1>15. ShownOK(w', lines', shutdown', reused')
  BY <1>0, <1>1, <1>9, <1>10, <1>2, <1>3, <1>7, <1>5, <1>6 DEF WorkerOK, ShownOK, Shown, OutHash,
     hash, SamePlace, Live
<1>16. FinalOK(w', lines')
  BY <1>0, <1>1, <1>9, <1>10, <1>2, <1>3, <1>7, <1>5, <1>6 DEF WorkerOK, FinalOK, Swapping,
     OutHash, SamePlace, Live
<1>17. TrueOK(w', lines', shutdown', reused')
  BY <1>0, <1>1, <1>9, <1>10, <1>2, <1>3, <1>7, <1>5, <1>6 DEF WorkerOK, TrueOK, Withdrawn,
     SamePlace, Live
<1>18. WorkerOK(w', lines', shutdown', reused')
  BY <1>10, <1>11, <1>12, <1>13, <1>14, <1>15, <1>16, <1>17 DEF WorkerOK
<1>19. BackbufOK(backbuf', w', lines')
  BY <1>0, <1>1, <1>8, <1>9 DEF BackbufOK
<1>20. GuiOK(gui', lines')
  BY <1>1, <1>8
<1>21. Content'
  BY <1>0, <1>1, <1>20, <1>8, <1>9, <1>18, <1>19 DEF Content, InputLive
<1>22. ASSUME fault' = None PROVE References'
  <2>1. /\ HeldIn(w) = w.in /\ HeldOut(w) = w.out /\ HeldPtr(w) = None
        /\ HeldIn(w') = w.in /\ HeldOut(w') = w.out /\ HeldPtr(w') = None
    BY <1>0, <1>9 DEF HeldIn, HeldOut, HeldPtr, InputHeld, OutputHeld
  <2>2. w'.ret.entry = w.ret.entry /\ w.ret.entry = None
    BY <1>0, <1>9 DEF WorkerOK, CallOK, Returned, NoLease
  <2>3. ASSUME NEW f \in Entries
        PROVE  Count(w', backbuf', gui', f)
                 = Count(w, backbuf, gui, f) - One(None, f) + One(None, f)
    BY <1>1, <2>1, <2>2, EntriesAssumption DEF Count, One
  <2>. QED BY <1>0, <1>1, <1>8, <2>3, <1>7, ReferencesStep DEF SamePlace, Live
<1>. QED BY <1>0, <1>21, <1>22 DEF Inv

\* A module saw the switch and stopped.
LEMMA InterruptedStep ==
    ASSUME Inv, fault = None, Interrupted
    PROVE  Inv'
<1>0. /\ Content /\ References /\ TableOK(lines) /\ HintOK(hint)
      /\ WorkerOK(w, lines, shutdown, reused) /\ WorkerType(w) /\ w.pc = "process"
      /\ BackbufOK(backbuf, w, lines) /\ GuiOK(gui, lines)
  BY DEF Inv, Content, WorkerOK, Interrupted, At
<1>1. UNCHANGED <<hint, fault, shutdown, backbuf, gui, runs, flushes, over, reused>>
  BY DEF Interrupted, Only
<1>2. OutHash(w) \in Hashes /\ hash = OutHash(w) /\ Len(hash) = w.node
  BY <1>0, HashOK DEF WorkerOK, hash, OutHash
<1>3. w.out \in Live /\ lines[w.out].writer /\ lines[w.out].hash = hash
  BY <1>0 DEF WorkerOK, WriterOK, Writing, OutHash, hash, Live
<1>4. /\ Garbled \in Hashes \cup {NoHash, Garbled}
      /\ lines' = [ReadLocked(lines, w.in, FALSE) EXCEPT ![w.out].pixels = Garbled]
  BY DEF Interrupted
<1>5. shutdown
  BY DEF Interrupted
<1>6. SamePlace(lines, lines', w.out) /\ lines'[w.out].pixels = Garbled
  BY <1>0, <1>3, <1>4, ProcessEdit
<1>7. /\ TableOK(lines') /\ Moves(lines, lines', None, None) /\ NoLoss(lines, lines')
      /\ Unheld(lines, lines') /\ BackbufOK(backbuf, w, lines') /\ GuiOK(gui, lines')
  BY <1>0, <1>6, SamePlaceKeeps
<1>8. /\ w'.pc = "publish" /\ w'.node = w.node /\ w'.history = w.history /\ w'.target = w.target
      /\ w'.in = w.in
      /\ w'.out = w.out /\ w'.ptr = w.ptr /\ w'.old = w.old /\ w'.ret = w.ret /\ w'.after = w.after
  BY <1>0 DEF Interrupted, WorkerType, Goto
<1>9. WorkerType(w')
  BY <1>0, PcsFacts DEF Interrupted, WorkerType, Goto
<1>10. CallOK(w')
  BY <1>0, <1>1, <1>8, <1>9, <1>2, <1>3, <1>6, <1>5 DEF WorkerOK, CallOK, Returned, Swapping,
     OutHash, hash, NoLease, SamePlace, Live
<1>11. WriterOK(w', lines')
  BY <1>0, <1>1, <1>8, <1>9, <1>2, <1>3, <1>6, <1>5 DEF WorkerOK, WriterOK, Writing, OutHash, hash,
     SamePlace, Live
<1>12. RekeyOK(w', lines')
  BY <1>0, <1>1, <1>8, <1>9, <1>2, <1>3, <1>6, <1>5 DEF WorkerOK, RekeyOK, OutHash, hash,
     SamePlace, Live
<1>13. InputOK(w', lines', reused')
  BY <1>0, <1>1, <1>8, <1>9, <1>2, <1>3, <1>6, <1>5 DEF WorkerOK, InputOK, OutHash, SamePlace, Live
<1>14. ShownOK(w', lines', shutdown', reused')
  BY <1>0, <1>1, <1>8, <1>9, <1>2, <1>3, <1>6, <1>5 DEF WorkerOK, ShownOK, Shown, OutHash, hash,
     SamePlace, Live
<1>15. FinalOK(w', lines')
  BY <1>0, <1>1, <1>8, <1>9, <1>2, <1>3, <1>6, <1>5 DEF WorkerOK, FinalOK, Swapping, OutHash,
     SamePlace, Live
<1>16. TrueOK(w', lines', shutdown', reused')
  BY <1>0, <1>1, <1>8, <1>9, <1>2, <1>3, <1>6, <1>5 DEF WorkerOK, TrueOK, Withdrawn, SamePlace, Live
<1>17. WorkerOK(w', lines', shutdown', reused')
  BY <1>9, <1>10, <1>11, <1>12, <1>13, <1>14, <1>15, <1>16 DEF WorkerOK
<1>18. BackbufOK(backbuf', w', lines')
  BY <1>0, <1>1, <1>7, <1>8 DEF BackbufOK
<1>19. GuiOK(gui', lines')
  BY <1>1, <1>7
<1>20. Content'
  BY <1>0, <1>1, <1>19, <1>7, <1>8, <1>17, <1>18 DEF Content, InputLive
<1>21. ASSUME fault' = None PROVE References'
  <2>1. /\ HeldIn(w) = w.in /\ HeldOut(w) = w.out /\ HeldPtr(w) = None
        /\ HeldIn(w') = w.in /\ HeldOut(w') = w.out /\ HeldPtr(w') = None
    BY <1>0, <1>8 DEF HeldIn, HeldOut, HeldPtr, InputHeld, OutputHeld
  <2>2. w'.ret.entry = w.ret.entry /\ w.ret.entry = None
    BY <1>0, <1>8 DEF WorkerOK, CallOK, Returned, NoLease
  <2>3. ASSUME NEW f \in Entries
        PROVE  Count(w', backbuf', gui', f)
                 = Count(w, backbuf, gui, f) - One(None, f) + One(None, f)
    BY <1>1, <2>1, <2>2, EntriesAssumption DEF Count, One
  <2>. QED BY <1>0, <1>1, <1>7, <2>3, <1>6, ReferencesStep DEF SamePlace, Live
<1>. QED BY <1>0, <1>20, <1>21 DEF Inv

\* A module has failed.
LEMMA ProcessFailsStep ==
    ASSUME Inv, fault = None, ProcessFails
    PROVE  Inv'
<1>0. /\ Content /\ References /\ TableOK(lines) /\ HintOK(hint)
      /\ WorkerOK(w, lines, shutdown, reused) /\ WorkerType(w) /\ w.pc = "process"
      /\ BackbufOK(backbuf, w, lines) /\ GuiOK(gui, lines)
  BY DEF Inv, Content, WorkerOK, ProcessFails, At
<1>1. UNCHANGED <<hint, fault, shutdown, backbuf, gui, runs, flushes, over, reused>>
  BY DEF ProcessFails, Only
<1>2. OutHash(w) \in Hashes /\ hash = OutHash(w) /\ Len(hash) = w.node
  BY <1>0, HashOK DEF WorkerOK, hash, OutHash
<1>3. w.out \in Live /\ lines[w.out].writer /\ lines[w.out].hash = hash
  BY <1>0 DEF WorkerOK, WriterOK, Writing, OutHash, hash, Live
<1>4. /\ Garbled \in Hashes \cup {NoHash, Garbled}
      /\ lines' = [ReadLocked(lines, w.in, FALSE) EXCEPT ![w.out].pixels = Garbled]
  BY DEF ProcessFails
<1>5. SamePlace(lines, lines', w.out) /\ lines'[w.out].pixels = Garbled
  BY <1>0, <1>3, <1>4, ProcessEdit
<1>6. /\ TableOK(lines') /\ Moves(lines, lines', None, None) /\ NoLoss(lines, lines')
      /\ Unheld(lines, lines') /\ BackbufOK(backbuf, w, lines') /\ GuiOK(gui, lines')
  BY <1>0, <1>5, SamePlaceKeeps
<1>7. /\ w'.pc = "failing" /\ w'.node = w.node /\ w'.history = w.history /\ w'.target = w.target
      /\ w'.in = w.in
      /\ w'.out = w.out /\ w'.ptr = w.ptr /\ w'.old = w.old /\ w'.ret = w.ret /\ w'.after = w.after
  BY <1>0 DEF ProcessFails, WorkerType, Goto
<1>8. WorkerType(w')
  BY <1>0, PcsFacts DEF ProcessFails, WorkerType, Goto
<1>9. CallOK(w')
  BY <1>0, <1>1, <1>7, <1>8, <1>2, <1>3, <1>5 DEF WorkerOK, CallOK, Returned, Swapping, OutHash,
     hash, NoLease, SamePlace, Live
<1>10. WriterOK(w', lines')
  BY <1>0, <1>1, <1>7, <1>8, <1>2, <1>3, <1>5 DEF WorkerOK, WriterOK, Writing, OutHash, hash,
     SamePlace, Live
<1>11. RekeyOK(w', lines')
  BY <1>0, <1>1, <1>7, <1>8, <1>2, <1>3, <1>5 DEF WorkerOK, RekeyOK, OutHash, hash, SamePlace, Live
<1>12. InputOK(w', lines', reused')
  BY <1>0, <1>1, <1>7, <1>8, <1>2, <1>3, <1>5 DEF WorkerOK, InputOK, OutHash, SamePlace, Live
<1>13. ShownOK(w', lines', shutdown', reused')
  BY <1>0, <1>1, <1>7, <1>8, <1>2, <1>3, <1>5 DEF WorkerOK, ShownOK, Shown, OutHash, hash,
     SamePlace, Live
<1>14. FinalOK(w', lines')
  BY <1>0, <1>1, <1>7, <1>8, <1>2, <1>3, <1>5 DEF WorkerOK, FinalOK, Swapping, OutHash, SamePlace,
     Live
<1>15. TrueOK(w', lines', shutdown', reused')
  BY <1>0, <1>1, <1>7, <1>8, <1>2, <1>3, <1>5 DEF WorkerOK, TrueOK, Withdrawn, SamePlace, Live
<1>16. WorkerOK(w', lines', shutdown', reused')
  BY <1>8, <1>9, <1>10, <1>11, <1>12, <1>13, <1>14, <1>15 DEF WorkerOK
<1>17. BackbufOK(backbuf', w', lines')
  BY <1>0, <1>1, <1>6, <1>7 DEF BackbufOK
<1>18. GuiOK(gui', lines')
  BY <1>1, <1>6
<1>19. Content'
  BY <1>0, <1>1, <1>18, <1>6, <1>7, <1>16, <1>17 DEF Content, InputLive
<1>20. ASSUME fault' = None PROVE References'
  <2>1. /\ HeldIn(w) = w.in /\ HeldOut(w) = w.out /\ HeldPtr(w) = None
        /\ HeldIn(w') = w.in /\ HeldOut(w') = w.out /\ HeldPtr(w') = None
    BY <1>0, <1>7 DEF HeldIn, HeldOut, HeldPtr, InputHeld, OutputHeld
  <2>2. w'.ret.entry = w.ret.entry /\ w.ret.entry = None
    BY <1>0, <1>7 DEF WorkerOK, CallOK, Returned, NoLease
  <2>3. ASSUME NEW f \in Entries
        PROVE  Count(w', backbuf', gui', f)
                 = Count(w, backbuf, gui, f) - One(None, f) + One(None, f)
    BY <1>1, <2>1, <2>2, EntriesAssumption DEF Count, One
  <2>. QED BY <1>0, <1>1, <1>6, <2>3, <1>5, ReferencesStep DEF SamePlace, Live
<1>. QED BY <1>0, <1>19, <1>20 DEF Inv

\* The write lock or the mark of o changes.
Relabels(L, M, o) ==
    /\ DOMAIN M = DOMAIN L /\ \A f \in DOMAIN L : f # o => M[f] = L[f]
    /\ o \in DOMAIN L =>
         /\ M[o] \in LineRec /\ M[o].refs = L[o].refs /\ M[o].drift = L[o].drift
         /\ M[o].hash = L[o].hash /\ M[o].pixels = L[o].pixels /\ M[o].readers = L[o].readers

\* The counts, the backbuffer and the GUI do not depend on it.
LEMMA RelabelKeeps ==
    ASSUME NEW L, NEW M, NEW o, TableOK(L), Relabels(L, M, o), NEW c, NEW b, NEW g,
           BackbufOK(b, c, L), GuiOK(g, L)
    PROVE  /\ TableOK(M) /\ Moves(L, M, None, None) /\ NoLoss(L, M) /\ Unheld(L, M)
           /\ BackbufOK(b, c, M) /\ GuiOK(g, M)
<1>1. \A f \in DOMAIN L :
        /\ M[f] \in LineRec /\ M[f].refs = L[f].refs /\ M[f].drift = L[f].drift
        /\ M[f].hash = L[f].hash /\ M[f].readers = L[f].readers
  BY DEF Relabels, TableOK
<1>2. DOMAIN M = DOMAIN L
  BY DEF Relabels
<1>3. \A e, f \in DOMAIN L : M[e].hash = M[f].hash => e = f
  BY <1>1 DEF TableOK
<1>4. TableOK(M) /\ Moves(L, M, None, None) /\ NoLoss(L, M) /\ Unheld(L, M)
  BY <1>1, <1>2, <1>3, EditLine
<1>5. BackbufOK(b, c, M)
  BY <1>1, <1>2 DEF BackbufOK
<1>6. GuiOK(g, M)
  BY <1>1, <1>2 DEF GuiOK
<1>. QED BY <1>4, <1>5, <1>6

\* A line that is unlocked.
LEMMA UnlockLine ==
    ASSUME NEW r \in LineRec
    PROVE  /\ [r EXCEPT !.writer = FALSE] \in LineRec
           /\ [r EXCEPT !.writer = FALSE].refs = r.refs
           /\ [r EXCEPT !.writer = FALSE].drift = r.drift
           /\ [r EXCEPT !.writer = FALSE].hash = r.hash
           /\ [r EXCEPT !.writer = FALSE].pixels = r.pixels
           /\ [r EXCEPT !.writer = FALSE].readers = r.readers
           /\ [r EXCEPT !.writer = FALSE].writer = FALSE
           /\ [r EXCEPT !.writer = FALSE].auto_destroy = r.auto_destroy
BY DEF LineRec

\* A line that is marked.
LEMMA MarkLine ==
    ASSUME NEW r \in LineRec
    PROVE  /\ [r EXCEPT !.auto_destroy = TRUE] \in LineRec
           /\ [r EXCEPT !.auto_destroy = TRUE].refs = r.refs
           /\ [r EXCEPT !.auto_destroy = TRUE].drift = r.drift
           /\ [r EXCEPT !.auto_destroy = TRUE].hash = r.hash
           /\ [r EXCEPT !.auto_destroy = TRUE].pixels = r.pixels
           /\ [r EXCEPT !.auto_destroy = TRUE].readers = r.readers
           /\ [r EXCEPT !.auto_destroy = TRUE].writer = r.writer
           /\ [r EXCEPT !.auto_destroy = TRUE].auto_destroy = TRUE
BY DEF LineRec

\* The error path gives the write lock up.
LEMMA FailingUnlockStep ==
    ASSUME Inv, fault = None, FailingUnlock
    PROVE  Inv'
<1>0. /\ Content /\ References /\ TableOK(lines) /\ HintOK(hint)
      /\ WorkerOK(w, lines, shutdown, reused) /\ WorkerType(w) /\ w.pc = "failing"
      /\ BackbufOK(backbuf, w, lines) /\ GuiOK(gui, lines)
  BY DEF Inv, Content, WorkerOK, FailingUnlock, At
<1>1. UNCHANGED <<fault, shutdown, backbuf, gui, runs, flushes, over, reused>>
  BY DEF FailingUnlock, Only
<1>2. w.out \in Live /\ lines[w.out].writer /\ lines[w.out].hash = hash /\ lines[w.out] \in LineRec
  BY <1>0 DEF WorkerOK, WriterOK, Writing, OutHash, hash, Live, TableOK
<1>3. /\ DOMAIN lines' = Live /\ \A f \in Live : f # w.out => lines'[f] = lines[f]
      /\ lines'[w.out] = [lines[w.out] EXCEPT !.writer = FALSE]
  BY <1>2 DEF FailingUnlock, Live
<1>4. Relabels(lines, lines', w.out) /\ lines'[w.out].writer = FALSE
  BY <1>2, <1>3, UnlockLine DEF Relabels, Live
<1>5. /\ TableOK(lines') /\ Moves(lines, lines', None, None) /\ NoLoss(lines, lines')
      /\ Unheld(lines, lines') /\ BackbufOK(backbuf, w, lines') /\ GuiOK(gui, lines')
  BY <1>0, <1>4, RelabelKeeps
<1>6. /\ w'.pc = "dropin" /\ w'.node = w.node /\ w'.history = w.history /\ w'.target = w.target
      /\ w'.in = w.in
      /\ w'.out = w.out /\ w'.ptr = w.ptr /\ w'.old = w.old /\ w'.ret = w.ret /\ w'.after = w.after
  BY <1>0 DEF FailingUnlock, WorkerType, Goto
<1>7. WorkerType(w')
  BY <1>0, PcsFacts DEF FailingUnlock, WorkerType, Goto
<1>8. HintOK(hint')
  BY <1>0, ResetOK DEF FailingUnlock
<1>9. CallOK(w')
  BY <1>0, <1>1, <1>6, <1>7, <1>2, <1>4 DEF WorkerOK, CallOK, Returned, Swapping, OutHash, hash,
     NoLease, Relabels, Live
<1>10. WriterOK(w', lines')
  BY <1>0, <1>1, <1>6, <1>7, <1>2, <1>4 DEF WorkerOK, WriterOK, Writing, OutHash, hash, Relabels,
     Live
<1>11. RekeyOK(w', lines')
  BY <1>0, <1>1, <1>6, <1>7, <1>2, <1>4 DEF WorkerOK, RekeyOK, OutHash, hash, Relabels, Live
<1>12. InputOK(w', lines', reused')
  BY <1>0, <1>1, <1>6, <1>7, <1>2, <1>4 DEF WorkerOK, InputOK, OutHash, Relabels, Live
<1>13. ShownOK(w', lines', shutdown', reused')
  BY <1>0, <1>1, <1>6, <1>7, <1>2, <1>4 DEF WorkerOK, ShownOK, Shown, OutHash, hash, Relabels, Live
<1>14. FinalOK(w', lines')
  BY <1>0, <1>1, <1>6, <1>7, <1>2, <1>4 DEF WorkerOK, FinalOK, Swapping, OutHash, Relabels, Live
<1>15. TrueOK(w', lines', shutdown', reused')
  BY <1>0, <1>1, <1>6, <1>7, <1>2, <1>4 DEF WorkerOK, TrueOK, Withdrawn, Relabels, Live
<1>16. WorkerOK(w', lines', shutdown', reused')
  BY <1>7, <1>9, <1>10, <1>11, <1>12, <1>13, <1>14, <1>15 DEF WorkerOK
<1>17. BackbufOK(backbuf', w', lines')
  BY <1>0, <1>1, <1>5, <1>6 DEF BackbufOK
<1>18. GuiOK(gui', lines')
  BY <1>1, <1>5
<1>19. Content'
  BY <1>0, <1>1, <1>18, <1>5, <1>6, <1>16, <1>8, <1>17 DEF Content, InputLive
<1>20. ASSUME fault' = None PROVE References'
  <2>1. /\ HeldIn(w) = w.in /\ HeldOut(w) = w.out /\ HeldPtr(w) = None
        /\ HeldIn(w') = w.in /\ HeldOut(w') = w.out /\ HeldPtr(w') = None
    BY <1>0, <1>6 DEF HeldIn, HeldOut, HeldPtr, InputHeld, OutputHeld
  <2>2. w'.ret.entry = w.ret.entry /\ w.ret.entry = None
    BY <1>0, <1>6 DEF WorkerOK, CallOK, Returned, NoLease
  <2>3. ASSUME NEW f \in Entries
        PROVE  Count(w', backbuf', gui', f)
                 = Count(w, backbuf, gui, f) - One(None, f) + One(None, f)
    BY <1>1, <2>1, <2>2, EntriesAssumption DEF Count, One
  <2>. QED BY <1>0, <1>1, <1>5, <2>3, <1>4, ReferencesStep DEF Relabels, Live
<1>. QED BY <1>0, <1>19, <1>20 DEF Inv

\* The output is unlocked.
LEMMA PublishStep ==
    ASSUME Inv, fault = None, Publish
    PROVE  Inv'
<1>0. /\ Content /\ References /\ TableOK(lines) /\ HintOK(hint)
      /\ WorkerOK(w, lines, shutdown, reused) /\ WorkerType(w) /\ w.pc = "publish"
      /\ BackbufOK(backbuf, w, lines) /\ GuiOK(gui, lines)
  BY DEF Inv, Content, WorkerOK, Publish, At
<1>1. UNCHANGED <<fault, shutdown, backbuf, gui, runs, flushes, over, reused>>
  BY DEF Publish, Only
<1>2. OutHash(w) \in Hashes /\ hash = OutHash(w) /\ Len(hash) = w.node
  BY <1>0, HashOK DEF WorkerOK, hash, OutHash
<1>3. w.out \in Live /\ lines[w.out].writer /\ lines[w.out].hash = hash /\ lines[w.out] \in LineRec
  BY <1>0 DEF WorkerOK, WriterOK, Writing, OutHash, hash, Live, TableOK
<1>4. (lines[w.out].auto_destroy \/ (w.bypass /\ ~IsFinal)) \in BOOLEAN
  BY <1>0, <1>3 DEF LineRec, WorkerType
<1>5. /\ DOMAIN lines' = Live /\ \A f \in Live : f # w.out => lines'[f] = lines[f]
      /\ lines'[w.out] = [[lines[w.out] EXCEPT !.writer = FALSE] EXCEPT
                             !.auto_destroy = (lines[w.out].auto_destroy \/ (w.bypass /\ ~IsFinal))]
  BY <1>3 DEF Publish, Live
<1>6. PICK r \in LineRec, a \in BOOLEAN :
        /\ r = lines[w.out]
        /\ lines'[w.out] = [[r EXCEPT !.writer = FALSE] EXCEPT !.auto_destroy = a]
  BY <1>3, <1>4, <1>5, Zenon
<1>7. PICK q : q = [[r EXCEPT !.writer = FALSE] EXCEPT !.auto_destroy = a]
  OBVIOUS
<1>8. /\ q \in LineRec /\ q.refs = r.refs /\ q.drift = r.drift /\ q.hash = r.hash
      /\ q.pixels = r.pixels /\ q.readers = r.readers /\ q.writer = FALSE
  BY <1>7 DEF LineRec
<1>9. /\ lines'[w.out] \in LineRec /\ lines'[w.out].refs = lines[w.out].refs
      /\ lines'[w.out].drift = lines[w.out].drift
      /\ lines'[w.out].hash = lines[w.out].hash /\ lines'[w.out].pixels = lines[w.out].pixels
      /\ lines'[w.out].readers = lines[w.out].readers /\ lines'[w.out].writer = FALSE
  BY <1>6, <1>7, <1>8
<1>10. Relabels(lines, lines', w.out) /\ lines'[w.out].writer = FALSE
  BY <1>3, <1>5, <1>9 DEF Relabels, Live
<1>11. /\ TableOK(lines') /\ Moves(lines, lines', None, None) /\ NoLoss(lines, lines')
       /\ Unheld(lines, lines') /\ BackbufOK(backbuf, w, lines') /\ GuiOK(gui, lines')
  BY <1>0, <1>10, RelabelKeeps
<1>12. [hash |-> hash, entry |-> w.out] \in Leases
  BY <1>0, <1>2 DEF WorkerType, Leases
<1>13. /\ w'.pc = "published" /\ w'.node = w.node /\ w'.history = w.history /\ w'.target = w.target
       /\ w'.in = w.in
       /\ w'.out = w.out /\ w'.ptr = w.ptr /\ w'.old = w.old /\ w'.ret = w.ret /\ w'.after = w.after
  BY <1>0 DEF Publish, WorkerType, Goto
<1>14. WorkerType(w')
  BY <1>0, PcsFacts DEF Publish, WorkerType, Goto
<1>15. ~shutdown /\ ~reused => lines[w.out].pixels = lines[w.out].hash
  BY <1>0, <1>3 DEF WorkerOK, ShownOK, OutHash, hash, Live
<1>16. HintOK(hint')
  BY <1>0, <1>12, <1>2 DEF Publish, SetHint, IsFinal, HintOK
<1>17. CallOK(w')
  BY <1>0, <1>1, <1>13, <1>14, <1>2, <1>3, <1>10, <1>15 DEF WorkerOK, CallOK, Returned, Swapping,
     OutHash, hash, NoLease, Relabels, Live
<1>18. WriterOK(w', lines')
  BY <1>0, <1>1, <1>13, <1>14, <1>2, <1>3, <1>10, <1>15 DEF WorkerOK, WriterOK, Writing, OutHash,
     hash, Relabels, Live
<1>19. RekeyOK(w', lines')
  BY <1>0, <1>1, <1>13, <1>14, <1>2, <1>3, <1>10, <1>15 DEF WorkerOK, RekeyOK, OutHash, hash,
     Relabels, Live
<1>20. InputOK(w', lines', reused')
  BY <1>0, <1>1, <1>13, <1>14, <1>2, <1>3, <1>10, <1>15 DEF WorkerOK, InputOK, OutHash, Relabels,
     Live
<1>21. ShownOK(w', lines', shutdown', reused')
  BY <1>0, <1>1, <1>13, <1>14, <1>2, <1>3, <1>10, <1>15 DEF WorkerOK, ShownOK, Shown, OutHash,
     hash, Relabels, Live
<1>22. FinalOK(w', lines')
  BY <1>0, <1>1, <1>13, <1>14, <1>2, <1>3, <1>10, <1>15 DEF WorkerOK, FinalOK, Swapping, OutHash,
     Relabels, Live
<1>23. TrueOK(w', lines', shutdown', reused')
  BY <1>0, <1>1, <1>13, <1>14, <1>2, <1>3, <1>10, <1>15 DEF WorkerOK, TrueOK, Withdrawn, Relabels,
     Live
<1>24. WorkerOK(w', lines', shutdown', reused')
  BY <1>14, <1>17, <1>18, <1>19, <1>20, <1>21, <1>22, <1>23 DEF WorkerOK
<1>25. BackbufOK(backbuf', w', lines')
  BY <1>0, <1>1, <1>11, <1>13 DEF BackbufOK
<1>26. GuiOK(gui', lines')
  BY <1>1, <1>11
<1>27. Content'
  BY <1>0, <1>1, <1>26, <1>11, <1>13, <1>24, <1>16, <1>25 DEF Content, InputLive
<1>28. ASSUME fault' = None PROVE References'
  <2>1. /\ HeldIn(w) = w.in /\ HeldOut(w) = w.out /\ HeldPtr(w) = None
        /\ HeldIn(w') = w.in /\ HeldOut(w') = w.out /\ HeldPtr(w') = None
    BY <1>0, <1>13 DEF HeldIn, HeldOut, HeldPtr, InputHeld, OutputHeld
  <2>2. w'.ret.entry = w.ret.entry /\ w.ret.entry = None
    BY <1>0, <1>13 DEF WorkerOK, CallOK, Returned, NoLease
  <2>3. ASSUME NEW f \in Entries
        PROVE  Count(w', backbuf', gui', f)
                 = Count(w, backbuf, gui, f) - One(None, f) + One(None, f)
    BY <1>1, <2>1, <2>2, EntriesAssumption DEF Count, One
  <2>. QED BY <1>0, <1>1, <1>11, <2>3, <1>10, ReferencesStep DEF Relabels, Live
<1>. QED BY <1>0, <1>27, <1>28 DEF Inv

\* A new line, which nobody else knows of.
LEMMA AcquireCreateStep ==
    ASSUME Inv, fault = None, NEW e \in Entries, AcquireCreate(e)
    PROVE  Inv'
<1>0. /\ Content /\ References /\ TableOK(lines) /\ HintOK(hint)
      /\ WorkerOK(w, lines, shutdown, reused) /\ WorkerType(w) /\ w.pc = "acquire"
      /\ BackbufOK(backbuf, w, lines) /\ GuiOK(gui, lines)
  BY DEF Inv, Content, WorkerOK, AcquireCreate, At
<1>1. UNCHANGED <<fault, shutdown, backbuf, gui, runs, flushes, over, reused>>
  BY DEF AcquireCreate, Only
<1>2. OutHash(w) \in Hashes /\ hash = OutHash(w) /\ Len(hash) = w.node
  BY <1>0, HashOK DEF WorkerOK, hash, OutHash
<1>3. /\ DOMAIN lines' = (Live \ Stale(hash)) \cup {e} /\ lines'[e] = NewLine(hash)
      /\ \A f \in Live \ Stale(hash) : f # e /\ lines'[f] = lines[f]
  BY DEF AcquireCreate
<1>4. /\ lines'[e] \in LineRec /\ lines'[e].hash = hash /\ lines'[e].writer = TRUE
      /\ lines'[e].readers = {}
      /\ lines'[e].refs = 1 /\ lines'[e].drift = 0
  BY <1>2, <1>3 DEF NewLine, LineRec
<1>5. \A f \in Live \ Stale(hash) : lines[f].hash # hash
  BY DEF AcquireCreate, Stale, ExactHit, Found
<1>6. TableOK(lines')
  BY <1>0, <1>3, <1>4, <1>5 DEF TableOK, Live
<1>7. e # w.in /\ e # w.out /\ e # w.ptr /\ e # w.ret.entry /\ e # gui.entry /\ e # backbuf.entry /\ e # None
  BY EntriesAssumption DEF AcquireCreate, Pointed
<1>8. HintOK(hint')
  BY <1>0, ForgetOK DEF AcquireCreate
<1>9. /\ w'.pc = "begin" /\ w'.node = w.node /\ w'.history = w.history /\ w'.target = w.target
      /\ w'.in = w.in
      /\ w'.out = e /\ w'.ptr = w.ptr /\ w'.old = w.old /\ w'.ret = w.ret /\ w'.after = w.after
  BY <1>0 DEF AcquireCreate, WorkerType, EntryOrNone
<1>10. WorkerType(w')
  BY <1>0, PcsFacts DEF AcquireCreate, WorkerType, EntryOrNone
<1>11. CallOK(w')
  BY <1>0, <1>1, <1>9, <1>10, <1>2, <1>3, <1>4, <1>7 DEF WorkerOK, CallOK, Returned, Swapping,
     OutHash, hash, NoLease, Live
<1>12. WriterOK(w', lines')
  BY <1>0, <1>1, <1>9, <1>10, <1>2, <1>3, <1>4, <1>7 DEF WorkerOK, WriterOK, Writing, OutHash,
     hash, Live
<1>13. RekeyOK(w', lines')
  BY <1>0, <1>1, <1>9, <1>10, <1>2, <1>3, <1>4, <1>7 DEF WorkerOK, RekeyOK, OutHash, hash, Live
<1>14. InputOK(w', lines', reused')
  BY <1>0, <1>1, <1>9, <1>10, <1>2, <1>3, <1>4, <1>7 DEF WorkerOK, InputOK, OutHash, Live
<1>15. ShownOK(w', lines', shutdown', reused')
  BY <1>0, <1>1, <1>9, <1>10, <1>2, <1>3, <1>4, <1>7 DEF WorkerOK, ShownOK, Shown, OutHash, hash,
     Live
<1>16. FinalOK(w', lines')
  BY <1>0, <1>1, <1>9, <1>10, <1>2, <1>3, <1>4, <1>7 DEF WorkerOK, FinalOK, Swapping, OutHash, Live
<1>17. TrueOK(w', lines', shutdown', reused')
  BY <1>0, <1>1, <1>9, <1>10, <1>2, <1>3, <1>4, <1>7 DEF WorkerOK, TrueOK, Withdrawn, Live
<1>18. WorkerOK(w', lines', shutdown', reused')
  BY <1>10, <1>11, <1>12, <1>13, <1>14, <1>15, <1>16, <1>17 DEF WorkerOK
<1>19. BackbufOK(backbuf', w', lines')
  BY <1>0, <1>1, <1>3, <1>7, <1>9 DEF BackbufOK, Live
<1>20. GuiOK(gui', lines')
  BY <1>0, <1>1, <1>3, <1>7 DEF GuiOK, Live
<1>21. Content'
  BY <1>0, <1>1, <1>20, <1>6, <1>9, <1>18, <1>8, <1>19 DEF Content, InputLive
<1>22. ASSUME fault' = None PROVE References'
  <2>1. /\ HeldIn(w) = w.in /\ HeldOut(w) = None /\ HeldPtr(w) = None
        /\ HeldIn(w') = w.in /\ HeldOut(w') = e /\ HeldPtr(w') = None
    BY <1>0, <1>9 DEF HeldIn, HeldOut, HeldPtr, InputHeld, OutputHeld
  <2>2. w'.ret.entry = w.ret.entry /\ w.ret.entry = None
    BY <1>0, <1>9 DEF WorkerOK, CallOK, Returned, NoLease
  <2>3. ASSUME NEW f \in Entries
        PROVE  Count(w', backbuf', gui', f) = Count(w, backbuf, gui, f) - One(None, f) + One(e, f)
    BY <1>1, <2>1, <2>2, EntriesAssumption DEF Count, One
  <2>4. ASSUME NEW f \in Live \ Stale(hash)
        PROVE  Net(lines', f) = Net(lines, f) /\ lines'[f].drift = lines[f].drift
    BY <1>3 DEF Net
  <2>5. Net(lines', e) = 1
    BY <1>4 DEF Net
  <2>6. Count(w, backbuf, gui, e) = 0
    BY <2>1, <2>2, <1>7 DEF Count, One, HeldGui
  <2>7. \A f \in Entries : Count(w, backbuf, gui, f) \in Nat
    BY CountFacts
  <2>8. ASSUME NEW f \in Live' PROVE Net(lines', f) = Count(w', backbuf', gui', f)
    <3>1. CASE f = e
      BY <2>3, <2>5, <2>6, <3>1, EntriesAssumption DEF One
    <3>2. CASE f # e
      <4>1. f \in Live \ Stale(hash) /\ f \in Entries
        BY <1>0, <1>3, <3>2 DEF Live, TableOK
      <4>2. Net(lines, f) = Count(w, backbuf, gui, f)
        BY <1>0, <4>1 DEF References
      <4>. QED BY <2>3, <2>4, <2>7, <3>2, <4>1, <4>2, EntriesAssumption DEF One
    <3>. QED BY <3>1, <3>2
  <2>9. ASSUME ~over', NEW f \in Live' PROVE lines'[f].drift >= 0
    BY <1>0, <1>1, <1>3, <1>4, <2>9 DEF References, Live
  <2>10. ASSUME flushes' = 0, ~over', NEW f \in Entries, Count(w', backbuf', gui', f) > 0
         PROVE  f \in Live'
    <3>1. CASE f = e
      BY <1>3, <3>1 DEF Live
    <3>2. CASE f # e
      <4>1. Count(w, backbuf, gui, f) > 0
        BY <2>3, <2>7, <2>10, <3>2, EntriesAssumption DEF One
      <4>2. f \in Live
        BY <1>0, <1>1, <2>10, <4>1 DEF References
      <4>3. lines[f].refs - lines[f].drift > 0 /\ lines[f].drift >= 0
        BY <1>0, <1>1, <2>10, <4>1, <4>2 DEF References, Net
      <4>4. lines[f].refs \in Int /\ lines[f].drift \in Int
        BY <1>0, <4>2 DEF TableOK, LineRec, Live
      <4>5. ~(lines[f].refs <= 0)
        BY <4>3, <4>4
      <4>6. f \notin Stale(hash)
        BY <4>5 DEF Stale, Removable
      <4>. QED BY <4>2, <4>6, <1>3 DEF Live
    <3>. QED BY <3>1, <3>2
  <2>. QED BY <2>8, <2>9, <2>10 DEF References
<1>. QED BY <1>0, <1>21, <1>22 DEF Inv

\* A run starts.
LEMMA StartStep ==
    ASSUME Inv, fault = None, NEW h \in Histories, NEW t \in 1..Modules, NEW b \in BOOLEAN, Start(h, t, b)
    PROVE  Inv'
<1>0. /\ Content /\ References /\ TableOK(lines) /\ HintOK(hint)
      /\ WorkerOK(w, lines, shutdown, reused) /\ WorkerType(w) /\ w.pc = "idle"
      /\ BackbufOK(backbuf, w, lines) /\ GuiOK(gui, lines)
  BY DEF Inv, Content, WorkerOK, Start, At
<1>1. UNCHANGED <<lines, hint, fault, backbuf, gui, flushes, over, reused>>
  BY DEF Start, Only
<1>2. NoLease \in Leases /\ None \in EntryOrNone
  BY NoLeaseFacts DEF EntryOrNone
<1>3. shutdown' = FALSE /\ runs' \in 0..MaxRuns
  BY <1>0, BoundsAssumption DEF Start, Content
<1>4. /\ Keeps(lines, lines') /\ Moves(lines, lines', None, None) /\ Unheld(lines, lines')
      /\ DOMAIN lines' = DOMAIN lines /\ NoLoss(lines, lines')
  BY <1>0, <1>1, KeepsSame
<1>5. /\ WorkerOK(w, lines', shutdown, reused) /\ TableOK(lines')
      /\ BackbufOK(backbuf, w, lines') /\ GuiOK(gui, lines')
  BY <1>0, <1>4, KeepWorker, KeepOthers DEF Keeps, Writing
<1>6. /\ w'.pc = "look" /\ w'.node = t /\ w'.history = h /\ w'.target = t /\ w'.in = None
      /\ w'.out = None /\ w'.ptr = None /\ w'.old = None /\ w'.ret = NoLease /\ w'.after = None
  BY <1>0, <1>2 DEF Start, WorkerType, Idle
<1>7. WorkerType(w')
  BY <1>0, <1>2, PcsFacts DEF Start, WorkerType, Idle
<1>8. WorkerOK(w', lines', shutdown', reused')
  BY <1>0, <1>1, <1>5, <1>6, <1>7, <1>3 DEF WorkerOK, CallOK, WriterOK, RekeyOK, InputOK, ShownOK,
     FinalOK, TrueOK, OutHash, hash,
     Writing, Shown, Returned, Swapping, Withdrawn, NoLease
<1>9. Content'
  BY <1>0, <1>1, <1>5, <1>6, <1>8, <1>3 DEF Content, InputLive, BackbufOK
<1>10. ASSUME fault' = None PROVE References'
  <2>1. /\ HeldIn(w) = None /\ HeldOut(w) = None /\ HeldPtr(w) = None
        /\ HeldIn(w') = None /\ HeldOut(w') = None /\ HeldPtr(w') = None
    BY <1>0, <1>6 DEF HeldIn, HeldOut, HeldPtr, InputHeld, OutputHeld
  <2>2. w'.ret.entry = None /\ w.ret.entry = None
    BY <1>0, <1>6 DEF WorkerOK, CallOK, Returned, NoLease
  <2>3. ASSUME NEW f \in Entries
        PROVE  Count(w', backbuf', gui', f)
                 = Count(w, backbuf, gui, f) - One(None, f) + One(None, f)
    BY <1>1, <2>1, <2>2, EntriesAssumption DEF Count, One
  <2>. QED BY <1>0, <1>1, <1>4, <2>3, ReferencesStep DEF Keeps, Live
<1>. QED BY <1>0, <1>9, <1>10 DEF Inv

----------------------------------------------------------------------------
(* The worker after the publication of an output *)

\* The switch after the publication.
LEMMA PublishedAbortedStep ==
    ASSUME Inv, fault = None, PublishedAborted
    PROVE  Inv'
<1>0. /\ Content /\ References /\ TableOK(lines) /\ HintOK(hint)
      /\ WorkerOK(w, lines, shutdown, reused) /\ WorkerType(w) /\ w.pc = "published"
      /\ BackbufOK(backbuf, w, lines) /\ GuiOK(gui, lines)
  BY DEF Inv, Content, WorkerOK, PublishedAborted, At
<1>1. UNCHANGED <<lines, fault, shutdown, backbuf, gui, runs, flushes, over, reused>>
  BY DEF PublishedAborted, Only
<1>2. shutdown
  BY DEF PublishedAborted
<1>3. /\ Keeps(lines, lines') /\ Moves(lines, lines', None, None) /\ Unheld(lines, lines')
      /\ DOMAIN lines' = DOMAIN lines /\ NoLoss(lines, lines')
  BY <1>0, <1>1, KeepsSame
<1>4. /\ WorkerOK(w, lines', shutdown, reused) /\ TableOK(lines')
      /\ BackbufOK(backbuf, w, lines') /\ GuiOK(gui, lines')
  BY <1>0, <1>3, KeepWorker, KeepOthers DEF Keeps, Writing
<1>5. /\ w'.pc = "dropin" /\ w'.node = w.node /\ w'.history = w.history /\ w'.target = w.target
      /\ w'.in = w.in
      /\ w'.out = w.out /\ w'.ptr = w.ptr /\ w'.old = w.old /\ w'.ret = w.ret /\ w'.after = w.after
  BY <1>0 DEF PublishedAborted, WorkerType, Goto
<1>6. WorkerType(w')
  BY <1>0, PcsFacts DEF PublishedAborted, WorkerType, Goto
<1>7. WorkerOK(w', lines', shutdown', reused')
  BY <1>0, <1>1, <1>4, <1>5, <1>6, <1>2 DEF WorkerOK, CallOK, WriterOK, RekeyOK, InputOK, ShownOK,
     FinalOK, TrueOK, OutHash, hash,
     Writing, Shown, Returned, Swapping, Withdrawn
<1>8. HintOK(hint')
  BY <1>0, ResetOK DEF PublishedAborted
<1>9. Content'
  BY <1>0, <1>1, <1>4, <1>5, <1>7, <1>8 DEF Content, InputLive, BackbufOK
<1>10. ASSUME fault' = None PROVE References'
  <2>1. /\ HeldIn(w) = w.in /\ HeldOut(w) = w.out /\ HeldPtr(w) = None
        /\ HeldIn(w') = w.in /\ HeldOut(w') = w.out /\ HeldPtr(w') = None
    BY <1>0, <1>5 DEF HeldIn, HeldOut, HeldPtr, InputHeld, OutputHeld
  <2>2. w'.ret.entry = w.ret.entry /\ w.ret.entry = None
    BY <1>0, <1>5 DEF WorkerOK, CallOK, Returned, NoLease
  <2>3. ASSUME NEW f \in Entries
        PROVE  Count(w', backbuf', gui', f)
                 = Count(w, backbuf, gui, f) - One(None, f) + One(None, f)
    BY <1>1, <2>1, <2>2, EntriesAssumption DEF Count, One
  <2>. QED BY <1>0, <1>1, <1>3, <2>3, ReferencesStep DEF Keeps, Live
<1>. QED BY <1>0, <1>9, <1>10 DEF Inv

\* The input is released.
LEMMA ReleaseInputStep ==
    ASSUME Inv, fault = None, ReleaseInput
    PROVE  Inv'
<1>0. /\ Content /\ References /\ TableOK(lines) /\ HintOK(hint)
      /\ WorkerOK(w, lines, shutdown, reused) /\ WorkerType(w) /\ w.pc = "published"
      /\ BackbufOK(backbuf, w, lines) /\ GuiOK(gui, lines)
  BY DEF Inv, Content, WorkerOK, ReleaseInput, At
<1>1. UNCHANGED <<hint, shutdown, backbuf, gui, runs, flushes, over, reused>>
  BY DEF ReleaseInput, Only
<1>2. ~shutdown
  BY DEF ReleaseInput
<1>3. lines' = RefCount(lines, w.in, -1)
  BY DEF ReleaseInput
<1>4. /\ Keeps(lines, lines') /\ Moves(lines, lines', w.in, None) /\ Unheld(lines, lines')
      /\ DOMAIN lines' = DOMAIN lines /\ NoLoss(lines, lines')
  BY <1>0, <1>3, RefCountDown
<1>5. /\ WorkerOK(w, lines', shutdown, reused) /\ TableOK(lines')
      /\ BackbufOK(backbuf, w, lines') /\ GuiOK(gui, lines')
  BY <1>0, <1>4, KeepWorker, KeepOthers DEF Keeps, Writing
<1>6. fault' \in Places \cup {None}
  BY DEF ReleaseInput, Touch, TouchInput, Places
<1>7. /\ w'.pc = "reap" /\ w'.node = w.node /\ w'.history = w.history /\ w'.target = w.target
      /\ w'.in = w.in
      /\ w'.out = w.out /\ w'.ptr = w.ptr /\ w'.old = w.old /\ w'.ret = w.ret /\ w'.after = w.after
  BY <1>0 DEF ReleaseInput, WorkerType, Goto
<1>8. WorkerType(w')
  BY <1>0, PcsFacts DEF ReleaseInput, WorkerType, Goto
<1>9. WorkerOK(w', lines', shutdown', reused')
  BY <1>0, <1>1, <1>5, <1>7, <1>8, <1>2 DEF WorkerOK, CallOK, WriterOK, RekeyOK, InputOK, ShownOK,
     FinalOK, TrueOK, OutHash, hash,
     Writing, Shown, Returned, Swapping, Withdrawn
<1>10. Content'
  BY <1>0, <1>1, <1>5, <1>7, <1>9, <1>6 DEF Content, InputLive, BackbufOK
<1>11. ASSUME fault' = None PROVE References'
  <2>1. /\ HeldIn(w) = w.in /\ HeldOut(w) = w.out /\ HeldPtr(w) = None
        /\ HeldIn(w') = None /\ HeldOut(w') = w.out /\ HeldPtr(w') = None
    BY <1>0, <1>7 DEF HeldIn, HeldOut, HeldPtr, InputHeld, OutputHeld
  <2>2. w'.ret.entry = w.ret.entry /\ w.ret.entry = None
    BY <1>0, <1>7 DEF WorkerOK, CallOK, Returned, NoLease
  <2>3. ASSUME NEW f \in Entries
        PROVE  Count(w', backbuf', gui', f)
                 = Count(w, backbuf, gui, f) - One(w.in, f) + One(None, f)
    BY <1>1, <2>1, <2>2, EntriesAssumption DEF Count, One
  <2>. QED BY <1>0, <1>1, <1>4, <2>3, ReferencesStep DEF Keeps, Live
<1>. QED BY <1>0, <1>10, <1>11 DEF Inv

\* The input is reaped.
LEMMA ReapStep ==
    ASSUME Inv, fault = None, Reap
    PROVE  Inv'
<1>0. /\ Content /\ References /\ TableOK(lines) /\ HintOK(hint)
      /\ WorkerOK(w, lines, shutdown, reused) /\ WorkerType(w) /\ w.pc = "reap"
      /\ BackbufOK(backbuf, w, lines) /\ GuiOK(gui, lines)
  BY DEF Inv, Content, WorkerOK, Reap, ReapInput, At
<1>1. UNCHANGED <<shutdown, backbuf, gui, runs, flushes, over, reused>>
  BY DEF Reap, ReapInput, Only
<1>2. lines' = Without(Reaped(w.in)) /\ Forget(Reaped(w.in))
  BY DEF Reap, ReapInput, Drop
<1>3. \A s \in Reaped(w.in) \cap Live : Removable(s, FALSE)
  BY DEF Reaped
<1>4. /\ Keeps(lines, Without(Reaped(w.in))) /\ DOMAIN Without(Reaped(w.in)) = Live \ Reaped(w.in)
      /\ TableOK(Without(Reaped(w.in)))
      /\ Moves(lines, Without(Reaped(w.in)), None, None) /\ NoLoss(lines, Without(Reaped(w.in)))
      /\ Unheld(lines, Without(Reaped(w.in)))
  BY <1>0, <1>3, WithoutKeeps DEF Keeps
<1>5. /\ Keeps(lines, lines') /\ Moves(lines, lines', None, None) /\ Unheld(lines, lines')
      /\ DOMAIN lines' = Live \ Reaped(w.in) /\ NoLoss(lines, lines')
  BY <1>2, <1>4
<1>6. HintOK(hint')
  BY <1>0, <1>2, ForgetOK
<1>7. /\ WorkerOK(w, lines', shutdown, reused) /\ TableOK(lines')
      /\ BackbufOK(backbuf, w, lines') /\ GuiOK(gui, lines')
  BY <1>0, <1>5, KeepWorker, KeepOthers DEF Keeps, Writing
<1>8. fault' \in Places \cup {None}
  BY DEF Reap, ReapInput, Touch, TouchInput, Places
<1>9. /\ w'.pc = "recheck" /\ w'.node = w.node /\ w'.history = w.history /\ w'.target = w.target
      /\ w'.in = w.in
      /\ w'.out = w.out /\ w'.ptr = w.ptr /\ w'.old = w.old /\ w'.ret = w.ret /\ w'.after = w.after
  BY <1>0 DEF Reap, ReapInput, WorkerType, Goto
<1>10. WorkerType(w')
  BY <1>0, PcsFacts DEF Reap, ReapInput, WorkerType, Goto
<1>11. WorkerOK(w', lines', shutdown', reused')
  BY <1>0, <1>1, <1>7, <1>9, <1>10 DEF WorkerOK, CallOK, WriterOK, RekeyOK, InputOK, ShownOK,
     FinalOK, TrueOK, OutHash, hash,
     Writing, Shown, Returned, Swapping, Withdrawn
<1>12. Content'
  BY <1>0, <1>1, <1>7, <1>9, <1>11, <1>8, <1>6 DEF Content, InputLive, BackbufOK
<1>13. ASSUME fault' = None PROVE References'
  <2>1. /\ HeldIn(w) = None /\ HeldOut(w) = w.out /\ HeldPtr(w) = None
        /\ HeldIn(w') = None /\ HeldOut(w') = w.out /\ HeldPtr(w') = None
    BY <1>0, <1>9 DEF HeldIn, HeldOut, HeldPtr, InputHeld, OutputHeld
  <2>2. w'.ret.entry = w.ret.entry /\ w.ret.entry = None
    BY <1>0, <1>9 DEF WorkerOK, CallOK, Returned, NoLease
  <2>3. ASSUME NEW f \in Entries
        PROVE  Count(w', backbuf', gui', f)
                 = Count(w, backbuf, gui, f) - One(None, f) + One(None, f)
    BY <1>1, <2>1, <2>2, EntriesAssumption DEF Count, One
  <2>. QED BY <1>0, <1>1, <1>5, <2>3, ReferencesStep DEF Keeps, Live
<1>. QED BY <1>0, <1>12, <1>13 DEF Inv

\* The same on the way out of an abort.
LEMMA ReapAbortedStep ==
    ASSUME Inv, fault = None, ReapAborted
    PROVE  Inv'
<1>0. /\ Content /\ References /\ TableOK(lines) /\ HintOK(hint)
      /\ WorkerOK(w, lines, shutdown, reused) /\ WorkerType(w) /\ w.pc = "reapin"
      /\ BackbufOK(backbuf, w, lines) /\ GuiOK(gui, lines)
  BY DEF Inv, Content, WorkerOK, ReapAborted, ReapInput, At
<1>1. UNCHANGED <<shutdown, backbuf, gui, runs, flushes, over, reused>>
  BY DEF ReapAborted, ReapInput, Only
<1>2. lines' = Without(Reaped(w.in)) /\ Forget(Reaped(w.in))
  BY DEF ReapAborted, ReapInput, Drop
<1>3. \A s \in Reaped(w.in) \cap Live : Removable(s, FALSE)
  BY DEF Reaped
<1>4. /\ Keeps(lines, Without(Reaped(w.in))) /\ DOMAIN Without(Reaped(w.in)) = Live \ Reaped(w.in)
      /\ TableOK(Without(Reaped(w.in)))
      /\ Moves(lines, Without(Reaped(w.in)), None, None) /\ NoLoss(lines, Without(Reaped(w.in)))
      /\ Unheld(lines, Without(Reaped(w.in)))
  BY <1>0, <1>3, WithoutKeeps DEF Keeps
<1>5. /\ Keeps(lines, lines') /\ Moves(lines, lines', None, None) /\ Unheld(lines, lines')
      /\ DOMAIN lines' = Live \ Reaped(w.in) /\ NoLoss(lines, lines')
  BY <1>2, <1>4
<1>6. HintOK(hint')
  BY <1>0, <1>2, ForgetOK
<1>7. /\ WorkerOK(w, lines', shutdown, reused) /\ TableOK(lines')
      /\ BackbufOK(backbuf, w, lines') /\ GuiOK(gui, lines')
  BY <1>0, <1>5, KeepWorker, KeepOthers DEF Keeps, Writing
<1>8. fault' \in Places \cup {None}
  BY DEF ReapAborted, ReapInput, Touch, TouchInput, Places
<1>9. /\ w'.pc = "dropout" /\ w'.node = w.node /\ w'.history = w.history /\ w'.target = w.target
      /\ w'.in = w.in
      /\ w'.out = w.out /\ w'.ptr = w.ptr /\ w'.old = w.old /\ w'.ret = w.ret /\ w'.after = w.after
  BY <1>0 DEF ReapAborted, ReapInput, WorkerType, Goto
<1>10. WorkerType(w')
  BY <1>0, PcsFacts DEF ReapAborted, ReapInput, WorkerType, Goto
<1>11. WorkerOK(w', lines', shutdown', reused')
  BY <1>0, <1>1, <1>7, <1>9, <1>10 DEF WorkerOK, CallOK, WriterOK, RekeyOK, InputOK, ShownOK,
     FinalOK, TrueOK, OutHash, hash,
     Writing, Shown, Returned, Swapping, Withdrawn
<1>12. Content'
  BY <1>0, <1>1, <1>7, <1>9, <1>11, <1>8, <1>6 DEF Content, InputLive, BackbufOK
<1>13. ASSUME fault' = None PROVE References'
  <2>1. /\ HeldIn(w) = None /\ HeldOut(w) = w.out /\ HeldPtr(w) = None
        /\ HeldIn(w') = None /\ HeldOut(w') = w.out /\ HeldPtr(w') = None
    BY <1>0, <1>9 DEF HeldIn, HeldOut, HeldPtr, InputHeld, OutputHeld
  <2>2. w'.ret.entry = w.ret.entry /\ w.ret.entry = None
    BY <1>0, <1>9 DEF WorkerOK, CallOK, Returned, NoLease
  <2>3. ASSUME NEW f \in Entries
        PROVE  Count(w', backbuf', gui', f)
                 = Count(w, backbuf, gui, f) - One(None, f) + One(None, f)
    BY <1>1, <2>1, <2>2, EntriesAssumption DEF Count, One
  <2>. QED BY <1>0, <1>1, <1>5, <2>3, ReferencesStep DEF Keeps, Live
<1>. QED BY <1>0, <1>12, <1>13 DEF Inv

\* The second test of the switch.
LEMMA RecheckAbortedStep ==
    ASSUME Inv, fault = None, Recheck, shutdown
    PROVE  Inv'
<1>0. /\ Content /\ References /\ TableOK(lines) /\ HintOK(hint)
      /\ WorkerOK(w, lines, shutdown, reused) /\ WorkerType(w) /\ w.pc = "recheck"
      /\ BackbufOK(backbuf, w, lines) /\ GuiOK(gui, lines)
  BY DEF Inv, Content, WorkerOK, Recheck, At
<1>1. UNCHANGED <<lines, fault, shutdown, backbuf, gui, runs, flushes, over, reused>>
  BY DEF Recheck, Only
<1>2. /\ Keeps(lines, lines') /\ Moves(lines, lines', None, None) /\ Unheld(lines, lines')
      /\ DOMAIN lines' = DOMAIN lines /\ NoLoss(lines, lines')
  BY <1>0, <1>1, KeepsSame
<1>3. /\ WorkerOK(w, lines', shutdown, reused) /\ TableOK(lines')
      /\ BackbufOK(backbuf, w, lines') /\ GuiOK(gui, lines')
  BY <1>0, <1>2, KeepWorker, KeepOthers DEF Keeps, Writing
<1>4. /\ w'.pc = "dropagain" /\ w'.node = w.node /\ w'.history = w.history /\ w'.target = w.target
      /\ w'.in = w.in
      /\ w'.out = w.out /\ w'.ptr = w.ptr /\ w'.old = w.old /\ w'.ret = w.ret /\ w'.after = w.after
  BY <1>0 DEF Recheck, WorkerType, Goto
<1>5. WorkerType(w')
  BY <1>0, PcsFacts DEF Recheck, WorkerType, Goto
<1>6. WorkerOK(w', lines', shutdown', reused')
  BY <1>0, <1>1, <1>3, <1>4, <1>5 DEF WorkerOK, CallOK, WriterOK, RekeyOK, InputOK, ShownOK,
     FinalOK, TrueOK, OutHash, hash,
     Writing, Shown, Returned, Swapping, Withdrawn
<1>7. HintOK(hint')
  BY <1>0, ResetOK DEF Recheck
<1>8. Content'
  BY <1>0, <1>1, <1>3, <1>4, <1>6, <1>7 DEF Content, InputLive, BackbufOK
<1>9. ASSUME fault' = None PROVE References'
  <2>1. /\ HeldIn(w) = None /\ HeldOut(w) = w.out /\ HeldPtr(w) = None
        /\ HeldIn(w') = None /\ HeldOut(w') = w.out /\ HeldPtr(w') = None
    BY <1>0, <1>4 DEF HeldIn, HeldOut, HeldPtr, InputHeld, OutputHeld
  <2>2. w'.ret.entry = w.ret.entry /\ w.ret.entry = None
    BY <1>0, <1>4 DEF WorkerOK, CallOK, Returned, NoLease
  <2>3. ASSUME NEW f \in Entries
        PROVE  Count(w', backbuf', gui', f)
                 = Count(w, backbuf, gui, f) - One(None, f) + One(None, f)
    BY <1>1, <2>1, <2>2, EntriesAssumption DEF Count, One
  <2>. QED BY <1>0, <1>1, <1>2, <2>3, ReferencesStep DEF Keeps, Live
<1>. QED BY <1>0, <1>8, <1>9 DEF Inv

\* The output is returned.
LEMMA RecheckReturnStep ==
    ASSUME Inv, fault = None, Recheck, ~shutdown
    PROVE  Inv'
<1>0. /\ Content /\ References /\ TableOK(lines) /\ HintOK(hint)
      /\ WorkerOK(w, lines, shutdown, reused) /\ WorkerType(w) /\ w.pc = "recheck"
      /\ BackbufOK(backbuf, w, lines) /\ GuiOK(gui, lines)
  BY DEF Inv, Content, WorkerOK, Recheck, At
<1>1. UNCHANGED <<lines, hint, fault, shutdown, backbuf, gui, runs, flushes, over, reused>>
  BY DEF Recheck, Only
<1>2. OutHash(w) \in Hashes /\ hash = OutHash(w)
  BY <1>0, HashOK DEF WorkerOK, hash, OutHash
<1>3. NoLease \in Leases /\ None \in EntryOrNone
  BY NoLeaseFacts DEF EntryOrNone
<1>4. [hash |-> hash, entry |-> w.out] \in Leases
  BY <1>0, <1>2 DEF Leases, WorkerType
<1>5. /\ Keeps(lines, lines') /\ Moves(lines, lines', None, None) /\ Unheld(lines, lines')
      /\ DOMAIN lines' = DOMAIN lines /\ NoLoss(lines, lines')
  BY <1>0, <1>1, KeepsSame
<1>6. /\ WorkerOK(w, lines', shutdown, reused) /\ TableOK(lines')
      /\ BackbufOK(backbuf, w, lines') /\ GuiOK(gui, lines')
  BY <1>0, <1>5, KeepWorker, KeepOthers DEF Keeps, Writing
<1>7. WorkerType(w) /\ w' = [w EXCEPT !.pc = "return", !.ret = [hash |-> hash, entry |-> w.out],
                       !.in = None, !.out = None]
  BY <1>0 DEF Recheck, Goto
<1>8. /\ w'.pc = "return" /\ w'.node = w.node /\ w'.history = w.history /\ w'.target = w.target
      /\ w'.in = None
      /\ w'.out = None /\ w'.ptr = w.ptr /\ w'.old = w.old
      /\ w'.ret = [hash |-> hash, entry |-> w.out] /\ w'.after = w.after
  BY <1>0, <1>7 DEF WorkerType
<1>9. WorkerType(w')
  BY <1>7, <1>2, <1>3, <1>4, PcsFacts DEF WorkerType
<1>10. WorkerOK(w', lines', shutdown', reused')
  BY <1>0, <1>1, <1>6, <1>8, <1>9, <1>2 DEF WorkerOK, CallOK, WriterOK, RekeyOK, InputOK, ShownOK,
     FinalOK, TrueOK, OutHash, hash,
     Writing, Shown, Returned, Swapping, Withdrawn
<1>11. Content'
  BY <1>0, <1>1, <1>6, <1>8, <1>10 DEF Content, InputLive, BackbufOK
<1>12. ASSUME fault' = None PROVE References'
  <2>1. /\ HeldIn(w) = None /\ HeldOut(w) = w.out /\ HeldPtr(w) = None
        /\ HeldIn(w') = None /\ HeldOut(w') = None /\ HeldPtr(w') = None
    BY <1>0, <1>8 DEF HeldIn, HeldOut, HeldPtr, InputHeld, OutputHeld
  <2>2. w'.ret.entry = w.out /\ w.ret.entry = None
    BY <1>0, <1>8 DEF WorkerOK, CallOK, Returned, NoLease
  <2>3. ASSUME NEW f \in Entries
        PROVE  Count(w', backbuf', gui', f)
                 = Count(w, backbuf, gui, f) - One(None, f) + One(None, f)
    BY <1>1, <2>1, <2>2, EntriesAssumption DEF Count, One
  <2>. QED BY <1>0, <1>1, <1>5, <2>3, ReferencesStep DEF Keeps, Live
<1>. QED BY <1>0, <1>11, <1>12 DEF Inv

\* An aborted module releases its input.
LEMMA DropInputStep ==
    ASSUME Inv, fault = None, DropInput
    PROVE  Inv'
<1>0. /\ Content /\ References /\ TableOK(lines) /\ HintOK(hint)
      /\ WorkerOK(w, lines, shutdown, reused) /\ WorkerType(w) /\ w.pc = "dropin"
      /\ BackbufOK(backbuf, w, lines) /\ GuiOK(gui, lines)
  BY DEF Inv, Content, WorkerOK, DropInput, At
<1>1. UNCHANGED <<hint, shutdown, backbuf, gui, runs, flushes, over, reused>>
  BY DEF DropInput, Only
<1>2. lines' = RefCount(lines, w.in, -1)
  BY DEF DropInput
<1>3. /\ Keeps(lines, lines') /\ Moves(lines, lines', w.in, None) /\ Unheld(lines, lines')
      /\ DOMAIN lines' = DOMAIN lines /\ NoLoss(lines, lines')
  BY <1>0, <1>2, RefCountDown
<1>4. /\ WorkerOK(w, lines', shutdown, reused) /\ TableOK(lines')
      /\ BackbufOK(backbuf, w, lines') /\ GuiOK(gui, lines')
  BY <1>0, <1>3, KeepWorker, KeepOthers DEF Keeps, Writing
<1>5. fault' \in Places \cup {None}
  BY DEF DropInput, Touch, TouchInput, Places
<1>6. /\ w'.pc = "reapin" /\ w'.node = w.node /\ w'.history = w.history /\ w'.target = w.target
      /\ w'.in = w.in
      /\ w'.out = w.out /\ w'.ptr = w.ptr /\ w'.old = w.old /\ w'.ret = w.ret /\ w'.after = w.after
  BY <1>0 DEF DropInput, WorkerType, Goto
<1>7. WorkerType(w')
  BY <1>0, PcsFacts DEF DropInput, WorkerType, Goto
<1>8. WorkerOK(w', lines', shutdown', reused')
  BY <1>0, <1>1, <1>4, <1>6, <1>7 DEF WorkerOK, CallOK, WriterOK, RekeyOK, InputOK, ShownOK,
     FinalOK, TrueOK, OutHash, hash,
     Writing, Shown, Returned, Swapping, Withdrawn
<1>9. Content'
  BY <1>0, <1>1, <1>4, <1>6, <1>8, <1>5 DEF Content, InputLive, BackbufOK
<1>10. ASSUME fault' = None PROVE References'
  <2>1. /\ HeldIn(w) = w.in /\ HeldOut(w) = w.out /\ HeldPtr(w) = None
        /\ HeldIn(w') = None /\ HeldOut(w') = w.out /\ HeldPtr(w') = None
    BY <1>0, <1>6 DEF HeldIn, HeldOut, HeldPtr, InputHeld, OutputHeld
  <2>2. w'.ret.entry = w.ret.entry /\ w.ret.entry = None
    BY <1>0, <1>6 DEF WorkerOK, CallOK, Returned, NoLease
  <2>3. ASSUME NEW f \in Entries
        PROVE  Count(w', backbuf', gui', f)
                 = Count(w, backbuf, gui, f) - One(w.in, f) + One(None, f)
    BY <1>1, <2>1, <2>2, EntriesAssumption DEF Count, One
  <2>. QED BY <1>0, <1>1, <1>3, <2>3, ReferencesStep DEF Keeps, Live
<1>. QED BY <1>0, <1>9, <1>10 DEF Inv

\* It releases its output.
LEMMA DropOutputStep ==
    ASSUME Inv, fault = None, DropOutput
    PROVE  Inv'
<1>0. /\ Content /\ References /\ TableOK(lines) /\ HintOK(hint)
      /\ WorkerOK(w, lines, shutdown, reused) /\ WorkerType(w) /\ w.pc = "dropout"
      /\ BackbufOK(backbuf, w, lines) /\ GuiOK(gui, lines)
  BY DEF Inv, Content, WorkerOK, DropOutput, At
<1>1. UNCHANGED <<hint, shutdown, backbuf, gui, runs, flushes, over, reused>>
  BY DEF DropOutput, Only
<1>2. lines' = RefCount(lines, w.out, -1)
  BY DEF DropOutput
<1>3. /\ Keeps(lines, lines') /\ Moves(lines, lines', w.out, None) /\ Unheld(lines, lines')
      /\ DOMAIN lines' = DOMAIN lines /\ NoLoss(lines, lines')
  BY <1>0, <1>2, RefCountDown
<1>4. /\ WorkerOK(w, lines', shutdown, reused) /\ TableOK(lines')
      /\ BackbufOK(backbuf, w, lines') /\ GuiOK(gui, lines')
  BY <1>0, <1>3, KeepWorker, KeepOthers DEF Keeps, Writing
<1>5. fault' \in Places \cup {None}
  BY DEF DropOutput, Touch, TouchInput, Places
<1>6. /\ w'.pc = "remove" /\ w'.node = w.node /\ w'.history = w.history /\ w'.target = w.target
      /\ w'.in = w.in
      /\ w'.out = w.out /\ w'.ptr = w.ptr /\ w'.old = w.old /\ w'.ret = w.ret /\ w'.after = w.after
  BY <1>0 DEF DropOutput, WorkerType, Goto
<1>7. WorkerType(w')
  BY <1>0, PcsFacts DEF DropOutput, WorkerType, Goto
<1>8. WorkerOK(w', lines', shutdown', reused')
  BY <1>0, <1>1, <1>4, <1>6, <1>7 DEF WorkerOK, CallOK, WriterOK, RekeyOK, InputOK, ShownOK,
     FinalOK, TrueOK, OutHash, hash,
     Writing, Shown, Returned, Swapping, Withdrawn
<1>9. Content'
  BY <1>0, <1>1, <1>4, <1>6, <1>8, <1>5 DEF Content, InputLive, BackbufOK
<1>10. ASSUME fault' = None PROVE References'
  <2>1. /\ HeldIn(w) = None /\ HeldOut(w) = w.out /\ HeldPtr(w) = None
        /\ HeldIn(w') = None /\ HeldOut(w') = None /\ HeldPtr(w') = None
    BY <1>0, <1>6 DEF HeldIn, HeldOut, HeldPtr, InputHeld, OutputHeld
  <2>2. w'.ret.entry = w.ret.entry /\ w.ret.entry = None
    BY <1>0, <1>6 DEF WorkerOK, CallOK, Returned, NoLease
  <2>3. ASSUME NEW f \in Entries
        PROVE  Count(w', backbuf', gui', f)
                 = Count(w, backbuf, gui, f) - One(w.out, f) + One(None, f)
    BY <1>1, <2>1, <2>2, EntriesAssumption DEF Count, One
  <2>. QED BY <1>0, <1>1, <1>3, <2>3, ReferencesStep DEF Keeps, Live
<1>. QED BY <1>0, <1>9, <1>10 DEF Inv

\* The output cannot be removed.
LEMMA RemoveKeptStep ==
    ASSUME Inv, fault = None, RemoveOutput, ~(Exists(w.out) /\ Removable(w.out, TRUE))
    PROVE  Inv'
<1>0. /\ Content /\ References /\ TableOK(lines) /\ HintOK(hint)
      /\ WorkerOK(w, lines, shutdown, reused) /\ WorkerType(w) /\ w.pc = "remove"
      /\ BackbufOK(backbuf, w, lines) /\ GuiOK(gui, lines)
  BY DEF Inv, Content, WorkerOK, RemoveOutput, At
<1>1. UNCHANGED <<lines, hint, shutdown, backbuf, gui, runs, flushes, over, reused>>
  BY DEF RemoveOutput, Only
<1>2. /\ Keeps(lines, lines') /\ Moves(lines, lines', None, None) /\ Unheld(lines, lines')
      /\ DOMAIN lines' = DOMAIN lines /\ NoLoss(lines, lines')
  BY <1>0, <1>1, KeepsSame
<1>3. /\ WorkerOK(w, lines', shutdown, reused) /\ TableOK(lines')
      /\ BackbufOK(backbuf, w, lines') /\ GuiOK(gui, lines')
  BY <1>0, <1>2, KeepWorker, KeepOthers DEF Keeps, Writing
<1>4. fault' \in Places \cup {None}
  BY DEF RemoveOutput, Touch, TouchInput, Places
<1>5. /\ w'.pc = "mark" /\ w'.node = w.node /\ w'.history = w.history /\ w'.target = w.target
      /\ w'.in = w.in
      /\ w'.out = w.out /\ w'.ptr = w.ptr /\ w'.old = w.old /\ w'.ret = w.ret /\ w'.after = w.after
  BY <1>0 DEF RemoveOutput, WorkerType, Goto
<1>6. WorkerType(w')
  BY <1>0, PcsFacts DEF RemoveOutput, WorkerType, Goto
<1>7. WorkerOK(w', lines', shutdown', reused')
  BY <1>0, <1>1, <1>3, <1>5, <1>6 DEF WorkerOK, CallOK, WriterOK, RekeyOK, InputOK, ShownOK,
     FinalOK, TrueOK, OutHash, hash,
     Writing, Shown, Returned, Swapping, Withdrawn
<1>8. Content'
  BY <1>0, <1>1, <1>3, <1>5, <1>7, <1>4 DEF Content, InputLive, BackbufOK
<1>9. ASSUME fault' = None PROVE References'
  <2>1. /\ HeldIn(w) = None /\ HeldOut(w) = None /\ HeldPtr(w) = None
        /\ HeldIn(w') = None /\ HeldOut(w') = None /\ HeldPtr(w') = None
    BY <1>0, <1>5 DEF HeldIn, HeldOut, HeldPtr, InputHeld, OutputHeld
  <2>2. w'.ret.entry = w.ret.entry /\ w.ret.entry = None
    BY <1>0, <1>5 DEF WorkerOK, CallOK, Returned, NoLease
  <2>3. ASSUME NEW f \in Entries
        PROVE  Count(w', backbuf', gui', f)
                 = Count(w, backbuf, gui, f) - One(None, f) + One(None, f)
    BY <1>1, <2>1, <2>2, EntriesAssumption DEF Count, One
  <2>. QED BY <1>0, <1>1, <1>2, <2>3, ReferencesStep DEF Keeps, Live
<1>. QED BY <1>0, <1>8, <1>9 DEF Inv

\* The output is removed, locked or not.
LEMMA RemoveOutputStep ==
    ASSUME Inv, fault = None, RemoveOutput, Exists(w.out) /\ Removable(w.out, TRUE)
    PROVE  Inv'
<1>0. /\ Content /\ References /\ TableOK(lines) /\ HintOK(hint)
      /\ WorkerOK(w, lines, shutdown, reused) /\ WorkerType(w) /\ w.pc = "remove"
      /\ BackbufOK(backbuf, w, lines) /\ GuiOK(gui, lines)
  BY DEF Inv, Content, WorkerOK, RemoveOutput, At
<1>1. UNCHANGED <<shutdown, backbuf, gui, runs, flushes, over, reused>>
  BY DEF RemoveOutput, Only
<1>2. NoLease \in Leases /\ None \in EntryOrNone
  BY NoLeaseFacts DEF EntryOrNone
<1>3. lines' = Without({w.out}) /\ Forget({w.out})
  BY DEF RemoveOutput, Drop
<1>4. /\ Keeps(lines, lines') /\ Moves(lines, lines', None, None) /\ NoLoss(lines, lines')
      /\ DOMAIN lines' = Live \ {w.out}
  BY <1>0, <1>3, WithoutKeeps
<1>5. Unheld(lines, lines')
  BY <1>4 DEF Unheld, Removable, Live
<1>6. HintOK(hint')
  BY <1>0, <1>3, ForgetOK
<1>7. /\ WorkerOK(w, lines', shutdown, reused) /\ TableOK(lines')
      /\ BackbufOK(backbuf, w, lines') /\ GuiOK(gui, lines')
  BY <1>0, <1>4, KeepWorker, KeepOthers DEF Keeps, Writing
<1>8. fault' \in Places \cup {None}
  BY DEF RemoveOutput, Touch, TouchInput, Places
<1>9. /\ w'.pc = "finish" /\ w'.node = w.node /\ w'.history = w.history /\ w'.target = w.target
      /\ w'.in = None
      /\ w'.out = None /\ w'.ptr = None /\ w'.old = w.old /\ w'.ret = NoLease /\ w'.after = w.after
  BY <1>0, <1>2 DEF RemoveOutput, WorkerType, ReturnError
<1>10. WorkerType(w')
  BY <1>0, <1>2, PcsFacts DEF RemoveOutput, WorkerType, ReturnError
<1>11. WorkerOK(w', lines', shutdown', reused')
  BY <1>0, <1>1, <1>7, <1>9, <1>10, <1>4 DEF WorkerOK, CallOK, WriterOK, RekeyOK, InputOK, ShownOK,
     FinalOK, TrueOK, OutHash, hash,
     Writing, Shown, Returned, Swapping, Withdrawn, NoLease
<1>12. Content'
  BY <1>0, <1>1, <1>7, <1>9, <1>11, <1>8, <1>6 DEF Content, InputLive, BackbufOK
<1>13. ASSUME fault' = None PROVE References'
  <2>1. /\ HeldIn(w) = None /\ HeldOut(w) = None /\ HeldPtr(w) = None
        /\ HeldIn(w') = None /\ HeldOut(w') = None /\ HeldPtr(w') = None
    BY <1>0, <1>9 DEF HeldIn, HeldOut, HeldPtr, InputHeld, OutputHeld
  <2>2. w'.ret.entry = None /\ w.ret.entry = None
    BY <1>0, <1>9 DEF WorkerOK, CallOK, Returned, NoLease
  <2>3. ASSUME NEW f \in Entries
        PROVE  Count(w', backbuf', gui', f)
                 = Count(w, backbuf, gui, f) - One(None, f) + One(None, f)
    BY <1>1, <2>1, <2>2, EntriesAssumption DEF Count, One
  <2>. QED BY <1>0, <1>1, <1>4, <2>3, <1>5, ReferencesStep DEF Keeps, Live
<1>. QED BY <1>0, <1>12, <1>13 DEF Inv

\* It releases an input it has released before.
LEMMA DropInputAgainStep ==
    ASSUME Inv, fault = None, DropInputAgain
    PROVE  Inv'
<1>0. /\ Content /\ References /\ TableOK(lines) /\ HintOK(hint)
      /\ WorkerOK(w, lines, shutdown, reused) /\ WorkerType(w) /\ w.pc = "dropagain"
      /\ BackbufOK(backbuf, w, lines) /\ GuiOK(gui, lines)
  BY DEF Inv, Content, WorkerOK, DropInputAgain, At
<1>1. UNCHANGED <<hint, shutdown, backbuf, gui, runs, flushes, reused>>
  BY DEF DropInputAgain, Only
<1>2. lines' = Drifts(RefCount(lines, w.in, -1), w.in, -1)
  BY DEF DropInputAgain
<1>3. /\ Keeps(lines, RefCount(lines, w.in, -1)) /\ DOMAIN RefCount(lines, w.in, -1) = DOMAIN lines
      /\ Moves(lines, RefCount(lines, w.in, -1), w.in, None)
      /\ NoLoss(lines, RefCount(lines, w.in, -1))
  BY <1>0, RefCountDown
<1>4. /\ Keeps(RefCount(lines, w.in, -1), lines') /\ DOMAIN lines' = DOMAIN lines
      /\ \A f \in DOMAIN lines :
           /\ Net(lines', f) = Net(RefCount(lines, w.in, -1), f) - (IF f = w.in THEN -1 ELSE 0)
           /\ lines'[f].drift = RefCount(lines, w.in, -1)[f].drift + (IF f = w.in THEN -1 ELSE 0)
  BY <1>2, <1>3, DriftsBy DEF Keeps
<1>5. \A f \in DOMAIN lines :
      /\ f # None /\ Net(lines, f) \in Int /\ lines[f].drift \in Int
      /\ lines'[f].drift \in Int /\ RefCount(lines, w.in, -1)[f].drift \in Int
  BY <1>0, <1>3, <1>4, EntriesAssumption DEF Keeps, TableOK, LineRec, Net
<1>6. \A f \in DOMAIN lines : Net(RefCount(lines, w.in, -1), f) = Net(lines, f) - One(w.in, f) + One(None, f)
  BY <1>3 DEF Moves
<1>7. Moves(lines, lines', None, None)
  BY <1>4, <1>5, <1>6 DEF Moves, One
<1>8. w.in = None => NoLoss(lines, lines')
  BY <1>3, <1>4, <1>5 DEF NoLoss
<1>9. Keeps(lines, lines') /\ Unheld(lines, lines')
  BY <1>3, <1>4, KeepsTrans DEF Unheld
<1>10. over' \in BOOLEAN /\ (over => over') /\ (over' \/ NoLoss(lines, lines'))
  BY <1>0, <1>8 DEF DropInputAgain, Content
<1>11. /\ WorkerOK(w, lines', shutdown, reused) /\ TableOK(lines')
       /\ BackbufOK(backbuf, w, lines') /\ GuiOK(gui, lines')
  BY <1>0, <1>9, KeepWorker, KeepOthers DEF Keeps, Writing
<1>12. fault' \in Places \cup {None}
  BY DEF DropInputAgain, Touch, TouchInput, Places
<1>13. /\ w'.pc = "reapin" /\ w'.node = w.node /\ w'.history = w.history /\ w'.target = w.target
       /\ w'.in = w.in
       /\ w'.out = w.out /\ w'.ptr = w.ptr /\ w'.old = w.old /\ w'.ret = w.ret /\ w'.after = w.after
  BY <1>0 DEF DropInputAgain, WorkerType, Goto
<1>14. WorkerType(w')
  BY <1>0, PcsFacts DEF DropInputAgain, WorkerType, Goto
<1>15. WorkerOK(w', lines', shutdown', reused')
  BY <1>0, <1>1, <1>11, <1>13, <1>14 DEF WorkerOK, CallOK, WriterOK, RekeyOK, InputOK, ShownOK,
     FinalOK, TrueOK, OutHash, hash,
     Writing, Shown, Returned, Swapping, Withdrawn
<1>16. Content'
  BY <1>0, <1>1, <1>11, <1>13, <1>15, <1>12, <1>10 DEF Content, InputLive, BackbufOK
<1>17. ASSUME fault' = None PROVE References'
  <2>1. /\ HeldIn(w) = None /\ HeldOut(w) = w.out /\ HeldPtr(w) = None
        /\ HeldIn(w') = None /\ HeldOut(w') = w.out /\ HeldPtr(w') = None
    BY <1>0, <1>13 DEF HeldIn, HeldOut, HeldPtr, InputHeld, OutputHeld
  <2>2. w'.ret.entry = w.ret.entry /\ w.ret.entry = None
    BY <1>0, <1>13 DEF WorkerOK, CallOK, Returned, NoLease
  <2>3. ASSUME NEW f \in Entries
        PROVE  Count(w', backbuf', gui', f)
                 = Count(w, backbuf, gui, f) - One(None, f) + One(None, f)
    BY <1>1, <2>1, <2>2, EntriesAssumption DEF Count, One
  <2>. QED BY <1>0, <1>1, <1>9, <2>3, <1>10, <1>7, ReferencesStep DEF Keeps, Live
<1>. QED BY <1>0, <1>16, <1>17 DEF Inv

\* It is marked instead.
LEMMA MarkOutputStep ==
    ASSUME Inv, fault = None, MarkOutput
    PROVE  Inv'
<1>0. /\ Content /\ References /\ TableOK(lines) /\ HintOK(hint)
      /\ WorkerOK(w, lines, shutdown, reused) /\ WorkerType(w) /\ w.pc = "mark"
      /\ BackbufOK(backbuf, w, lines) /\ GuiOK(gui, lines)
  BY DEF Inv, Content, WorkerOK, MarkOutput, At
<1>1. UNCHANGED <<hint, shutdown, backbuf, gui, runs, flushes, over, reused>>
  BY DEF MarkOutput, Only
<1>2. NoLease \in Leases /\ None \in EntryOrNone
  BY NoLeaseFacts DEF EntryOrNone
<1>3. w.out \in Live => lines[w.out] \in LineRec
  BY <1>0 DEF TableOK, Live
<1>4. /\ DOMAIN lines' = Live /\ \A f \in Live : f # w.out => lines'[f] = lines[f]
      /\ w.out \in Live => lines'[w.out] = [lines[w.out] EXCEPT !.auto_destroy = TRUE]
  BY DEF MarkOutput, Exists, Live
<1>5. ASSUME w.out \in Live
      PROVE  /\ lines'[w.out] \in LineRec /\ lines'[w.out].refs = lines[w.out].refs
             /\ lines'[w.out].drift = lines[w.out].drift
             /\ lines'[w.out].hash = lines[w.out].hash /\ lines'[w.out].pixels = lines[w.out].pixels
             /\ lines'[w.out].readers = lines[w.out].readers
             /\ lines'[w.out].writer = lines[w.out].writer
             /\ lines'[w.out].auto_destroy = TRUE
  BY <1>3, <1>4, <1>5, MarkLine
<1>6. w.out \in Live => lines'[w.out].auto_destroy = TRUE /\ lines'[w.out].writer = lines[w.out].writer
  BY <1>5
<1>7. Relabels(lines, lines', w.out)
  BY <1>4, <1>5 DEF Relabels, Live
<1>8. /\ TableOK(lines') /\ Moves(lines, lines', None, None) /\ NoLoss(lines, lines')
      /\ Unheld(lines, lines') /\ BackbufOK(backbuf, w, lines') /\ GuiOK(gui, lines')
  BY <1>0, <1>7, RelabelKeeps
<1>9. fault' \in Places \cup {None}
  BY DEF MarkOutput, Touch, TouchInput, Places
<1>10. /\ w'.pc = "finish" /\ w'.node = w.node /\ w'.history = w.history /\ w'.target = w.target
       /\ w'.in = None
       /\ w'.out = None /\ w'.ptr = None /\ w'.old = w.old /\ w'.ret = NoLease /\ w'.after = w.after
  BY <1>0, <1>2 DEF MarkOutput, WorkerType, ReturnError
<1>11. WorkerType(w')
  BY <1>0, <1>2, PcsFacts DEF MarkOutput, WorkerType, ReturnError
<1>12. CallOK(w')
  BY <1>0, <1>1, <1>10, <1>11, <1>6, <1>4 DEF WorkerOK, CallOK, Returned, Swapping, OutHash, hash,
     NoLease, Live
<1>13. WriterOK(w', lines')
  BY <1>0, <1>1, <1>10, <1>11, <1>6, <1>4 DEF WorkerOK, WriterOK, Writing, OutHash, hash, Live
<1>14. RekeyOK(w', lines')
  BY <1>0, <1>1, <1>10, <1>11, <1>6, <1>4 DEF WorkerOK, RekeyOK, OutHash, hash, Live
<1>15. InputOK(w', lines', reused')
  BY <1>0, <1>1, <1>10, <1>11, <1>6, <1>4 DEF WorkerOK, InputOK, OutHash, Live
<1>16. ShownOK(w', lines', shutdown', reused')
  BY <1>0, <1>1, <1>10, <1>11, <1>6, <1>4 DEF WorkerOK, ShownOK, Shown, OutHash, hash, Live
<1>17. FinalOK(w', lines')
  BY <1>0, <1>1, <1>10, <1>11, <1>6, <1>4 DEF WorkerOK, FinalOK, Swapping, OutHash, Live
<1>18. TrueOK(w', lines', shutdown', reused')
  BY <1>0, <1>1, <1>10, <1>11, <1>6, <1>4 DEF WorkerOK, TrueOK, Withdrawn, Live
<1>19. WorkerOK(w', lines', shutdown', reused')
  BY <1>11, <1>12, <1>13, <1>14, <1>15, <1>16, <1>17, <1>18 DEF WorkerOK
<1>20. BackbufOK(backbuf', w', lines')
  BY <1>0, <1>1, <1>8, <1>10 DEF BackbufOK
<1>21. GuiOK(gui', lines')
  BY <1>1, <1>8
<1>22. Content'
  BY <1>0, <1>1, <1>21, <1>8, <1>10, <1>19, <1>9, <1>20 DEF Content, InputLive
<1>23. ASSUME fault' = None PROVE References'
  <2>1. /\ HeldIn(w) = None /\ HeldOut(w) = None /\ HeldPtr(w) = None
        /\ HeldIn(w') = None /\ HeldOut(w') = None /\ HeldPtr(w') = None
    BY <1>0, <1>10 DEF HeldIn, HeldOut, HeldPtr, InputHeld, OutputHeld
  <2>2. w'.ret.entry = None /\ w.ret.entry = None
    BY <1>0, <1>10 DEF WorkerOK, CallOK, Returned, NoLease
  <2>3. ASSUME NEW f \in Entries
        PROVE  Count(w', backbuf', gui', f)
                 = Count(w, backbuf, gui, f) - One(None, f) + One(None, f)
    BY <1>1, <2>1, <2>2, EntriesAssumption DEF Count, One
  <2>. QED BY <1>0, <1>1, <1>8, <2>3, <1>7, ReferencesStep DEF Relabels, Live
<1>. QED BY <1>0, <1>22, <1>23 DEF Inv

----------------------------------------------------------------------------
(* The worker after the recursion *)

\* The hash of the last module.
LEMMA FinalHashOK ==
    ASSUME NEW c, WorkerType(c), CallOK(c), c.pc # "idle"
    PROVE  Hash(c.history, Modules) \in Hashes /\ Len(Hash(c.history, Modules)) = Modules
<1>1. Modules \in 1..Modules
  BY ModulesAssumption
<1>. QED BY <1>1, HashFacts DEF WorkerType, CallOK

\* The switch after the recursion forgets the returned reference.
LEMMA FinishAbortedStep ==
    ASSUME Inv, fault = None, FinishAborted
    PROVE  Inv'
<1>0. /\ Content /\ References /\ TableOK(lines) /\ HintOK(hint)
      /\ WorkerOK(w, lines, shutdown, reused) /\ WorkerType(w) /\ w.pc = "finish"
      /\ BackbufOK(backbuf, w, lines) /\ GuiOK(gui, lines)
  BY DEF Inv, Content, WorkerOK, FinishAborted, At
<1>1. UNCHANGED <<hint, fault, shutdown, backbuf, gui, runs, flushes, over, reused>>
  BY DEF FinishAborted, Only
<1>2. lines' = Drifts(lines, w.ret.entry, 1)
  BY DEF FinishAborted
<1>3. /\ Keeps(lines, lines') /\ Moves(lines, lines', w.ret.entry, None) /\ Unheld(lines, lines')
      /\ DOMAIN lines' = DOMAIN lines /\ NoLoss(lines, lines')
  BY <1>0, <1>2, DriftsUp
<1>4. /\ WorkerOK(w, lines', shutdown, reused) /\ TableOK(lines')
      /\ BackbufOK(backbuf, w, lines') /\ GuiOK(gui, lines')
  BY <1>0, <1>3, KeepWorker, KeepOthers DEF Keeps, Writing
<1>5. w' = Idle
  BY <1>0 DEF FinishAborted
<1>6. /\ w'.pc = "idle" /\ w'.node = 1 /\ w'.history = NoHash /\ w'.target = 1 /\ w'.in = None
      /\ w'.out = None /\ w'.ptr = None /\ w'.old = None /\ w'.ret = NoLease /\ w'.after = None
  BY <1>5, IdleFacts
<1>7. WorkerType(w')
  BY <1>5, IdleFacts
<1>8. WorkerOK(w', lines', shutdown', reused')
  BY <1>0, <1>1, <1>4, <1>6, <1>7 DEF WorkerOK, CallOK, WriterOK, RekeyOK, InputOK, ShownOK,
     FinalOK, TrueOK, OutHash, hash,
     Writing, Shown, Returned, Swapping, Withdrawn, NoLease
<1>9. Content'
  BY <1>0, <1>1, <1>4, <1>6, <1>8 DEF Content, InputLive, BackbufOK
<1>10. ASSUME fault' = None PROVE References'
  <2>1. /\ HeldIn(w) = None /\ HeldOut(w) = None /\ HeldPtr(w) = None
        /\ HeldIn(w') = None /\ HeldOut(w') = None /\ HeldPtr(w') = None
    BY <1>0, <1>6 DEF HeldIn, HeldOut, HeldPtr, InputHeld, OutputHeld
  <2>2. w'.ret.entry = None
    BY <1>0, <1>6 DEF WorkerOK, CallOK, Returned, NoLease
  <2>3. ASSUME NEW f \in Entries
        PROVE  Count(w', backbuf', gui', f)
                 = Count(w, backbuf, gui, f) - One(w.ret.entry, f) + One(None, f)
    BY <1>1, <2>1, <2>2, EntriesAssumption DEF Count, One
  <2>. QED BY <1>0, <1>1, <1>3, <2>3, ReferencesStep DEF Keeps, Live
<1>. QED BY <1>0, <1>9, <1>10 DEF Inv

\* The final output is found.
LEMMA FinishProbeStep ==
    ASSUME Inv, fault = None, Finish, w.target = Modules /\ Found(FinalHash) # {}
    PROVE  Inv'
<1>0. /\ Content /\ References /\ TableOK(lines) /\ HintOK(hint)
      /\ WorkerOK(w, lines, shutdown, reused) /\ WorkerType(w) /\ w.pc = "finish"
      /\ BackbufOK(backbuf, w, lines) /\ GuiOK(gui, lines)
  BY DEF Inv, Content, WorkerOK, Finish, At
<1>1. UNCHANGED <<lines, hint, fault, shutdown, backbuf, gui, runs, flushes, over, reused>>
  BY DEF Finish, Only
<1>2. /\ FoundOrNone(FinalHash) \in EntryOrNone /\ FoundOrNone(FinalHash) # None
      /\ FoundOrNone(FinalHash) \in Live => lines[FoundOrNone(FinalHash)].hash = FinalHash
  BY <1>0, FoundFacts
<1>3. /\ Keeps(lines, lines') /\ Moves(lines, lines', None, None) /\ Unheld(lines, lines')
      /\ DOMAIN lines' = DOMAIN lines /\ NoLoss(lines, lines')
  BY <1>0, <1>1, KeepsSame
<1>4. /\ WorkerOK(w, lines', shutdown, reused) /\ TableOK(lines')
      /\ BackbufOK(backbuf, w, lines') /\ GuiOK(gui, lines')
  BY <1>0, <1>3, KeepWorker, KeepOthers DEF Keeps, Writing
<1>5. /\ w'.pc = "finalcheck" /\ w'.node = w.node /\ w'.history = w.history /\ w'.target = w.target
      /\ w'.in = w.in
      /\ w'.out = w.out /\ w'.ptr = FoundOrNone(FinalHash) /\ w'.old = w.old /\ w'.ret = w.ret
      /\ w'.after = w.after
  BY <1>0, <1>2 DEF Finish, WorkerType, Goto
<1>6. WorkerType(w')
  BY <1>0, <1>2, PcsFacts DEF Finish, WorkerType, Goto
<1>7. WorkerOK(w', lines', shutdown', reused')
  BY <1>0, <1>1, <1>4, <1>5, <1>6, <1>2 DEF WorkerOK, CallOK, WriterOK, RekeyOK, InputOK, ShownOK,
     FinalOK, TrueOK, OutHash, hash,
     Writing, Shown, Returned, Swapping, Withdrawn, FinalHash, Live
<1>8. Content'
  BY <1>0, <1>1, <1>4, <1>5, <1>7 DEF Content, InputLive, BackbufOK
<1>9. ASSUME fault' = None PROVE References'
  <2>1. /\ HeldIn(w) = None /\ HeldOut(w) = None /\ HeldPtr(w) = None
        /\ HeldIn(w') = None /\ HeldOut(w') = None /\ HeldPtr(w') = None
    BY <1>0, <1>5 DEF HeldIn, HeldOut, HeldPtr, InputHeld, OutputHeld
  <2>2. w'.ret.entry = w.ret.entry
    BY <1>0, <1>5 DEF WorkerOK, CallOK, Returned, NoLease
  <2>3. ASSUME NEW f \in Entries
        PROVE  Count(w', backbuf', gui', f)
                 = Count(w, backbuf, gui, f) - One(None, f) + One(None, f)
    BY <1>1, <2>1, <2>2, EntriesAssumption DEF Count, One
  <2>. QED BY <1>0, <1>1, <1>3, <2>3, ReferencesStep DEF Keeps, Live
<1>. QED BY <1>0, <1>8, <1>9 DEF Inv

\* There is none, or none was wanted.
LEMMA FinishUnrefStep ==
    ASSUME Inv, fault = None, Finish, ~(w.target = Modules /\ Found(FinalHash) # {})
    PROVE  Inv'
<1>0. /\ Content /\ References /\ TableOK(lines) /\ HintOK(hint)
      /\ WorkerOK(w, lines, shutdown, reused) /\ WorkerType(w) /\ w.pc = "finish"
      /\ BackbufOK(backbuf, w, lines) /\ GuiOK(gui, lines)
  BY DEF Inv, Content, WorkerOK, Finish, At
<1>1. UNCHANGED <<lines, hint, fault, shutdown, backbuf, gui, runs, flushes, over, reused>>
  BY DEF Finish, Only
<1>2. /\ Keeps(lines, lines') /\ Moves(lines, lines', None, None) /\ Unheld(lines, lines')
      /\ DOMAIN lines' = DOMAIN lines /\ NoLoss(lines, lines')
  BY <1>0, <1>1, KeepsSame
<1>3. /\ WorkerOK(w, lines', shutdown, reused) /\ TableOK(lines')
      /\ BackbufOK(backbuf, w, lines') /\ GuiOK(gui, lines')
  BY <1>0, <1>2, KeepWorker, KeepOthers DEF Keeps, Writing
<1>4. /\ w'.pc = "unref" /\ w'.node = w.node /\ w'.history = w.history /\ w'.target = w.target
      /\ w'.in = w.in
      /\ w'.out = w.out /\ w'.ptr = w.ptr /\ w'.old = w.old /\ w'.ret = w.ret /\ w'.after = w.after
  BY <1>0 DEF Finish, WorkerType, Goto
<1>5. WorkerType(w')
  BY <1>0, PcsFacts DEF Finish, WorkerType, Goto
<1>6. WorkerOK(w', lines', shutdown', reused')
  BY <1>0, <1>1, <1>3, <1>4, <1>5 DEF WorkerOK, CallOK, WriterOK, RekeyOK, InputOK, ShownOK,
     FinalOK, TrueOK, OutHash, hash,
     Writing, Shown, Returned, Swapping, Withdrawn
<1>7. Content'
  BY <1>0, <1>1, <1>3, <1>4, <1>6 DEF Content, InputLive, BackbufOK
<1>8. ASSUME fault' = None PROVE References'
  <2>1. /\ HeldIn(w) = None /\ HeldOut(w) = None /\ HeldPtr(w) = None
        /\ HeldIn(w') = None /\ HeldOut(w') = None /\ HeldPtr(w') = None
    BY <1>0, <1>4 DEF HeldIn, HeldOut, HeldPtr, InputHeld, OutputHeld
  <2>2. w'.ret.entry = w.ret.entry
    BY <1>0, <1>4 DEF WorkerOK, CallOK, Returned, NoLease
  <2>3. ASSUME NEW f \in Entries
        PROVE  Count(w', backbuf', gui', f)
                 = Count(w, backbuf, gui, f) - One(None, f) + One(None, f)
    BY <1>1, <2>1, <2>2, EntriesAssumption DEF Count, One
  <2>. QED BY <1>0, <1>1, <1>2, <2>3, ReferencesStep DEF Keeps, Live
<1>. QED BY <1>0, <1>7, <1>8 DEF Inv

\* The final output is published.
LEMMA FinalCheckSwapStep ==
    ASSUME Inv, fault = None, FinalCheck, Exists(w.ptr) /\ Published(w.ptr)
    PROVE  Inv'
<1>0. /\ Content /\ References /\ TableOK(lines) /\ HintOK(hint)
      /\ WorkerOK(w, lines, shutdown, reused) /\ WorkerType(w) /\ w.pc = "finalcheck"
      /\ BackbufOK(backbuf, w, lines) /\ GuiOK(gui, lines)
  BY DEF Inv, Content, WorkerOK, FinalCheck, At
<1>1. UNCHANGED <<lines, hint, shutdown, backbuf, gui, runs, flushes, over, reused>>
  BY DEF FinalCheck, Only
<1>2. /\ Keeps(lines, lines') /\ Moves(lines, lines', None, None) /\ Unheld(lines, lines')
      /\ DOMAIN lines' = DOMAIN lines /\ NoLoss(lines, lines')
  BY <1>0, <1>1, KeepsSame
<1>3. /\ WorkerOK(w, lines', shutdown, reused) /\ TableOK(lines')
      /\ BackbufOK(backbuf, w, lines') /\ GuiOK(gui, lines')
  BY <1>0, <1>2, KeepWorker, KeepOthers DEF Keeps, Writing
<1>4. fault' \in Places \cup {None}
  BY DEF FinalCheck, Touch, TouchInput, Places
<1>5. /\ w'.pc = "swap" /\ w'.node = w.node /\ w'.history = w.history /\ w'.target = w.target
      /\ w'.in = w.in
      /\ w'.out = w.out /\ w'.ptr = w.ptr /\ w'.old = w.old /\ w'.ret = w.ret /\ w'.after = "unref"
  BY <1>0 DEF FinalCheck, WorkerType, Goto
<1>6. WorkerType(w')
  BY <1>0, PcsFacts DEF FinalCheck, WorkerType, Goto
<1>7. WorkerOK(w', lines', shutdown', reused')
  BY <1>0, <1>1, <1>3, <1>5, <1>6 DEF WorkerOK, CallOK, WriterOK, RekeyOK, InputOK, ShownOK,
     FinalOK, TrueOK, OutHash, hash,
     Writing, Shown, Returned, Swapping, Withdrawn, None
<1>8. Content'
  BY <1>0, <1>1, <1>3, <1>5, <1>7, <1>4 DEF Content, InputLive, BackbufOK
<1>9. ASSUME fault' = None PROVE References'
  <2>1. /\ HeldIn(w) = None /\ HeldOut(w) = None /\ HeldPtr(w) = None
        /\ HeldIn(w') = None /\ HeldOut(w') = None /\ HeldPtr(w') = None
    BY <1>0, <1>5 DEF HeldIn, HeldOut, HeldPtr, InputHeld, OutputHeld
  <2>2. w'.ret.entry = w.ret.entry
    BY <1>0, <1>5 DEF WorkerOK, CallOK, Returned, NoLease
  <2>3. ASSUME NEW f \in Entries
        PROVE  Count(w', backbuf', gui', f)
                 = Count(w, backbuf, gui, f) - One(None, f) + One(None, f)
    BY <1>1, <2>1, <2>2, EntriesAssumption DEF Count, One
  <2>. QED BY <1>0, <1>1, <1>2, <2>3, ReferencesStep DEF Keeps, Live
<1>. QED BY <1>0, <1>8, <1>9 DEF Inv

\* It is not.
LEMMA FinalCheckMissStep ==
    ASSUME Inv, fault = None, FinalCheck, ~(Exists(w.ptr) /\ Published(w.ptr))
    PROVE  Inv'
<1>0. /\ Content /\ References /\ TableOK(lines) /\ HintOK(hint)
      /\ WorkerOK(w, lines, shutdown, reused) /\ WorkerType(w) /\ w.pc = "finalcheck"
      /\ BackbufOK(backbuf, w, lines) /\ GuiOK(gui, lines)
  BY DEF Inv, Content, WorkerOK, FinalCheck, At
<1>1. UNCHANGED <<lines, hint, shutdown, backbuf, gui, runs, flushes, over, reused>>
  BY DEF FinalCheck, Only
<1>2. NoLease \in Leases /\ None \in EntryOrNone
  BY NoLeaseFacts DEF EntryOrNone
<1>3. /\ Keeps(lines, lines') /\ Moves(lines, lines', None, None) /\ Unheld(lines, lines')
      /\ DOMAIN lines' = DOMAIN lines /\ NoLoss(lines, lines')
  BY <1>0, <1>1, KeepsSame
<1>4. /\ WorkerOK(w, lines', shutdown, reused) /\ TableOK(lines')
      /\ BackbufOK(backbuf, w, lines') /\ GuiOK(gui, lines')
  BY <1>0, <1>3, KeepWorker, KeepOthers DEF Keeps, Writing
<1>5. fault' \in Places \cup {None}
  BY DEF FinalCheck, Touch, TouchInput, Places
<1>6. /\ w'.pc = "unref" /\ w'.node = w.node /\ w'.history = w.history /\ w'.target = w.target
      /\ w'.in = w.in
      /\ w'.out = w.out /\ w'.ptr = None /\ w'.old = w.old /\ w'.ret = w.ret /\ w'.after = w.after
  BY <1>0, <1>2 DEF FinalCheck, WorkerType, Goto
<1>7. WorkerType(w')
  BY <1>0, <1>2, PcsFacts DEF FinalCheck, WorkerType, Goto
<1>8. WorkerOK(w', lines', shutdown', reused')
  BY <1>0, <1>1, <1>4, <1>6, <1>7 DEF WorkerOK, CallOK, WriterOK, RekeyOK, InputOK, ShownOK,
     FinalOK, TrueOK, OutHash, hash,
     Writing, Shown, Returned, Swapping, Withdrawn
<1>9. Content'
  BY <1>0, <1>1, <1>4, <1>6, <1>8, <1>5 DEF Content, InputLive, BackbufOK
<1>10. ASSUME fault' = None PROVE References'
  <2>1. /\ HeldIn(w) = None /\ HeldOut(w) = None /\ HeldPtr(w) = None
        /\ HeldIn(w') = None /\ HeldOut(w') = None /\ HeldPtr(w') = None
    BY <1>0, <1>6 DEF HeldIn, HeldOut, HeldPtr, InputHeld, OutputHeld
  <2>2. w'.ret.entry = w.ret.entry
    BY <1>0, <1>6 DEF WorkerOK, CallOK, Returned, NoLease
  <2>3. ASSUME NEW f \in Entries
        PROVE  Count(w', backbuf', gui', f)
                 = Count(w, backbuf, gui, f) - One(None, f) + One(None, f)
    BY <1>1, <2>1, <2>2, EntriesAssumption DEF Count, One
  <2>. QED BY <1>0, <1>1, <1>3, <2>3, ReferencesStep DEF Keeps, Live
<1>. QED BY <1>0, <1>9, <1>10 DEF Inv

\* The line for the backbuffer has kept its hash.
LEMMA SwapKeepsLine == ASSUME Inv, At("swap") PROVE NewLineOrNone = w.ptr /\ w.ptr # None
BY DEF Inv, Content, WorkerOK, FinalOK, Swapping, At, NewLineOrNone, Exists, Live, FinalHash

\* The backbuffer has this hash already, and no recursion was run.
LEMMA SwapSameDoneStep ==
    ASSUME Inv, fault = None, Swap, backbuf.hash = FinalHash /\ w.after = "idle"
    PROVE  Inv'
<1>0. /\ Content /\ References /\ TableOK(lines) /\ HintOK(hint)
      /\ WorkerOK(w, lines, shutdown, reused) /\ WorkerType(w) /\ w.pc = "swap"
      /\ BackbufOK(backbuf, w, lines) /\ GuiOK(gui, lines)
  BY DEF Inv, Content, WorkerOK, Swap, At
<1>k. NewLineOrNone = w.ptr /\ w.ptr # None
  BY SwapKeepsLine DEF Swap
<1>1. UNCHANGED <<lines, hint, shutdown, backbuf, gui, runs, flushes, over, reused>>
  BY <1>k DEF Swap, Only
<1>2. /\ Keeps(lines, lines') /\ Moves(lines, lines', None, None) /\ Unheld(lines, lines')
      /\ DOMAIN lines' = DOMAIN lines /\ NoLoss(lines, lines')
  BY <1>0, <1>1, KeepsSame
<1>3. /\ WorkerOK(w, lines', shutdown, reused) /\ TableOK(lines')
      /\ BackbufOK(backbuf, w, lines') /\ GuiOK(gui, lines')
  BY <1>0, <1>2, KeepWorker, KeepOthers DEF Keeps, Writing
<1>4. fault' \in Places \cup {None}
  BY <1>k DEF Swap, Touch, TouchInput, Places
<1>5. w' = Idle
  BY <1>k, <1>0 DEF Swap, AfterSwap
<1>6. /\ w'.pc = "idle" /\ w'.node = 1 /\ w'.history = NoHash /\ w'.target = 1 /\ w'.in = None
      /\ w'.out = None /\ w'.ptr = None /\ w'.old = None /\ w'.ret = NoLease /\ w'.after = None
  BY <1>5, IdleFacts
<1>7. WorkerType(w')
  BY <1>5, IdleFacts
<1>8. WorkerOK(w', lines', shutdown', reused')
  BY <1>0, <1>1, <1>3, <1>6, <1>7 DEF WorkerOK, CallOK, WriterOK, RekeyOK, InputOK, ShownOK,
     FinalOK, TrueOK, OutHash, hash,
     Writing, Shown, Returned, Swapping, Withdrawn, NoLease
<1>9. Content'
  BY <1>0, <1>1, <1>3, <1>6, <1>8, <1>4 DEF Content, InputLive, BackbufOK
<1>10. ASSUME fault' = None PROVE References'
  <2>1. /\ HeldIn(w) = None /\ HeldOut(w) = None /\ HeldPtr(w) = None
        /\ HeldIn(w') = None /\ HeldOut(w') = None /\ HeldPtr(w') = None
    BY <1>0, <1>6 DEF HeldIn, HeldOut, HeldPtr, InputHeld, OutputHeld
  <2>2. w'.ret.entry = None /\ w.ret.entry = None
    BY <1>0, <1>6 DEF WorkerOK, CallOK, Returned, NoLease, Swapping
  <2>3. ASSUME NEW f \in Entries
        PROVE  Count(w', backbuf', gui', f)
                 = Count(w, backbuf, gui, f) - One(None, f) + One(None, f)
    BY <1>1, <2>1, <2>2, EntriesAssumption DEF Count, One
  <2>. QED BY <1>0, <1>1, <1>2, <2>3, ReferencesStep DEF Keeps, Live
<1>. QED BY <1>0, <1>9, <1>10 DEF Inv

\* It has, after a recursion.
LEMMA SwapSameStep ==
    ASSUME Inv, fault = None, Swap, backbuf.hash = FinalHash /\ w.after # "idle"
    PROVE  Inv'
<1>0. /\ Content /\ References /\ TableOK(lines) /\ HintOK(hint)
      /\ WorkerOK(w, lines, shutdown, reused) /\ WorkerType(w) /\ w.pc = "swap"
      /\ BackbufOK(backbuf, w, lines) /\ GuiOK(gui, lines)
  BY DEF Inv, Content, WorkerOK, Swap, At
<1>k. NewLineOrNone = w.ptr /\ w.ptr # None
  BY SwapKeepsLine DEF Swap
<1>1. UNCHANGED <<lines, hint, shutdown, backbuf, gui, runs, flushes, over, reused>>
  BY <1>k DEF Swap, Only
<1>2. NoLease \in Leases /\ None \in EntryOrNone
  BY NoLeaseFacts DEF EntryOrNone
<1>3. /\ Keeps(lines, lines') /\ Moves(lines, lines', None, None) /\ Unheld(lines, lines')
      /\ DOMAIN lines' = DOMAIN lines /\ NoLoss(lines, lines')
  BY <1>0, <1>1, KeepsSame
<1>4. /\ WorkerOK(w, lines', shutdown, reused) /\ TableOK(lines')
      /\ BackbufOK(backbuf, w, lines') /\ GuiOK(gui, lines')
  BY <1>0, <1>3, KeepWorker, KeepOthers DEF Keeps, Writing
<1>5. fault' \in Places \cup {None}
  BY <1>k DEF Swap, Touch, TouchInput, Places
<1>6. /\ w'.pc = "unref" /\ w'.node = w.node /\ w'.history = w.history /\ w'.target = w.target
      /\ w'.in = w.in
      /\ w'.out = w.out /\ w'.ptr = None /\ w'.old = None /\ w'.ret = w.ret /\ w'.after = w.after
  BY <1>k, <1>0, <1>2 DEF Swap, WorkerType, AfterSwap
<1>7. WorkerType(w')
  BY <1>k, <1>0, <1>2, PcsFacts DEF Swap, WorkerType, AfterSwap
<1>8. WorkerOK(w', lines', shutdown', reused')
  BY <1>0, <1>1, <1>4, <1>6, <1>7 DEF WorkerOK, CallOK, WriterOK, RekeyOK, InputOK, ShownOK,
     FinalOK, TrueOK, OutHash, hash,
     Writing, Shown, Returned, Swapping, Withdrawn
<1>9. Content'
  BY <1>0, <1>1, <1>4, <1>6, <1>8, <1>5 DEF Content, InputLive, BackbufOK
<1>10. ASSUME fault' = None PROVE References'
  <2>1. /\ HeldIn(w) = None /\ HeldOut(w) = None /\ HeldPtr(w) = None
        /\ HeldIn(w') = None /\ HeldOut(w') = None /\ HeldPtr(w') = None
    BY <1>0, <1>6 DEF HeldIn, HeldOut, HeldPtr, InputHeld, OutputHeld
  <2>2. w'.ret.entry = w.ret.entry
    BY <1>0, <1>6 DEF WorkerOK, CallOK, Returned, NoLease
  <2>3. ASSUME NEW f \in Entries
        PROVE  Count(w', backbuf', gui', f)
                 = Count(w, backbuf, gui, f) - One(None, f) + One(None, f)
    BY <1>1, <2>1, <2>2, EntriesAssumption DEF Count, One
  <2>. QED BY <1>0, <1>1, <1>3, <2>3, ReferencesStep DEF Keeps, Live
<1>. QED BY <1>0, <1>9, <1>10 DEF Inv

\* The old line is found by the hash of the backbuffer.
LEMMA SwapFoundStep ==
    ASSUME Inv, fault = None, Swap, backbuf.hash # FinalHash /\ Found(backbuf.hash) # {}
    PROVE  Inv'
<1>0. /\ Content /\ References /\ TableOK(lines) /\ HintOK(hint)
      /\ WorkerOK(w, lines, shutdown, reused) /\ WorkerType(w) /\ w.pc = "swap"
      /\ BackbufOK(backbuf, w, lines) /\ GuiOK(gui, lines)
  BY DEF Inv, Content, WorkerOK, Swap, At
<1>k. NewLineOrNone = w.ptr /\ w.ptr # None
  BY SwapKeepsLine DEF Swap
<1>1. UNCHANGED <<hint, shutdown, gui, runs, flushes, reused>>
  BY <1>k DEF Swap, Only
<1>2. /\ FoundOrNone(backbuf.hash) \in EntryOrNone /\ FoundOrNone(backbuf.hash) # None
      /\ FoundOrNone(backbuf.hash) \in Live
      /\ lines[FoundOrNone(backbuf.hash)].hash = backbuf.hash
  BY <1>0, FoundFacts
<1>3. /\ backbuf' \in Leases /\ backbuf'.hash = backbuf.hash
      /\ backbuf'.entry = FoundOrNone(backbuf.hash)
  BY <1>k, <1>0, <1>2 DEF Swap, BackbufOK, Leases
<1>4. lines' = Reattributed(lines, backbuf) /\ Stray(backbuf)
  BY <1>k DEF Swap
<1>5. FoundOrNone(backbuf.hash) = FoundOrNone(backbuf.hash) /\ backbuf.entry \in EntryOrNone
  BY <1>0, <1>2 DEF WorkerType, Leases, BackbufOK, GuiOK
<1>6. /\ Keeps(lines, lines') /\ Moves(lines, lines', backbuf.entry, FoundOrNone(backbuf.hash))
      /\ Unheld(lines, lines')
      /\ DOMAIN lines' = DOMAIN lines
      /\ FoundOrNone(backbuf.hash) \in {backbuf.entry, None} => NoLoss(lines, lines')
  BY <1>0, <1>4, <1>5, ReattributedMoves DEF Live
<1>7. over' \in BOOLEAN /\ (over => over') /\ (over' \/ NoLoss(lines, lines'))
  BY <1>0, <1>4, <1>5, <1>6 DEF Stray, Content
<1>8. /\ WorkerOK(w, lines', shutdown, reused) /\ TableOK(lines')
      /\ BackbufOK(backbuf, w, lines') /\ GuiOK(gui, lines')
  BY <1>0, <1>6, KeepWorker, KeepOthers DEF Keeps, Writing
<1>9. fault' \in Places \cup {None}
  BY <1>k DEF Swap, Touch, TouchInput, Places
<1>10. /\ w'.pc = "swapold" /\ w'.node = w.node /\ w'.history = w.history /\ w'.target = w.target
       /\ w'.in = w.in
       /\ w'.out = w.out /\ w'.ptr = w.ptr /\ w'.old = FoundOrNone(backbuf.hash) /\ w'.ret = w.ret
       /\ w'.after = w.after
  BY <1>k, <1>0, <1>2 DEF Swap, WorkerType, Goto
<1>11. WorkerType(w')
  BY <1>k, <1>0, <1>2, PcsFacts DEF Swap, WorkerType, Goto
<1>12. WorkerOK(w', lines', shutdown', reused')
  BY <1>0, <1>1, <1>8, <1>10, <1>11 DEF WorkerOK, CallOK, WriterOK, RekeyOK, InputOK, ShownOK,
     FinalOK, TrueOK, OutHash, hash,
     Writing, Shown, Returned, Swapping, Withdrawn
<1>13. BackbufOK(backbuf', w', lines')
  BY <1>0, <1>2, <1>3, <1>6, <1>10, <1>8 DEF BackbufOK, Keeps, Live
<1>14. Content'
  BY <1>0, <1>1, <1>8, <1>10, <1>12, <1>9, <1>7, <1>13 DEF Content, InputLive
<1>15. ASSUME fault' = None PROVE References'
  <2>1. /\ HeldIn(w) = None /\ HeldOut(w) = None /\ HeldPtr(w) = None
        /\ HeldIn(w') = None /\ HeldOut(w') = None /\ HeldPtr(w') = None
    BY <1>0, <1>10 DEF HeldIn, HeldOut, HeldPtr, InputHeld, OutputHeld
  <2>2. w'.ret.entry = w.ret.entry /\ backbuf'.entry = FoundOrNone(backbuf.hash)
    BY <1>0, <1>10, <1>3 DEF WorkerOK, CallOK, Returned, NoLease
  <2>3. ASSUME NEW f \in Entries
        PROVE  Count(w', backbuf', gui', f)
                 = Count(w, backbuf, gui, f) - One(backbuf.entry, f) + One(FoundOrNone(backbuf.hash), f)
    BY <1>1, <2>1, <2>2, EntriesAssumption DEF Count, One
  <2>4. FoundOrNone(backbuf.hash) \in Live' \cup {None}
    BY <1>2, <1>6 DEF Live
  <2>. QED BY <1>0, <1>1, <1>6, <2>3, <2>4, <1>7, ReferencesStep DEF Keeps, Live
<1>. QED BY <1>0, <1>14, <1>15 DEF Inv

\* It has gone.
LEMMA SwapGoneStep ==
    ASSUME Inv, fault = None, Swap, backbuf.hash # FinalHash /\ Found(backbuf.hash) = {}
    PROVE  Inv'
<1>0. /\ Content /\ References /\ TableOK(lines) /\ HintOK(hint)
      /\ WorkerOK(w, lines, shutdown, reused) /\ WorkerType(w) /\ w.pc = "swap"
      /\ BackbufOK(backbuf, w, lines) /\ GuiOK(gui, lines)
  BY DEF Inv, Content, WorkerOK, Swap, At
<1>k. NewLineOrNone = w.ptr /\ w.ptr # None
  BY SwapKeepsLine DEF Swap
<1>1. UNCHANGED <<hint, shutdown, gui, runs, flushes, reused>>
  BY <1>k DEF Swap, Only
<1>2. NoLease \in Leases /\ None \in EntryOrNone
  BY NoLeaseFacts DEF EntryOrNone
<1>3. FoundOrNone(backbuf.hash) = None
  BY <1>0, FoundFacts
<1>4. backbuf' \in Leases /\ backbuf'.hash = backbuf.hash /\ backbuf'.entry = None
  BY <1>k, <1>0, <1>3, <1>2 DEF Swap, BackbufOK, Leases
<1>5. None \notin DOMAIN lines
  BY <1>0, EntriesAssumption DEF TableOK
<1>6. lines' = Reattributed(lines, backbuf) /\ Stray(backbuf)
  BY <1>k DEF Swap
<1>7. None = FoundOrNone(backbuf.hash) /\ backbuf.entry \in EntryOrNone
  BY <1>0, <1>3 DEF WorkerType, Leases, BackbufOK, GuiOK
<1>8. /\ Keeps(lines, lines') /\ Moves(lines, lines', backbuf.entry, None) /\ Unheld(lines, lines')
      /\ DOMAIN lines' = DOMAIN lines
      /\ None \in {backbuf.entry, None} => NoLoss(lines, lines')
  BY <1>0, <1>6, <1>7, ReattributedMoves DEF Live
<1>9. over' \in BOOLEAN /\ (over => over') /\ (over' \/ NoLoss(lines, lines'))
  BY <1>0, <1>6, <1>7, <1>8 DEF Stray, Content
<1>10. /\ WorkerOK(w, lines', shutdown, reused) /\ TableOK(lines')
       /\ BackbufOK(backbuf, w, lines') /\ GuiOK(gui, lines')
  BY <1>0, <1>8, KeepWorker, KeepOthers DEF Keeps, Writing
<1>11. fault' \in Places \cup {None}
  BY <1>k DEF Swap, Touch, TouchInput, Places
<1>12. /\ w'.pc = "swapnew" /\ w'.node = w.node /\ w'.history = w.history /\ w'.target = w.target
       /\ w'.in = w.in
       /\ w'.out = w.out /\ w'.ptr = w.ptr /\ w'.old = None /\ w'.ret = w.ret /\ w'.after = w.after
  BY <1>k, <1>0, <1>3, <1>2 DEF Swap, WorkerType, Goto
<1>13. WorkerType(w')
  BY <1>k, <1>0, <1>3, <1>2, PcsFacts DEF Swap, WorkerType, Goto
<1>14. WorkerOK(w', lines', shutdown', reused')
  BY <1>0, <1>1, <1>10, <1>12, <1>13 DEF WorkerOK, CallOK, WriterOK, RekeyOK, InputOK, ShownOK,
     FinalOK, TrueOK, OutHash, hash,
     Writing, Shown, Returned, Swapping, Withdrawn
<1>15. BackbufOK(backbuf', w', lines')
  BY <1>0, <1>4, <1>8, <1>12, <1>10, <1>5 DEF BackbufOK, Keeps
<1>16. Content'
  BY <1>0, <1>1, <1>10, <1>12, <1>14, <1>11, <1>9, <1>15 DEF Content, InputLive
<1>17. ASSUME fault' = None PROVE References'
  <2>1. /\ HeldIn(w) = None /\ HeldOut(w) = None /\ HeldPtr(w) = None
        /\ HeldIn(w') = None /\ HeldOut(w') = None /\ HeldPtr(w') = None
    BY <1>0, <1>12 DEF HeldIn, HeldOut, HeldPtr, InputHeld, OutputHeld
  <2>2. w'.ret.entry = w.ret.entry /\ backbuf'.entry = None
    BY <1>0, <1>12, <1>4 DEF WorkerOK, CallOK, Returned, NoLease
  <2>3. ASSUME NEW f \in Entries
        PROVE  Count(w', backbuf', gui', f)
                 = Count(w, backbuf, gui, f) - One(backbuf.entry, f) + One(None, f)
    BY <1>1, <2>1, <2>2, EntriesAssumption DEF Count, One
  <2>. QED BY <1>0, <1>1, <1>8, <2>3, <1>9, ReferencesStep DEF Keeps, Live
<1>. QED BY <1>0, <1>16, <1>17 DEF Inv

\* The old line is released.
LEMMA SwapOldStep ==
    ASSUME Inv, fault = None, SwapOld
    PROVE  Inv'
<1>0. /\ Content /\ References /\ TableOK(lines) /\ HintOK(hint)
      /\ WorkerOK(w, lines, shutdown, reused) /\ WorkerType(w) /\ w.pc = "swapold"
      /\ BackbufOK(backbuf, w, lines) /\ GuiOK(gui, lines)
  BY DEF Inv, Content, WorkerOK, SwapOld, At
<1>1. UNCHANGED <<hint, shutdown, gui, runs, flushes, over, reused>>
  BY DEF SwapOld, Only
<1>2. NoLease \in Leases /\ None \in EntryOrNone
  BY NoLeaseFacts DEF EntryOrNone
<1>3. backbuf' \in Leases /\ backbuf'.hash = backbuf.hash /\ backbuf'.entry = None
  BY <1>0, <1>2 DEF SwapOld, BackbufOK, Leases
<1>4. None \notin DOMAIN lines
  BY <1>0, EntriesAssumption DEF TableOK
<1>5. lines' = RefCount(lines, w.old, -1)
  BY DEF SwapOld
<1>6. /\ Keeps(lines, lines') /\ Moves(lines, lines', w.old, None) /\ Unheld(lines, lines')
      /\ DOMAIN lines' = DOMAIN lines /\ NoLoss(lines, lines')
  BY <1>0, <1>5, RefCountDown
<1>7. /\ WorkerOK(w, lines', shutdown, reused) /\ TableOK(lines')
      /\ BackbufOK(backbuf, w, lines') /\ GuiOK(gui, lines')
  BY <1>0, <1>6, KeepWorker, KeepOthers DEF Keeps, Writing
<1>8. fault' \in Places \cup {None}
  BY DEF SwapOld, Touch, TouchInput, Places
<1>9. /\ w'.pc = "swapnew" /\ w'.node = w.node /\ w'.history = w.history /\ w'.target = w.target
      /\ w'.in = w.in
      /\ w'.out = w.out /\ w'.ptr = w.ptr /\ w'.old = w.old /\ w'.ret = w.ret /\ w'.after = w.after
  BY <1>0 DEF SwapOld, WorkerType, Goto
<1>10. WorkerType(w')
  BY <1>0, PcsFacts DEF SwapOld, WorkerType, Goto
<1>11. WorkerOK(w', lines', shutdown', reused')
  BY <1>0, <1>1, <1>7, <1>9, <1>10 DEF WorkerOK, CallOK, WriterOK, RekeyOK, InputOK, ShownOK,
     FinalOK, TrueOK, OutHash, hash,
     Writing, Shown, Returned, Swapping, Withdrawn
<1>12. BackbufOK(backbuf', w', lines')
  BY <1>0, <1>3, <1>6, <1>9, <1>7, <1>4 DEF BackbufOK, Keeps
<1>13. Content'
  BY <1>0, <1>1, <1>7, <1>9, <1>11, <1>8, <1>12 DEF Content, InputLive
<1>14. ASSUME fault' = None PROVE References'
  <2>1. /\ HeldIn(w) = None /\ HeldOut(w) = None /\ HeldPtr(w) = None
        /\ HeldIn(w') = None /\ HeldOut(w') = None /\ HeldPtr(w') = None
    BY <1>0, <1>9 DEF HeldIn, HeldOut, HeldPtr, InputHeld, OutputHeld
  <2>2. w'.ret.entry = w.ret.entry /\ backbuf'.entry = None /\ backbuf.entry = w.old
    BY <1>0, <1>9, <1>3 DEF WorkerOK, CallOK, Returned, NoLease, BackbufOK
  <2>3. ASSUME NEW f \in Entries
        PROVE  Count(w', backbuf', gui', f)
                 = Count(w, backbuf, gui, f) - One(w.old, f) + One(None, f)
    BY <1>1, <2>1, <2>2, EntriesAssumption DEF Count, One
  <2>. QED BY <1>0, <1>1, <1>6, <2>3, ReferencesStep DEF Keeps, Live
<1>. QED BY <1>0, <1>13, <1>14 DEF Inv

\* The new line is referenced and its hash published; no recursion was run.
LEMMA SwapNewDoneStep ==
    ASSUME Inv, fault = None, SwapNew, w.after = "idle"
    PROVE  Inv'
<1>0. /\ Content /\ References /\ TableOK(lines) /\ HintOK(hint)
      /\ WorkerOK(w, lines, shutdown, reused) /\ WorkerType(w) /\ w.pc = "swapnew"
      /\ BackbufOK(backbuf, w, lines) /\ GuiOK(gui, lines)
  BY DEF Inv, Content, WorkerOK, SwapNew, At
<1>k. w.ptr # None
  BY <1>0 DEF WorkerOK, FinalOK, Swapping
<1>1. UNCHANGED <<hint, shutdown, gui, runs, flushes, over, reused>>
  BY <1>k DEF SwapNew, Only
<1>2. NoLease \in Leases /\ None \in EntryOrNone
  BY NoLeaseFacts DEF EntryOrNone
<1>3. FinalHash \in Hashes /\ FinalHash # NoHash /\ Len(FinalHash) = Modules
  BY <1>0, FinalHashOK, HashFacts DEF WorkerOK, FinalHash
<1>4. backbuf' \in Leases /\ backbuf'.hash = FinalHash /\ backbuf'.entry = w.ptr
  BY <1>k, <1>0, <1>3 DEF SwapNew, WorkerType, Leases
<1>5. w.ptr # None /\ (w.ptr \in DOMAIN lines => lines[w.ptr].hash = FinalHash)
  BY <1>0 DEF WorkerOK, FinalOK, Swapping, FinalHash
<1>6. lines' = RefCount(lines, w.ptr, 1)
  BY <1>k DEF SwapNew
<1>7. /\ Keeps(lines, lines') /\ Moves(lines, lines', None, w.ptr) /\ Unheld(lines, lines')
      /\ DOMAIN lines' = DOMAIN lines /\ NoLoss(lines, lines')
  BY <1>0, <1>6, RefCountUp
<1>8. /\ WorkerOK(w, lines', shutdown, reused) /\ TableOK(lines')
      /\ BackbufOK(backbuf, w, lines') /\ GuiOK(gui, lines')
  BY <1>0, <1>7, KeepWorker, KeepOthers DEF Keeps, Writing
<1>9. fault' \in Places \cup {None}
  BY <1>k DEF SwapNew, Touch, TouchInput, Places
<1>10. w' = Idle
  BY <1>k, <1>0, <1>2 DEF SwapNew, AfterSwap
<1>11. /\ w'.pc = "idle" /\ w'.node = 1 /\ w'.history = NoHash /\ w'.target = 1 /\ w'.in = None
       /\ w'.out = None /\ w'.ptr = None /\ w'.old = None /\ w'.ret = NoLease /\ w'.after = None
  BY <1>10, IdleFacts
<1>12. WorkerType(w')
  BY <1>10, IdleFacts
<1>13. WorkerOK(w', lines', shutdown', reused')
  BY <1>0, <1>1, <1>8, <1>11, <1>12 DEF WorkerOK, CallOK, WriterOK, RekeyOK, InputOK, ShownOK,
     FinalOK, TrueOK, OutHash, hash,
     Writing, Shown, Returned, Swapping, Withdrawn, NoLease
<1>14. BackbufOK(backbuf', w', lines')
  BY <1>0, <1>3, <1>4, <1>5, <1>7, <1>11 DEF BackbufOK, Keeps
<1>15. Content'
  BY <1>0, <1>1, <1>8, <1>11, <1>13, <1>9, <1>14 DEF Content, InputLive
<1>16. ASSUME fault' = None PROVE References'
  <2>1. /\ HeldIn(w) = None /\ HeldOut(w) = None /\ HeldPtr(w) = None
        /\ HeldIn(w') = None /\ HeldOut(w') = None /\ HeldPtr(w') = None
    BY <1>0, <1>11 DEF HeldIn, HeldOut, HeldPtr, InputHeld, OutputHeld
  <2>2. w'.ret.entry = None /\ backbuf'.entry = w.ptr /\ backbuf.entry = None /\ w.ret.entry = None
    BY <1>0, <1>11, <1>4 DEF WorkerOK, CallOK, Returned, NoLease, BackbufOK, Swapping
  <2>3. ASSUME NEW f \in Entries
        PROVE  Count(w', backbuf', gui', f)
                 = Count(w, backbuf, gui, f) - One(None, f) + One(w.ptr, f)
    BY <1>1, <2>1, <2>2, EntriesAssumption DEF Count, One
  <2>4. w.ptr \in Live' \cup {None}
    BY <1>k, <1>7, <1>16 DEF SwapNew, Touch, Exists, None, Live
  <2>. QED BY <1>0, <1>1, <1>7, <2>3, <2>4, ReferencesStep DEF Keeps, Live
<1>. QED BY <1>0, <1>15, <1>16 DEF Inv

\* The same after a recursion.
LEMMA SwapNewStep ==
    ASSUME Inv, fault = None, SwapNew, w.after # "idle"
    PROVE  Inv'
<1>0. /\ Content /\ References /\ TableOK(lines) /\ HintOK(hint)
      /\ WorkerOK(w, lines, shutdown, reused) /\ WorkerType(w) /\ w.pc = "swapnew"
      /\ BackbufOK(backbuf, w, lines) /\ GuiOK(gui, lines)
  BY DEF Inv, Content, WorkerOK, SwapNew, At
<1>k. w.ptr # None
  BY <1>0 DEF WorkerOK, FinalOK, Swapping
<1>1. UNCHANGED <<hint, shutdown, gui, runs, flushes, over, reused>>
  BY <1>k DEF SwapNew, Only
<1>2. NoLease \in Leases /\ None \in EntryOrNone
  BY NoLeaseFacts DEF EntryOrNone
<1>3. FinalHash \in Hashes /\ FinalHash # NoHash /\ Len(FinalHash) = Modules
  BY <1>0, FinalHashOK, HashFacts DEF WorkerOK, FinalHash
<1>4. backbuf' \in Leases /\ backbuf'.hash = FinalHash /\ backbuf'.entry = w.ptr
  BY <1>k, <1>0, <1>3 DEF SwapNew, WorkerType, Leases
<1>5. w.ptr # None /\ (w.ptr \in DOMAIN lines => lines[w.ptr].hash = FinalHash)
  BY <1>0 DEF WorkerOK, FinalOK, Swapping, FinalHash
<1>6. lines' = RefCount(lines, w.ptr, 1)
  BY <1>k DEF SwapNew
<1>7. /\ Keeps(lines, lines') /\ Moves(lines, lines', None, w.ptr) /\ Unheld(lines, lines')
      /\ DOMAIN lines' = DOMAIN lines /\ NoLoss(lines, lines')
  BY <1>0, <1>6, RefCountUp
<1>8. /\ WorkerOK(w, lines', shutdown, reused) /\ TableOK(lines')
      /\ BackbufOK(backbuf, w, lines') /\ GuiOK(gui, lines')
  BY <1>0, <1>7, KeepWorker, KeepOthers DEF Keeps, Writing
<1>9. fault' \in Places \cup {None}
  BY <1>k DEF SwapNew, Touch, TouchInput, Places
<1>10. /\ w'.pc = "unref" /\ w'.node = w.node /\ w'.history = w.history /\ w'.target = w.target
       /\ w'.in = w.in
       /\ w'.out = w.out /\ w'.ptr = None /\ w'.old = None /\ w'.ret = w.ret /\ w'.after = w.after
  BY <1>k, <1>0, <1>2 DEF SwapNew, WorkerType, AfterSwap
<1>11. WorkerType(w')
  BY <1>k, <1>0, <1>2, PcsFacts DEF SwapNew, WorkerType, AfterSwap
<1>12. WorkerOK(w', lines', shutdown', reused')
  BY <1>0, <1>1, <1>8, <1>10, <1>11 DEF WorkerOK, CallOK, WriterOK, RekeyOK, InputOK, ShownOK,
     FinalOK, TrueOK, OutHash, hash,
     Writing, Shown, Returned, Swapping, Withdrawn
<1>13. BackbufOK(backbuf', w', lines')
  BY <1>0, <1>3, <1>4, <1>5, <1>7, <1>10 DEF BackbufOK, Keeps
<1>14. Content'
  BY <1>0, <1>1, <1>8, <1>10, <1>12, <1>9, <1>13 DEF Content, InputLive
<1>15. ASSUME fault' = None PROVE References'
  <2>1. /\ HeldIn(w) = None /\ HeldOut(w) = None /\ HeldPtr(w) = None
        /\ HeldIn(w') = None /\ HeldOut(w') = None /\ HeldPtr(w') = None
    BY <1>0, <1>10 DEF HeldIn, HeldOut, HeldPtr, InputHeld, OutputHeld
  <2>2. w'.ret.entry = w.ret.entry /\ backbuf'.entry = w.ptr /\ backbuf.entry = None
    BY <1>0, <1>10, <1>4 DEF WorkerOK, CallOK, Returned, NoLease, BackbufOK, Swapping
  <2>3. ASSUME NEW f \in Entries
        PROVE  Count(w', backbuf', gui', f)
                 = Count(w, backbuf, gui, f) - One(None, f) + One(w.ptr, f)
    BY <1>1, <2>1, <2>2, EntriesAssumption DEF Count, One
  <2>4. w.ptr \in Live' \cup {None}
    BY <1>k, <1>7, <1>15 DEF SwapNew, Touch, Exists, None, Live
  <2>. QED BY <1>0, <1>1, <1>7, <2>3, <2>4, ReferencesStep DEF Keeps, Live
<1>. QED BY <1>0, <1>14, <1>15 DEF Inv

\* The returned line has gone.
LEMMA UnrefMissingStep ==
    ASSUME Inv, fault = None, UnrefLookup, Found(w.ret.hash) = {}
    PROVE  Inv'
<1>0. /\ Content /\ References /\ TableOK(lines) /\ HintOK(hint)
      /\ WorkerOK(w, lines, shutdown, reused) /\ WorkerType(w) /\ w.pc = "unref"
      /\ BackbufOK(backbuf, w, lines) /\ GuiOK(gui, lines)
  BY DEF Inv, Content, WorkerOK, UnrefLookup, At
<1>1. UNCHANGED <<hint, fault, shutdown, backbuf, gui, runs, flushes, reused>>
  BY DEF UnrefLookup, Only
<1>2. FoundOrNone(w.ret.hash) = None
  BY <1>0, FoundFacts
<1>3. lines' = Reattributed(lines, w.ret) /\ Stray(w.ret)
  BY DEF UnrefLookup
<1>4. None = FoundOrNone(w.ret.hash) /\ w.ret.entry \in EntryOrNone
  BY <1>0, <1>2 DEF WorkerType, Leases, BackbufOK, GuiOK
<1>5. /\ Keeps(lines, lines') /\ Moves(lines, lines', w.ret.entry, None) /\ Unheld(lines, lines')
      /\ DOMAIN lines' = DOMAIN lines
      /\ None \in {w.ret.entry, None} => NoLoss(lines, lines')
  BY <1>0, <1>3, <1>4, ReattributedMoves DEF Live
<1>6. over' \in BOOLEAN /\ (over => over') /\ (over' \/ NoLoss(lines, lines'))
  BY <1>0, <1>3, <1>4, <1>5 DEF Stray, Content
<1>7. /\ WorkerOK(w, lines', shutdown, reused) /\ TableOK(lines')
      /\ BackbufOK(backbuf, w, lines') /\ GuiOK(gui, lines')
  BY <1>0, <1>5, KeepWorker, KeepOthers DEF Keeps, Writing
<1>8. w' = Idle
  BY <1>0 DEF UnrefLookup
<1>9. /\ w'.pc = "idle" /\ w'.node = 1 /\ w'.history = NoHash /\ w'.target = 1 /\ w'.in = None
      /\ w'.out = None /\ w'.ptr = None /\ w'.old = None /\ w'.ret = NoLease /\ w'.after = None
  BY <1>8, IdleFacts
<1>10. WorkerType(w')
  BY <1>8, IdleFacts
<1>11. WorkerOK(w', lines', shutdown', reused')
  BY <1>0, <1>1, <1>7, <1>9, <1>10 DEF WorkerOK, CallOK, WriterOK, RekeyOK, InputOK, ShownOK,
     FinalOK, TrueOK, OutHash, hash,
     Writing, Shown, Returned, Swapping, Withdrawn, NoLease
<1>12. Content'
  BY <1>0, <1>1, <1>7, <1>9, <1>11, <1>6 DEF Content, InputLive, BackbufOK
<1>13. ASSUME fault' = None PROVE References'
  <2>1. /\ HeldIn(w) = None /\ HeldOut(w) = None /\ HeldPtr(w) = None
        /\ HeldIn(w') = None /\ HeldOut(w') = None /\ HeldPtr(w') = None
    BY <1>0, <1>9 DEF HeldIn, HeldOut, HeldPtr, InputHeld, OutputHeld
  <2>2. w'.ret.entry = None
    BY <1>0, <1>9 DEF WorkerOK, CallOK, Returned, NoLease
  <2>3. ASSUME NEW f \in Entries
        PROVE  Count(w', backbuf', gui', f)
                 = Count(w, backbuf, gui, f) - One(w.ret.entry, f) + One(None, f)
    BY <1>1, <2>1, <2>2, EntriesAssumption DEF Count, One
  <2>. QED BY <1>0, <1>1, <1>5, <2>3, <1>6, ReferencesStep DEF Keeps, Live
<1>. QED BY <1>0, <1>12, <1>13 DEF Inv

\* It is found by its hash.
LEMMA UnrefLookupStep ==
    ASSUME Inv, fault = None, UnrefLookup, Found(w.ret.hash) # {}
    PROVE  Inv'
<1>0. /\ Content /\ References /\ TableOK(lines) /\ HintOK(hint)
      /\ WorkerOK(w, lines, shutdown, reused) /\ WorkerType(w) /\ w.pc = "unref"
      /\ BackbufOK(backbuf, w, lines) /\ GuiOK(gui, lines)
  BY DEF Inv, Content, WorkerOK, UnrefLookup, At
<1>1. UNCHANGED <<hint, fault, shutdown, backbuf, gui, runs, flushes, reused>>
  BY DEF UnrefLookup, Only
<1>2. FoundOrNone(w.ret.hash) \in EntryOrNone /\ FoundOrNone(w.ret.hash) \in Live
  BY <1>0, FoundFacts
<1>3. [w.ret EXCEPT !.entry = FoundOrNone(w.ret.hash)] \in Leases
  BY <1>0, <1>2 DEF WorkerType, Leases
<1>4. lines' = Reattributed(lines, w.ret) /\ Stray(w.ret)
  BY DEF UnrefLookup
<1>5. FoundOrNone(w.ret.hash) = FoundOrNone(w.ret.hash) /\ w.ret.entry \in EntryOrNone
  BY <1>0, <1>2 DEF WorkerType, Leases, BackbufOK, GuiOK
<1>6. /\ Keeps(lines, lines') /\ Moves(lines, lines', w.ret.entry, FoundOrNone(w.ret.hash))
      /\ Unheld(lines, lines')
      /\ DOMAIN lines' = DOMAIN lines
      /\ FoundOrNone(w.ret.hash) \in {w.ret.entry, None} => NoLoss(lines, lines')
  BY <1>0, <1>4, <1>5, ReattributedMoves DEF Live
<1>7. over' \in BOOLEAN /\ (over => over') /\ (over' \/ NoLoss(lines, lines'))
  BY <1>0, <1>4, <1>5, <1>6 DEF Stray, Content
<1>8. /\ WorkerOK(w, lines', shutdown, reused) /\ TableOK(lines')
      /\ BackbufOK(backbuf, w, lines') /\ GuiOK(gui, lines')
  BY <1>0, <1>6, KeepWorker, KeepOthers DEF Keeps, Writing
<1>9. WorkerType(w) /\ w' = [w EXCEPT !.pc = "unrefdone", !.ret = [w.ret EXCEPT !.entry = FoundOrNone(w.ret.hash)]]
  BY <1>0 DEF UnrefLookup, Goto
<1>10. /\ w'.pc = "unrefdone" /\ w'.node = w.node /\ w'.history = w.history /\ w'.target = w.target
       /\ w'.in = w.in
       /\ w'.out = w.out /\ w'.ptr = w.ptr /\ w'.old = w.old
       /\ w'.ret = [w.ret EXCEPT !.entry = FoundOrNone(w.ret.hash)] /\ w'.after = w.after
  BY <1>0, <1>9 DEF WorkerType
<1>11. WorkerType(w')
  BY <1>9, <1>3, PcsFacts DEF WorkerType
<1>12. w'.ret.entry = FoundOrNone(w.ret.hash)
  BY <1>0, <1>10 DEF WorkerType, Leases
<1>13. WorkerOK(w', lines', shutdown', reused')
  BY <1>0, <1>1, <1>8, <1>10, <1>11 DEF WorkerOK, CallOK, WriterOK, RekeyOK, InputOK, ShownOK,
     FinalOK, TrueOK, OutHash, hash,
     Writing, Shown, Returned, Swapping, Withdrawn
<1>14. Content'
  BY <1>0, <1>1, <1>8, <1>10, <1>13, <1>7 DEF Content, InputLive, BackbufOK
<1>15. ASSUME fault' = None PROVE References'
  <2>1. /\ HeldIn(w) = None /\ HeldOut(w) = None /\ HeldPtr(w) = None
        /\ HeldIn(w') = None /\ HeldOut(w') = None /\ HeldPtr(w') = None
    BY <1>0, <1>10 DEF HeldIn, HeldOut, HeldPtr, InputHeld, OutputHeld
  <2>2. w'.ret.entry = FoundOrNone(w.ret.hash)
    BY <1>0, <1>10, <1>12 DEF WorkerOK, CallOK, Returned, NoLease
  <2>3. ASSUME NEW f \in Entries
        PROVE  Count(w', backbuf', gui', f)
                 = Count(w, backbuf, gui, f) - One(w.ret.entry, f) + One(FoundOrNone(w.ret.hash), f)
    BY <1>1, <2>1, <2>2, EntriesAssumption DEF Count, One
  <2>4. FoundOrNone(w.ret.hash) \in Live' \cup {None}
    BY <1>2, <1>6 DEF Live
  <2>. QED BY <1>0, <1>1, <1>6, <2>3, <2>4, <1>7, ReferencesStep DEF Keeps, Live
<1>. QED BY <1>0, <1>14, <1>15 DEF Inv

\* It is released.
LEMMA UnrefStep ==
    ASSUME Inv, fault = None, Unref
    PROVE  Inv'
<1>0. /\ Content /\ References /\ TableOK(lines) /\ HintOK(hint)
      /\ WorkerOK(w, lines, shutdown, reused) /\ WorkerType(w) /\ w.pc = "unrefdone"
      /\ BackbufOK(backbuf, w, lines) /\ GuiOK(gui, lines)
  BY DEF Inv, Content, WorkerOK, Unref, At
<1>1. UNCHANGED <<hint, shutdown, backbuf, gui, runs, flushes, over, reused>>
  BY DEF Unref, Only
<1>2. lines' = RefCount(lines, w.ret.entry, -1)
  BY DEF Unref
<1>3. /\ Keeps(lines, lines') /\ Moves(lines, lines', w.ret.entry, None) /\ Unheld(lines, lines')
      /\ DOMAIN lines' = DOMAIN lines /\ NoLoss(lines, lines')
  BY <1>0, <1>2, RefCountDown
<1>4. /\ WorkerOK(w, lines', shutdown, reused) /\ TableOK(lines')
      /\ BackbufOK(backbuf, w, lines') /\ GuiOK(gui, lines')
  BY <1>0, <1>3, KeepWorker, KeepOthers DEF Keeps, Writing
<1>5. fault' \in Places \cup {None}
  BY DEF Unref, Touch, TouchInput, Places
<1>6. w' = Idle
  BY <1>0 DEF Unref
<1>7. /\ w'.pc = "idle" /\ w'.node = 1 /\ w'.history = NoHash /\ w'.target = 1 /\ w'.in = None
      /\ w'.out = None /\ w'.ptr = None /\ w'.old = None /\ w'.ret = NoLease /\ w'.after = None
  BY <1>6, IdleFacts
<1>8. WorkerType(w')
  BY <1>6, IdleFacts
<1>9. WorkerOK(w', lines', shutdown', reused')
  BY <1>0, <1>1, <1>4, <1>7, <1>8 DEF WorkerOK, CallOK, WriterOK, RekeyOK, InputOK, ShownOK,
     FinalOK, TrueOK, OutHash, hash,
     Writing, Shown, Returned, Swapping, Withdrawn, NoLease
<1>10. Content'
  BY <1>0, <1>1, <1>4, <1>7, <1>9, <1>5 DEF Content, InputLive, BackbufOK
<1>11. ASSUME fault' = None PROVE References'
  <2>1. /\ HeldIn(w) = None /\ HeldOut(w) = None /\ HeldPtr(w) = None
        /\ HeldIn(w') = None /\ HeldOut(w') = None /\ HeldPtr(w') = None
    BY <1>0, <1>7 DEF HeldIn, HeldOut, HeldPtr, InputHeld, OutputHeld
  <2>2. w'.ret.entry = None
    BY <1>0, <1>7 DEF WorkerOK, CallOK, Returned, NoLease
  <2>3. ASSUME NEW f \in Entries
        PROVE  Count(w', backbuf', gui', f)
                 = Count(w, backbuf, gui, f) - One(w.ret.entry, f) + One(None, f)
    BY <1>1, <2>1, <2>2, EntriesAssumption DEF Count, One
  <2>. QED BY <1>0, <1>1, <1>3, <2>3, ReferencesStep DEF Keeps, Live
<1>. QED BY <1>0, <1>10, <1>11 DEF Inv

----------------------------------------------------------------------------
(* The GUI, the flush and the collection of lines *)

\* The GUI locks e for reading or unlocks it.
Reads(L, M, e) ==
    /\ DOMAIN M = DOMAIN L
    /\ \A f \in DOMAIN L :
         /\ M[f] \in LineRec /\ M[f].refs = L[f].refs /\ M[f].drift = L[f].drift
         /\ M[f].hash = L[f].hash /\ M[f].pixels = L[f].pixels /\ M[f].writer = L[f].writer
         /\ M[f].auto_destroy = L[f].auto_destroy
         /\ "worker" \in M[f].readers <=> "worker" \in L[f].readers
         /\ f # e => M[f].readers = L[f].readers

\* The worker does not notice, unless it writes the line.
LEMMA ReadsKeeps ==
    ASSUME NEW L, NEW M, NEW e, TableOK(L), Reads(L, M, e), NEW c, NEW b, NEW sh, NEW re,
           WorkerOK(c, L, sh, re), BackbufOK(b, c, L),
           e \in DOMAIN L => ~L[e].writer \/ "gui" \notin M[e].readers
    PROVE  /\ TableOK(M) /\ Moves(L, M, None, None) /\ NoLoss(L, M) /\ Unheld(L, M)
           /\ WorkerOK(c, M, sh, re) /\ BackbufOK(b, c, M)
<1>1. \A d, f \in DOMAIN L : M[d].hash = M[f].hash => d = f
  BY DEF Reads, TableOK
<1>2. TableOK(M) /\ Moves(L, M, None, None) /\ NoLoss(L, M) /\ Unheld(L, M)
  BY <1>1, EditLine DEF Reads
<1>3. BackbufOK(b, c, M)
  BY DEF BackbufOK, Reads
<1>4. WriterOK(c, M)
  BY DEF WorkerOK, WriterOK, Reads
<1>5. RekeyOK(c, M)
  BY DEF WorkerOK, RekeyOK, Reads
<1>6. InputOK(c, M, re)
  BY DEF WorkerOK, InputOK, Reads
<1>7. ShownOK(c, M, sh, re)
  BY DEF WorkerOK, ShownOK, Reads
<1>8. FinalOK(c, M)
  BY DEF WorkerOK, FinalOK, Reads
<1>9. TrueOK(c, M, sh, re)
  BY DEF WorkerOK, TrueOK, Reads
<1>. QED BY <1>2, <1>3, <1>4, <1>5, <1>6, <1>7, <1>8, <1>9 DEF WorkerOK

\* The GUI takes a reference on a published line.
LEMMA RetainStep ==
    ASSUME Inv, fault = None, NEW h \in Hashes, NEW e \in Entries, Retain(h, e)
    PROVE  Inv'
<1>0. /\ Content /\ References /\ TableOK(lines) /\ HintOK(hint) /\ InputLive(w, lines)
      /\ WorkerOK(w, lines, shutdown, reused) /\ BackbufOK(backbuf, w, lines) /\ GuiOK(gui, lines)
      /\ gui.pc = "idle"
  BY DEF Inv, Content, Retain, GuiAt, GuiOnly
<1>1. UNCHANGED <<hint, fault, w, shutdown, backbuf, runs, flushes, over, reused>>
  BY DEF Retain, GuiAt, GuiOnly
<1>2. e \in Live
  BY DEF Retain, HostHit, Found
<1>3. lines' = RefCount(lines, e, 1)
  BY DEF Retain, GuiAt, GuiOnly
<1>4. /\ Keeps(lines, lines') /\ Moves(lines, lines', None, e) /\ Unheld(lines, lines')
      /\ DOMAIN lines' = DOMAIN lines /\ NoLoss(lines, lines')
  BY <1>0, <1>3, RefCountUp
<1>5. /\ WorkerOK(w, lines', shutdown, reused) /\ TableOK(lines')
      /\ BackbufOK(backbuf, w, lines') /\ GuiOK(gui, lines') /\ InputLive(w, lines')
  BY <1>0, <1>4, KeepWorker, KeepOthers DEF Keeps, WorkerOK, WriterOK, RekeyOK, InputOK, InputLive
<1>6. /\ gui'.pc = "held" /\ gui'.hash = h /\ gui'.entry = e
      /\ gui' \in [pc : {"idle", "held", "reading", "read", "releasing", "borrow", "painting"},
                  hash : Hashes \cup {NoHash}, entry : EntryOrNone]
  BY <1>0 DEF Retain, GuiAt, GuiOnly, GuiOK, GuiGoto, GuiIdle, EntryOrNone
<1>7. GuiOK(gui', lines')
  BY <1>0, <1>5, <1>6, <1>4 DEF GuiOK, Live, Keeps
<1>8. Content'
  BY <1>0, <1>1, <1>5, <1>7 DEF Content
<1>9. ASSUME fault' = None PROVE References'
  <2>1. HeldGui(gui) = None /\ HeldGui(gui') = e
    BY <1>0, <1>6 DEF HeldGui
  <2>2. ASSUME NEW f \in Entries
        PROVE  Count(w', backbuf', gui', f) = Count(w, backbuf, gui, f) - One(None, f) + One(e, f)
    BY <1>1, <2>1, EntriesAssumption DEF Count, One
  <2>3. e \in Live' \cup {None}
    BY <1>2, <1>4 DEF Live
  <2>. QED BY <1>0, <1>1, <1>4, <1>5, <2>2, <2>3, ReferencesStep DEF Keeps, Live
<1>. QED BY <1>0, <1>8, <1>9 DEF Inv

\* It locks the line for reading.
LEMMA ReadLockStep ==
    ASSUME Inv, fault = None, ReadLock
    PROVE  Inv'
<1>0. /\ Content /\ References /\ TableOK(lines) /\ HintOK(hint) /\ InputLive(w, lines)
      /\ WorkerOK(w, lines, shutdown, reused) /\ BackbufOK(backbuf, w, lines) /\ GuiOK(gui, lines)
      /\ gui.pc = "held"
  BY DEF Inv, Content, ReadLock, GuiAt, GuiOnly
<1>1. UNCHANGED <<hint, w, shutdown, backbuf, runs, flushes, over, reused>>
  BY DEF ReadLock, GuiAt, GuiOnly
<1>2. Reads(lines, lines', gui.entry) /\ (gui.entry \in Live => "gui" \in lines'[gui.entry].readers)
  BY <1>0 DEF ReadLock, GuiReader, Exists, TableOK, LineRec, Reads, Live
<1>3. gui.entry \in Live => ~lines[gui.entry].writer \/ "gui" \notin lines'[gui.entry].readers
  BY <1>2 DEF ReadLock, Exists
<1>4. /\ TableOK(lines') /\ WorkerOK(w, lines', shutdown, reused) /\ BackbufOK(backbuf, w, lines')
      /\ InputLive(w, lines')
  BY <1>0, <1>2, <1>3, ReadsKeeps DEF InputLive, Reads, Live
<1>5. /\ Moves(lines, lines', None, None) /\ NoLoss(lines, lines') /\ Unheld(lines, lines')
  BY <1>0, <1>2, <1>3, ReadsKeeps DEF Live
<1>6. fault' \in Places \cup {None}
  BY DEF ReadLock, GuiAt, GuiOnly, Touch, Places
<1>7. /\ gui'.pc = "reading" /\ gui'.hash = gui.hash /\ gui'.entry = gui.entry
      /\ gui' \in [pc : {"idle", "held", "reading", "read", "releasing", "borrow", "painting"},
                  hash : Hashes \cup {NoHash}, entry : EntryOrNone]
  BY <1>0 DEF ReadLock, GuiAt, GuiOnly, GuiOK, GuiGoto, GuiIdle, EntryOrNone
<1>8. GuiOK(gui', lines')
  BY <1>0, <1>4, <1>7, <1>2 DEF GuiOK, Live, Reads
<1>9. Content'
  BY <1>0, <1>1, <1>4, <1>6, <1>8 DEF Content
<1>10. ASSUME fault' = None PROVE References'
  <2>1. HeldGui(gui) = gui.entry /\ HeldGui(gui') = gui.entry
    BY <1>0, <1>7 DEF HeldGui
  <2>2. ASSUME NEW f \in Entries
        PROVE  Count(w', backbuf', gui', f)
                 = Count(w, backbuf, gui, f) - One(None, f) + One(None, f)
    BY <1>1, <2>1, EntriesAssumption DEF Count, One
  <2>. QED BY <1>0, <1>1, <1>5, <1>2, <1>4, <2>2, ReferencesStep DEF Keeps, Live, Reads
<1>. QED BY <1>0, <1>9, <1>10 DEF Inv

\* It unlocks the line.
LEMMA ReadUnlockStep ==
    ASSUME Inv, fault = None, ReadUnlock
    PROVE  Inv'
<1>0. /\ Content /\ References /\ TableOK(lines) /\ HintOK(hint) /\ InputLive(w, lines)
      /\ WorkerOK(w, lines, shutdown, reused) /\ BackbufOK(backbuf, w, lines) /\ GuiOK(gui, lines)
      /\ gui.pc = "reading"
  BY DEF Inv, Content, ReadUnlock, GuiAt, GuiOnly
<1>1. UNCHANGED <<hint, w, shutdown, backbuf, runs, flushes, over, reused>>
  BY DEF ReadUnlock, GuiAt, GuiOnly
<1>2. Reads(lines, lines', gui.entry) /\ (gui.entry \in Live => "gui" \notin lines'[gui.entry].readers)
  BY <1>0 DEF ReadUnlock, GuiReader, Exists, TableOK, LineRec, Reads, Live
<1>3. gui.entry \in Live => ~lines[gui.entry].writer \/ "gui" \notin lines'[gui.entry].readers
  BY <1>2 DEF ReadUnlock, Exists
<1>4. /\ TableOK(lines') /\ WorkerOK(w, lines', shutdown, reused) /\ BackbufOK(backbuf, w, lines')
      /\ InputLive(w, lines')
  BY <1>0, <1>2, <1>3, ReadsKeeps DEF InputLive, Reads, Live
<1>5. /\ Moves(lines, lines', None, None) /\ NoLoss(lines, lines') /\ Unheld(lines, lines')
  BY <1>0, <1>2, <1>3, ReadsKeeps DEF Live
<1>6. fault' \in Places \cup {None}
  BY DEF ReadUnlock, GuiAt, GuiOnly, Touch, Places
<1>7. /\ gui'.pc = "read" /\ gui'.hash = gui.hash /\ gui'.entry = gui.entry
      /\ gui' \in [pc : {"idle", "held", "reading", "read", "releasing", "borrow", "painting"},
                  hash : Hashes \cup {NoHash}, entry : EntryOrNone]
  BY <1>0 DEF ReadUnlock, GuiAt, GuiOnly, GuiOK, GuiGoto, GuiIdle, EntryOrNone
<1>8. GuiOK(gui', lines')
  BY <1>0, <1>4, <1>7, <1>2 DEF GuiOK, Live, Reads
<1>9. Content'
  BY <1>0, <1>1, <1>4, <1>6, <1>8 DEF Content
<1>10. ASSUME fault' = None PROVE References'
  <2>1. HeldGui(gui) = gui.entry /\ HeldGui(gui') = gui.entry
    BY <1>0, <1>7 DEF HeldGui
  <2>2. ASSUME NEW f \in Entries
        PROVE  Count(w', backbuf', gui', f)
                 = Count(w, backbuf, gui, f) - One(None, f) + One(None, f)
    BY <1>1, <2>1, EntriesAssumption DEF Count, One
  <2>. QED BY <1>0, <1>1, <1>5, <1>2, <1>4, <2>2, ReferencesStep DEF Keeps, Live, Reads
<1>. QED BY <1>0, <1>9, <1>10 DEF Inv

\* A picker gives its reference back.
LEMMA ReleaseLineStep ==
    ASSUME Inv, fault = None, ReleaseLine
    PROVE  Inv'
<1>0. /\ Content /\ References /\ TableOK(lines) /\ HintOK(hint) /\ InputLive(w, lines)
      /\ WorkerOK(w, lines, shutdown, reused) /\ BackbufOK(backbuf, w, lines) /\ GuiOK(gui, lines)
      /\ gui.pc = "read"
  BY DEF Inv, Content, ReleaseLine, GuiAt, GuiOnly
<1>1. UNCHANGED <<hint, w, shutdown, backbuf, runs, flushes, over, reused>>
  BY DEF ReleaseLine, GuiAt, GuiOnly
<1>2. lines' = RefCount(lines, gui.entry, -1)
  BY DEF ReleaseLine, GuiAt, GuiOnly
<1>3. /\ Keeps(lines, lines') /\ Moves(lines, lines', gui.entry, None) /\ Unheld(lines, lines')
      /\ DOMAIN lines' = DOMAIN lines /\ NoLoss(lines, lines')
  BY <1>0, <1>2, RefCountDown
<1>4. /\ WorkerOK(w, lines', shutdown, reused) /\ TableOK(lines')
      /\ BackbufOK(backbuf, w, lines') /\ GuiOK(gui, lines') /\ InputLive(w, lines')
  BY <1>0, <1>3, KeepWorker, KeepOthers DEF Keeps, WorkerOK, WriterOK, RekeyOK, InputOK, InputLive
<1>5. fault' \in Places \cup {None}
  BY DEF ReleaseLine, GuiAt, GuiOnly, Touch, Places
<1>6. /\ gui'.pc = "idle" /\ gui'.hash = NoHash /\ gui'.entry = None
      /\ gui' \in [pc : {"idle", "held", "reading", "read", "releasing", "borrow", "painting"},
                  hash : Hashes \cup {NoHash}, entry : EntryOrNone]
  BY <1>0 DEF ReleaseLine, GuiAt, GuiOnly, GuiOK, GuiGoto, GuiIdle, EntryOrNone
<1>7. GuiOK(gui', lines')
  BY <1>0, <1>4, <1>6, <1>3 DEF GuiOK, Live, Keeps
<1>8. Content'
  BY <1>0, <1>1, <1>4, <1>5, <1>7 DEF Content
<1>9. ASSUME fault' = None PROVE References'
  <2>1. HeldGui(gui) = gui.entry /\ HeldGui(gui') = None
    BY <1>0, <1>6 DEF HeldGui
  <2>2. ASSUME NEW f \in Entries
        PROVE  Count(w', backbuf', gui', f)
                 = Count(w, backbuf, gui, f) - One(gui.entry, f) + One(None, f)
    BY <1>1, <2>1, EntriesAssumption DEF Count, One
  <2>. QED BY <1>0, <1>1, <1>3, <1>4, <2>2, ReferencesStep DEF Keeps, Live
<1>. QED BY <1>0, <1>8, <1>9 DEF Inv

\* A scope does not find its line.
LEMMA ReleaseMissingStep ==
    ASSUME Inv, fault = None, ReleaseLookup, Found(gui.hash) = {}
    PROVE  Inv'
<1>0. /\ Content /\ References /\ TableOK(lines) /\ HintOK(hint) /\ InputLive(w, lines)
      /\ WorkerOK(w, lines, shutdown, reused) /\ BackbufOK(backbuf, w, lines) /\ GuiOK(gui, lines)
      /\ gui.pc = "read"
  BY DEF Inv, Content, ReleaseLookup, GuiAt, GuiOnly
<1>1. UNCHANGED <<hint, fault, w, shutdown, backbuf, runs, flushes, reused>>
  BY DEF ReleaseLookup, GuiAt, GuiOnly
<1>2. FoundOrNone(gui.hash) = None
  BY <1>0, FoundFacts
<1>3. lines' = Reattributed(lines, gui) /\ Stray(gui)
  BY DEF ReleaseLookup, GuiAt, GuiOnly
<1>4. None = FoundOrNone(gui.hash) /\ gui.entry \in EntryOrNone
  BY <1>0, <1>2 DEF GuiOK
<1>5. /\ Keeps(lines, lines') /\ Moves(lines, lines', gui.entry, None) /\ Unheld(lines, lines')
      /\ DOMAIN lines' = DOMAIN lines
      /\ None \in {gui.entry, None} => NoLoss(lines, lines')
  BY <1>0, <1>3, <1>4, ReattributedMoves DEF Live
<1>6. over' \in BOOLEAN /\ (over => over') /\ (over' \/ NoLoss(lines, lines'))
  BY <1>0, <1>3, <1>4, <1>5 DEF Stray, Content
<1>7. /\ WorkerOK(w, lines', shutdown, reused) /\ TableOK(lines')
      /\ BackbufOK(backbuf, w, lines') /\ GuiOK(gui, lines') /\ InputLive(w, lines')
  BY <1>0, <1>5, KeepWorker, KeepOthers DEF Keeps, WorkerOK, WriterOK, RekeyOK, InputOK, InputLive
<1>8. /\ gui'.pc = "idle" /\ gui'.hash = NoHash /\ gui'.entry = None
      /\ gui' \in [pc : {"idle", "held", "reading", "read", "releasing", "borrow", "painting"},
                  hash : Hashes \cup {NoHash}, entry : EntryOrNone]
  BY <1>0 DEF ReleaseLookup, GuiAt, GuiOnly, GuiOK, GuiGoto, GuiIdle, EntryOrNone
<1>9. GuiOK(gui', lines')
  BY <1>0, <1>7, <1>8, <1>5 DEF GuiOK, Live, Keeps
<1>10. Content'
  BY <1>0, <1>1, <1>7, <1>6, <1>9 DEF Content
<1>11. ASSUME fault' = None PROVE References'
  <2>1. HeldGui(gui) = gui.entry /\ HeldGui(gui') = None
    BY <1>0, <1>8 DEF HeldGui
  <2>2. ASSUME NEW f \in Entries
        PROVE  Count(w', backbuf', gui', f)
                 = Count(w, backbuf, gui, f) - One(gui.entry, f) + One(None, f)
    BY <1>1, <2>1, EntriesAssumption DEF Count, One
  <2>. QED BY <1>0, <1>1, <1>5, <1>6, <1>7, <2>2, ReferencesStep DEF Keeps, Live
<1>. QED BY <1>0, <1>10, <1>11 DEF Inv

\* It finds a line by the hash.
LEMMA ReleaseLookupStep ==
    ASSUME Inv, fault = None, ReleaseLookup, Found(gui.hash) # {}
    PROVE  Inv'
<1>0. /\ Content /\ References /\ TableOK(lines) /\ HintOK(hint) /\ InputLive(w, lines)
      /\ WorkerOK(w, lines, shutdown, reused) /\ BackbufOK(backbuf, w, lines) /\ GuiOK(gui, lines)
      /\ gui.pc = "read"
  BY DEF Inv, Content, ReleaseLookup, GuiAt, GuiOnly
<1>1. UNCHANGED <<hint, fault, w, shutdown, backbuf, runs, flushes, reused>>
  BY DEF ReleaseLookup, GuiAt, GuiOnly
<1>2. FoundOrNone(gui.hash) \in EntryOrNone /\ FoundOrNone(gui.hash) \in Live
  BY <1>0, FoundFacts
<1>3. lines' = Reattributed(lines, gui) /\ Stray(gui)
  BY DEF ReleaseLookup, GuiAt, GuiOnly
<1>4. FoundOrNone(gui.hash) = FoundOrNone(gui.hash) /\ gui.entry \in EntryOrNone
  BY <1>0, <1>2 DEF GuiOK
<1>5. /\ Keeps(lines, lines') /\ Moves(lines, lines', gui.entry, FoundOrNone(gui.hash))
      /\ Unheld(lines, lines')
      /\ DOMAIN lines' = DOMAIN lines
      /\ FoundOrNone(gui.hash) \in {gui.entry, None} => NoLoss(lines, lines')
  BY <1>0, <1>3, <1>4, ReattributedMoves DEF Live
<1>6. over' \in BOOLEAN /\ (over => over') /\ (over' \/ NoLoss(lines, lines'))
  BY <1>0, <1>3, <1>4, <1>5 DEF Stray, Content
<1>7. /\ WorkerOK(w, lines', shutdown, reused) /\ TableOK(lines')
      /\ BackbufOK(backbuf, w, lines') /\ GuiOK(gui, lines') /\ InputLive(w, lines')
  BY <1>0, <1>5, KeepWorker, KeepOthers DEF Keeps, WorkerOK, WriterOK, RekeyOK, InputOK, InputLive
<1>8. /\ gui'.pc = "releasing" /\ gui'.hash = gui.hash /\ gui'.entry = FoundOrNone(gui.hash)
      /\ gui' \in [pc : {"idle", "held", "reading", "read", "releasing", "borrow", "painting"},
                  hash : Hashes \cup {NoHash}, entry : EntryOrNone]
  BY <1>0, <1>2 DEF ReleaseLookup, GuiAt, GuiOnly, GuiOK, GuiGoto, GuiIdle, EntryOrNone
<1>9. GuiOK(gui', lines')
  BY <1>0, <1>7, <1>8, <1>2, <1>5 DEF GuiOK, Live, Keeps
<1>10. Content'
  BY <1>0, <1>1, <1>7, <1>6, <1>9 DEF Content
<1>11. ASSUME fault' = None PROVE References'
  <2>1. HeldGui(gui) = gui.entry /\ HeldGui(gui') = FoundOrNone(gui.hash)
    BY <1>0, <1>8 DEF HeldGui
  <2>2. ASSUME NEW f \in Entries
        PROVE  Count(w', backbuf', gui', f)
                 = Count(w, backbuf, gui, f) - One(gui.entry, f) + One(FoundOrNone(gui.hash), f)
    BY <1>1, <2>1, EntriesAssumption DEF Count, One
  <2>3. FoundOrNone(gui.hash) \in Live' \cup {None}
    BY <1>2, <1>5 DEF Live
  <2>. QED BY <1>0, <1>1, <1>5, <1>6, <1>7, <2>2, <2>3, ReferencesStep DEF Keeps, Live
<1>. QED BY <1>0, <1>10, <1>11 DEF Inv

\* It gives the reference back.
LEMMA ReleaseHashStep ==
    ASSUME Inv, fault = None, ReleaseHash
    PROVE  Inv'
<1>0. /\ Content /\ References /\ TableOK(lines) /\ HintOK(hint) /\ InputLive(w, lines)
      /\ WorkerOK(w, lines, shutdown, reused) /\ BackbufOK(backbuf, w, lines) /\ GuiOK(gui, lines)
      /\ gui.pc = "releasing"
  BY DEF Inv, Content, ReleaseHash, GuiAt, GuiOnly
<1>1. UNCHANGED <<hint, w, shutdown, backbuf, runs, flushes, over, reused>>
  BY DEF ReleaseHash, GuiAt, GuiOnly
<1>2. lines' = RefCount(lines, gui.entry, -1)
  BY DEF ReleaseHash, GuiAt, GuiOnly
<1>3. /\ Keeps(lines, lines') /\ Moves(lines, lines', gui.entry, None) /\ Unheld(lines, lines')
      /\ DOMAIN lines' = DOMAIN lines /\ NoLoss(lines, lines')
  BY <1>0, <1>2, RefCountDown
<1>4. /\ WorkerOK(w, lines', shutdown, reused) /\ TableOK(lines')
      /\ BackbufOK(backbuf, w, lines') /\ GuiOK(gui, lines') /\ InputLive(w, lines')
  BY <1>0, <1>3, KeepWorker, KeepOthers DEF Keeps, WorkerOK, WriterOK, RekeyOK, InputOK, InputLive
<1>5. fault' \in Places \cup {None}
  BY DEF ReleaseHash, GuiAt, GuiOnly, Touch, Places
<1>6. /\ gui'.pc = "idle" /\ gui'.hash = NoHash /\ gui'.entry = None
      /\ gui' \in [pc : {"idle", "held", "reading", "read", "releasing", "borrow", "painting"},
                  hash : Hashes \cup {NoHash}, entry : EntryOrNone]
  BY <1>0 DEF ReleaseHash, GuiAt, GuiOnly, GuiOK, GuiGoto, GuiIdle, EntryOrNone
<1>7. GuiOK(gui', lines')
  BY <1>0, <1>4, <1>6, <1>3 DEF GuiOK, Live, Keeps
<1>8. Content'
  BY <1>0, <1>1, <1>4, <1>5, <1>7 DEF Content
<1>9. ASSUME fault' = None PROVE References'
  <2>1. HeldGui(gui) = gui.entry /\ HeldGui(gui') = None
    BY <1>0, <1>6 DEF HeldGui
  <2>2. ASSUME NEW f \in Entries
        PROVE  Count(w', backbuf', gui', f)
                 = Count(w, backbuf, gui, f) - One(gui.entry, f) + One(None, f)
    BY <1>1, <2>1, EntriesAssumption DEF Count, One
  <2>. QED BY <1>0, <1>1, <1>3, <1>4, <2>2, ReferencesStep DEF Keeps, Live
<1>. QED BY <1>0, <1>8, <1>9 DEF Inv

\* The GUI borrows the line of the backbuffer.
LEMMA BorrowStep ==
    ASSUME Inv, fault = None, NEW e \in Entries, Borrow(e)
    PROVE  Inv'
<1>0. /\ Content /\ References /\ TableOK(lines) /\ HintOK(hint) /\ InputLive(w, lines)
      /\ WorkerOK(w, lines, shutdown, reused) /\ BackbufOK(backbuf, w, lines) /\ GuiOK(gui, lines)
      /\ gui.pc = "idle"
  BY DEF Inv, Content, Borrow, GuiAt, GuiOnly
<1>1. UNCHANGED <<lines, hint, fault, w, shutdown, backbuf, runs, flushes, over, reused>>
  BY DEF Borrow, GuiAt, GuiOnly
<1>2. e \in Live /\ lines[e].hash = backbuf.hash /\ backbuf.hash \in Hashes
  BY <1>0 DEF Borrow, Found, TableOK, LineRec, Live
<1>3. Len(backbuf.hash) = Modules
  BY <1>0, <1>2, HashFacts DEF BackbufOK
<1>4. /\ Keeps(lines, lines') /\ Moves(lines, lines', None, None) /\ Unheld(lines, lines')
      /\ DOMAIN lines' = DOMAIN lines /\ NoLoss(lines, lines')
  BY <1>0, <1>1, KeepsSame
<1>5. /\ WorkerOK(w, lines', shutdown, reused) /\ TableOK(lines')
      /\ BackbufOK(backbuf, w, lines') /\ GuiOK(gui, lines') /\ InputLive(w, lines')
  BY <1>0, <1>4, KeepWorker, KeepOthers DEF Keeps, WorkerOK, WriterOK, RekeyOK, InputOK, InputLive
<1>6. /\ gui'.pc = "borrow" /\ gui'.hash = backbuf.hash /\ gui'.entry = e
      /\ gui' \in [pc : {"idle", "held", "reading", "read", "releasing", "borrow", "painting"},
                  hash : Hashes \cup {NoHash}, entry : EntryOrNone]
  BY <1>0, <1>2, <1>3 DEF Borrow, GuiAt, GuiOnly, GuiOK, GuiGoto, GuiIdle, EntryOrNone
<1>7. GuiOK(gui', lines')
  BY <1>0, <1>5, <1>6, <1>2, <1>3, <1>4 DEF GuiOK, Live, Keeps
<1>8. Content'
  BY <1>0, <1>1, <1>5, <1>7 DEF Content
<1>9. ASSUME fault' = None PROVE References'
  <2>1. HeldGui(gui) = None /\ HeldGui(gui') = None
    BY <1>0, <1>6 DEF HeldGui
  <2>2. ASSUME NEW f \in Entries
        PROVE  Count(w', backbuf', gui', f)
                 = Count(w, backbuf, gui, f) - One(None, f) + One(None, f)
    BY <1>1, <2>1, EntriesAssumption DEF Count, One
  <2>. QED BY <1>0, <1>1, <1>4, <1>5, <2>2, ReferencesStep DEF Keeps, Live
<1>. QED BY <1>0, <1>8, <1>9 DEF Inv

\* The borrowed line is published.
LEMMA BorrowCheckStep ==
    ASSUME Inv, fault = None, BorrowCheck, Exists(gui.entry) /\ Published(gui.entry)
    PROVE  Inv'
<1>0. /\ Content /\ References /\ TableOK(lines) /\ HintOK(hint) /\ InputLive(w, lines)
      /\ WorkerOK(w, lines, shutdown, reused) /\ BackbufOK(backbuf, w, lines) /\ GuiOK(gui, lines)
      /\ gui.pc = "borrow"
  BY DEF Inv, Content, BorrowCheck, GuiAt, GuiOnly
<1>1. UNCHANGED <<lines, hint, w, shutdown, backbuf, runs, flushes, over, reused>>
  BY DEF BorrowCheck, GuiAt, GuiOnly
<1>2. /\ Keeps(lines, lines') /\ Moves(lines, lines', None, None) /\ Unheld(lines, lines')
      /\ DOMAIN lines' = DOMAIN lines /\ NoLoss(lines, lines')
  BY <1>0, <1>1, KeepsSame
<1>3. /\ WorkerOK(w, lines', shutdown, reused) /\ TableOK(lines')
      /\ BackbufOK(backbuf, w, lines') /\ GuiOK(gui, lines') /\ InputLive(w, lines')
  BY <1>0, <1>2, KeepWorker, KeepOthers DEF Keeps, WorkerOK, WriterOK, RekeyOK, InputOK, InputLive
<1>4. fault' \in Places \cup {None}
  BY DEF BorrowCheck, GuiAt, GuiOnly, Touch, Places
<1>5. /\ gui'.pc = "painting" /\ gui'.hash = gui.hash /\ gui'.entry = gui.entry
      /\ gui' \in [pc : {"idle", "held", "reading", "read", "releasing", "borrow", "painting"},
                  hash : Hashes \cup {NoHash}, entry : EntryOrNone]
  BY <1>0 DEF BorrowCheck, GuiAt, GuiOnly, GuiOK, GuiGoto, GuiIdle, EntryOrNone
<1>6. GuiOK(gui', lines')
  BY <1>0, <1>3, <1>5, <1>2 DEF GuiOK, Live, Keeps
<1>7. Content'
  BY <1>0, <1>1, <1>3, <1>4, <1>6 DEF Content
<1>8. ASSUME fault' = None PROVE References'
  <2>1. HeldGui(gui) = None /\ HeldGui(gui') = None
    BY <1>0, <1>5 DEF HeldGui
  <2>2. ASSUME NEW f \in Entries
        PROVE  Count(w', backbuf', gui', f)
                 = Count(w, backbuf, gui, f) - One(None, f) + One(None, f)
    BY <1>1, <2>1, EntriesAssumption DEF Count, One
  <2>. QED BY <1>0, <1>1, <1>2, <1>3, <2>2, ReferencesStep DEF Keeps, Live
<1>. QED BY <1>0, <1>7, <1>8 DEF Inv

\* It is not.
LEMMA BorrowDropStep ==
    ASSUME Inv, fault = None, BorrowCheck, ~(Exists(gui.entry) /\ Published(gui.entry))
    PROVE  Inv'
<1>0. /\ Content /\ References /\ TableOK(lines) /\ HintOK(hint) /\ InputLive(w, lines)
      /\ WorkerOK(w, lines, shutdown, reused) /\ BackbufOK(backbuf, w, lines) /\ GuiOK(gui, lines)
      /\ gui.pc = "borrow"
  BY DEF Inv, Content, BorrowCheck, GuiAt, GuiOnly
<1>1. UNCHANGED <<lines, hint, w, shutdown, backbuf, runs, flushes, over, reused>>
  BY DEF BorrowCheck, GuiAt, GuiOnly
<1>2. /\ Keeps(lines, lines') /\ Moves(lines, lines', None, None) /\ Unheld(lines, lines')
      /\ DOMAIN lines' = DOMAIN lines /\ NoLoss(lines, lines')
  BY <1>0, <1>1, KeepsSame
<1>3. /\ WorkerOK(w, lines', shutdown, reused) /\ TableOK(lines')
      /\ BackbufOK(backbuf, w, lines') /\ GuiOK(gui, lines') /\ InputLive(w, lines')
  BY <1>0, <1>2, KeepWorker, KeepOthers DEF Keeps, WorkerOK, WriterOK, RekeyOK, InputOK, InputLive
<1>4. fault' \in Places \cup {None}
  BY DEF BorrowCheck, GuiAt, GuiOnly, Touch, Places
<1>5. /\ gui'.pc = "idle" /\ gui'.hash = NoHash /\ gui'.entry = None
      /\ gui' \in [pc : {"idle", "held", "reading", "read", "releasing", "borrow", "painting"},
                  hash : Hashes \cup {NoHash}, entry : EntryOrNone]
  BY <1>0 DEF BorrowCheck, GuiAt, GuiOnly, GuiOK, GuiGoto, GuiIdle, EntryOrNone
<1>6. GuiOK(gui', lines')
  BY <1>0, <1>3, <1>5, <1>2 DEF GuiOK, Live, Keeps
<1>7. Content'
  BY <1>0, <1>1, <1>3, <1>4, <1>6 DEF Content
<1>8. ASSUME fault' = None PROVE References'
  <2>1. HeldGui(gui) = None /\ HeldGui(gui') = None
    BY <1>0, <1>5 DEF HeldGui
  <2>2. ASSUME NEW f \in Entries
        PROVE  Count(w', backbuf', gui', f)
                 = Count(w, backbuf, gui, f) - One(None, f) + One(None, f)
    BY <1>1, <2>1, EntriesAssumption DEF Count, One
  <2>. QED BY <1>0, <1>1, <1>2, <1>3, <2>2, ReferencesStep DEF Keeps, Live
<1>. QED BY <1>0, <1>7, <1>8 DEF Inv

\* The surface is painted.
LEMMA PaintedStep ==
    ASSUME Inv, fault = None, Painted
    PROVE  Inv'
<1>0. /\ Content /\ References /\ TableOK(lines) /\ HintOK(hint) /\ InputLive(w, lines)
      /\ WorkerOK(w, lines, shutdown, reused) /\ BackbufOK(backbuf, w, lines) /\ GuiOK(gui, lines)
      /\ gui.pc = "painting"
  BY DEF Inv, Content, Painted, GuiAt, GuiOnly
<1>1. UNCHANGED <<lines, hint, w, shutdown, backbuf, runs, flushes, over, reused>>
  BY DEF Painted, GuiAt, GuiOnly
<1>2. /\ Keeps(lines, lines') /\ Moves(lines, lines', None, None) /\ Unheld(lines, lines')
      /\ DOMAIN lines' = DOMAIN lines /\ NoLoss(lines, lines')
  BY <1>0, <1>1, KeepsSame
<1>3. /\ WorkerOK(w, lines', shutdown, reused) /\ TableOK(lines')
      /\ BackbufOK(backbuf, w, lines') /\ GuiOK(gui, lines') /\ InputLive(w, lines')
  BY <1>0, <1>2, KeepWorker, KeepOthers DEF Keeps, WorkerOK, WriterOK, RekeyOK, InputOK, InputLive
<1>4. fault' \in Places \cup {None}
  BY DEF Painted, GuiAt, GuiOnly, Touch, Places
<1>5. /\ gui'.pc = "idle" /\ gui'.hash = NoHash /\ gui'.entry = None
      /\ gui' \in [pc : {"idle", "held", "reading", "read", "releasing", "borrow", "painting"},
                  hash : Hashes \cup {NoHash}, entry : EntryOrNone]
  BY <1>0 DEF Painted, GuiAt, GuiOnly, GuiOK, GuiGoto, GuiIdle, EntryOrNone
<1>6. GuiOK(gui', lines')
  BY <1>0, <1>3, <1>5, <1>2 DEF GuiOK, Live, Keeps
<1>7. Content'
  BY <1>0, <1>1, <1>3, <1>4, <1>6 DEF Content
<1>8. ASSUME fault' = None PROVE References'
  <2>1. HeldGui(gui) = None /\ HeldGui(gui') = None
    BY <1>0, <1>5 DEF HeldGui
  <2>2. ASSUME NEW f \in Entries
        PROVE  Count(w', backbuf', gui', f)
                 = Count(w, backbuf, gui, f) - One(None, f) + One(None, f)
    BY <1>1, <2>1, EntriesAssumption DEF Count, One
  <2>. QED BY <1>0, <1>1, <1>2, <1>3, <2>2, ReferencesStep DEF Keeps, Live
<1>. QED BY <1>0, <1>7, <1>8 DEF Inv

\* An unheld and unlocked line is collected.
LEMMA CollectStep ==
    ASSUME Inv, fault = None, NEW e \in Entries, Collect(e)
    PROVE  Inv'
<1>0. /\ Content /\ References /\ TableOK(lines) /\ HintOK(hint) /\ InputLive(w, lines)
      /\ WorkerOK(w, lines, shutdown, reused) /\ BackbufOK(backbuf, w, lines) /\ GuiOK(gui, lines)
  BY DEF Inv, Content, Collect, Evict, runVars, GuiAt, GuiOnly
<1>1. UNCHANGED <<fault, w, shutdown, backbuf, gui, runs, flushes, over, reused>>
  BY DEF Collect, Evict, runVars, GuiAt, GuiOnly
<1>2. /\ lines' = Without({e}) /\ Forget({e}) /\ w.pc # "rekey"
      /\ \A s \in {e} \cap Live : Removable(s, FALSE)
  BY DEF Collect, Evict, Drop, CacheLockFree, At
<1>3. /\ Keeps(lines, lines') /\ Moves(lines, lines', None, None) /\ NoLoss(lines, lines')
      /\ Unheld(lines, lines')
  BY <1>0, <1>2, WithoutKeeps
<1>4. Unlocked(lines, lines') /\ w.pc # "rekey"
  BY <1>0, <1>2, WithoutKeeps
<1>5. HintOK(hint')
  BY <1>0, <1>2, ForgetOK
<1>6. /\ WorkerOK(w, lines', shutdown, reused) /\ TableOK(lines')
      /\ BackbufOK(backbuf, w, lines') /\ GuiOK(gui, lines') /\ InputLive(w, lines')
  BY <1>0, <1>3, <1>4, KeepWorker, KeepOthers DEF Keeps, WorkerOK, WriterOK, RekeyOK, InputOK,
     InputLive, Unlocked
<1>7. Content'
  BY <1>0, <1>1, <1>6, <1>5 DEF Content
<1>8. ASSUME fault' = None PROVE References'
  <2>1. gui' = gui
    BY <1>1
  <2>2. ASSUME NEW f \in Entries
        PROVE  Count(w', backbuf', gui', f)
                 = Count(w, backbuf, gui, f) - One(None, f) + One(None, f)
    BY <1>1, <2>1, EntriesAssumption DEF Count, One
  <2>. QED BY <1>0, <1>1, <1>3, <1>4, <1>6, <2>2, ReferencesStep DEF Keeps, Live
<1>. QED BY <1>0, <1>7, <1>8 DEF Inv

\* Every unlocked line is flushed.
LEMMA FlushAllStep ==
    ASSUME Inv, fault = None, FlushAll
    PROVE  Inv'
<1>0. /\ Content /\ References /\ TableOK(lines) /\ HintOK(hint) /\ InputLive(w, lines)
      /\ WorkerOK(w, lines, shutdown, reused) /\ BackbufOK(backbuf, w, lines) /\ GuiOK(gui, lines)
  BY DEF Inv, Content, FlushAll, Flush, GuiAt, GuiOnly
<1>1. UNCHANGED <<fault, w, shutdown, backbuf, gui, runs, over, reused>>
  BY DEF FlushAll, Flush, GuiAt, GuiOnly
<1>2. lines' = Without({d \in Live : ~Locked(d)}) /\ Forget({d \in Live : ~Locked(d)}) /\ w.pc # "rekey"
  BY DEF FlushAll, Flush, Drop, CacheLockFree, At
<1>3. /\ Keeps(lines, lines') /\ Moves(lines, lines', None, None) /\ NoLoss(lines, lines')
      /\ DOMAIN lines' = Live \ {d \in Live : ~Locked(d)}
  BY <1>0, <1>2, WithoutKeeps
<1>4. Unlocked(lines, lines') /\ w.pc # "rekey"
  BY <1>2, <1>3 DEF Unlocked, Locked, Live
<1>5. HintOK(hint')
  BY <1>0, <1>2, ForgetOK
<1>6. flushes' \in 0..MaxFlushes /\ flushes' = flushes + 1 /\ flushes' # flushes
  BY <1>0, BoundsAssumption DEF FlushAll, Content
<1>7. /\ WorkerOK(w, lines', shutdown, reused) /\ TableOK(lines')
      /\ BackbufOK(backbuf, w, lines') /\ GuiOK(gui, lines') /\ InputLive(w, lines')
  BY <1>0, <1>3, <1>4, KeepWorker, KeepOthers DEF Keeps, WorkerOK, WriterOK, RekeyOK, InputOK,
     InputLive, Unlocked
<1>8. Content'
  BY <1>0, <1>1, <1>7, <1>5, <1>6 DEF Content
<1>9. ASSUME fault' = None PROVE References'
  <2>1. gui' = gui
    BY <1>1
  <2>2. ASSUME NEW f \in Entries
        PROVE  Count(w', backbuf', gui', f)
                 = Count(w, backbuf, gui, f) - One(None, f) + One(None, f)
    BY <1>1, <2>1, EntriesAssumption DEF Count, One
  <2>. QED BY <1>0, <1>1, <1>3, <1>6, <1>4, <1>7, <2>2, ReferencesStep DEF Keeps, Live
<1>. QED BY <1>0, <1>8, <1>9 DEF Inv

\* The switch is turned.
LEMMA KillStep == ASSUME Inv, fault = None, Kill PROVE Inv'
<1>1. /\ Content /\ References /\ ~shutdown /\ shutdown'
      /\ UNCHANGED <<lines, hint, fault, w, backbuf, gui, runs, flushes, over, reused>>
  BY DEF Inv, Content, Kill
<1>2. WorkerOK(w', lines', shutdown', reused')
  BY <1>1 DEF Content, WorkerOK, ShownOK, TrueOK
<1>3. Content'
  BY <1>1, <1>2 DEF Content, Kill
<1>4. References'
  BY <1>1 DEF References, Live
<1>. QED BY <1>3, <1>4 DEF Inv

----------------------------------------------------------------------------
(* The invariant *)

\* It holds before the first run.
LEMMA InitInv == Init => Inv
<1>. SUFFICES ASSUME Init PROVE Inv
  OBVIOUS
<1>1. /\ lines = [e \in {} |-> NewLine(NoHash)] /\ DOMAIN lines = {} /\ fault = None
      /\ hint = [n \in 1..(Modules - 1) |-> NoLease] /\ w = Idle /\ backbuf = NoLease
      /\ gui = [pc |-> "idle", hash |-> NoHash, entry |-> None]
      /\ shutdown = FALSE /\ reused = FALSE /\ over = FALSE /\ runs = 0 /\ flushes = 0
  BY DEF Init, CacheInit
<1>2. TableOK(lines) /\ HintOK(hint)
  BY <1>1, NoLeaseFacts DEF TableOK, HintOK
<1>3. WorkerOK(w, lines, shutdown, reused) /\ InputLive(w, lines)
  BY <1>1, IdleFacts DEF WorkerOK, CallOK, WriterOK, RekeyOK, InputOK, ShownOK, FinalOK, TrueOK,
     InputLive, Writing, Shown, Returned, Swapping, Withdrawn
<1>4. BackbufOK(backbuf, w, lines) /\ GuiOK(gui, lines)
  BY <1>1, NoLeaseFacts, IdleFacts DEF BackbufOK, GuiOK, EntryOrNone
<1>5. Content
  <2>1. runs \in 0..MaxRuns /\ flushes \in 0..MaxFlushes
    BY <1>1, BoundsAssumption
  <2>. QED BY <1>1, <1>2, <1>3, <1>4, <2>1 DEF Content
<1>6. ASSUME NEW e \in Entries PROVE ~(Count(w, backbuf, gui, e) > 0)
  <2>1. e # None
    BY EntriesAssumption
  <2>2. HeldIn(w) = None /\ HeldOut(w) = None /\ HeldPtr(w) = None /\ HeldGui(gui) = None
    BY <1>1, IdleFacts DEF HeldIn, HeldOut, HeldPtr, HeldGui, InputHeld, OutputHeld
  <2>. QED BY <1>1, <2>1, <2>2, CountFacts, IdleFacts, NoLeaseFacts
<1>. QED BY <1>1, <1>5, <1>6 DEF Inv, References, Live

\* A step of the worker keeps it.
LEMMA RunInv ==
    ASSUME Inv, fault = None, Run PROVE Inv'
<1>1. CASE \E h \in Histories, t \in 1..Modules, b \in BOOLEAN : Start(h, t, b)
  BY <1>1, StartStep, Zenon
<1>2. CASE Look
  BY <1>2, LookMissStep, LookHitStep, Zenon
<1>3. CASE Check
  BY <1>3, CheckSwapStep, CheckDoneStep, CheckMissStep, Zenon
<1>4. CASE EnterAborted
  BY <1>4, EnterAbortedStep, Zenon
<1>5. CASE EnterMiss
  BY <1>5, EnterFirstStep, EnterDownStep, Zenon
<1>6. CASE ReturnAborted
  BY <1>6, ReturnAbortedStep, Zenon
<1>7. CASE ReopenInput
  BY <1>7, ReopenMissingStep, ReopenInputStep, Zenon
<1>8. CASE ReturnToProcess
  BY <1>8, ReturnToProcessStep, Zenon
<1>9. CASE \E e \in Entries : EnterHit(e) \/ AcquireExactHit(e) \/ AcquireRekey(e) \/ AcquireCreate(e)
  BY <1>9, EnterHitStep, AcquireExactHitStep, AcquireRekeyStep, AcquireCreateStep, Zenon
<1>10. CASE Rekey
  BY <1>10, RekeyStep, Zenon
<1>11. CASE AcquireFails
  BY <1>11, AcquireFailsStep, Zenon
<1>12. CASE ExactLookup
  BY <1>12, ExactLookupStep, Zenon
<1>13. CASE ExactMissing
  BY <1>13, ExactMissingStep, Zenon
<1>14. CASE ExactRef
  BY <1>14, ExactRefStep, Zenon
<1>15. CASE ExactDrop
  BY <1>15, ExactDropStep, Zenon
<1>16. CASE ExactAgain
  BY <1>16, ExactAgainStep, Zenon
<1>17. CASE ExactReturn
  BY <1>17, ExactReturnStep, Zenon
<1>18. CASE Begin
  BY <1>18, BeginStep, Zenon
<1>19. CASE Compute
  BY <1>19, ComputeStep, Zenon
<1>20. CASE Interrupted
  BY <1>20, InterruptedStep, Zenon
<1>21. CASE ProcessFails
  BY <1>21, ProcessFailsStep, Zenon
<1>22. CASE FailingUnlock
  BY <1>22, FailingUnlockStep, Zenon
<1>23. CASE Publish
  BY <1>23, PublishStep, Zenon
<1>24. CASE PublishedAborted
  BY <1>24, PublishedAbortedStep, Zenon
<1>25. CASE ReleaseInput
  BY <1>25, ReleaseInputStep, Zenon
<1>26. CASE Reap
  BY <1>26, ReapStep, Zenon
<1>27. CASE ReapAborted
  BY <1>27, ReapAbortedStep, Zenon
<1>28. CASE Recheck
  BY <1>28, RecheckAbortedStep, RecheckReturnStep, Zenon
<1>29. CASE DropInput
  BY <1>29, DropInputStep, Zenon
<1>30. CASE DropInputAgain
  BY <1>30, DropInputAgainStep, Zenon
<1>31. CASE DropOutput
  BY <1>31, DropOutputStep, Zenon
<1>32. CASE RemoveOutput
  BY <1>32, RemoveKeptStep, RemoveOutputStep, Zenon
<1>33. CASE MarkOutput
  BY <1>33, MarkOutputStep, Zenon
<1>34. CASE FinishAborted
  BY <1>34, FinishAbortedStep, Zenon
<1>35. CASE Finish
  BY <1>35, FinishProbeStep, FinishUnrefStep, Zenon
<1>36. CASE FinalCheck
  BY <1>36, FinalCheckSwapStep, FinalCheckMissStep, Zenon
<1>37. CASE Swap
  BY <1>37, SwapSameDoneStep, SwapSameStep, SwapFoundStep, SwapGoneStep, Zenon
<1>38. CASE SwapOld
  BY <1>38, SwapOldStep, Zenon
<1>39. CASE SwapNew
  BY <1>39, SwapNewDoneStep, SwapNewStep, Zenon
<1>40. CASE UnrefLookup
  BY <1>40, UnrefMissingStep, UnrefLookupStep, Zenon
<1>41. CASE Unref
  BY <1>41, UnrefStep, Zenon
<1>. QED BY <1>1, <1>2, <1>3, <1>4, <1>5, <1>6, <1>7, <1>8, <1>9, <1>10, <1>11, <1>12, <1>13,
     <1>14, <1>15, <1>16, <1>17, <1>18, <1>19, <1>20, <1>21, <1>22, <1>23, <1>24, <1>25, <1>26,
     <1>27, <1>28, <1>29, <1>30, <1>31, <1>32, <1>33, <1>34, <1>35, <1>36, <1>37, <1>38, <1>39,
     <1>40, <1>41, Zenon DEF Run

\* A step of the GUI keeps it.
LEMMA GuiInv ==
    ASSUME Inv, fault = None, Gui PROVE Inv'
<1>1. CASE \E h \in Hashes, e \in Entries : Retain(h, e)
  BY <1>1, RetainStep, Zenon
<1>2. CASE \E e \in Entries : Borrow(e)
  BY <1>2, BorrowStep, Zenon
<1>3. CASE ReadLock
  BY <1>3, ReadLockStep, Zenon
<1>4. CASE ReadUnlock
  BY <1>4, ReadUnlockStep, Zenon
<1>5. CASE ReleaseLine
  BY <1>5, ReleaseLineStep, Zenon
<1>6. CASE ReleaseLookup
  BY <1>6, ReleaseMissingStep, ReleaseLookupStep, Zenon
<1>7. CASE ReleaseHash
  BY <1>7, ReleaseHashStep, Zenon
<1>8. CASE BorrowCheck
  BY <1>8, BorrowCheckStep, BorrowDropStep, Zenon
<1>9. CASE Painted
  BY <1>9, PaintedStep, Zenon
<1>10. CASE Kill
  BY <1>10, KillStep, Zenon
<1>11. CASE FlushAll
  BY <1>11, FlushAllStep, Zenon
<1>. QED BY <1>1, <1>2, <1>3, <1>4, <1>5, <1>6, <1>7, <1>8, <1>9, <1>10, <1>11, Zenon DEF Gui

\* Every step keeps it.
LEMMA NextInv == Inv /\ [Next]_vars => Inv'
<1>. SUFFICES ASSUME Inv, [Next]_vars PROVE Inv'
  OBVIOUS
<1>1. CASE fault = None /\ Run
  BY <1>1, RunInv, Zenon
<1>2. CASE fault = None /\ Gui
  BY <1>2, GuiInv, Zenon
<1>3. CASE fault = None /\ \E e \in Entries : Collect(e)
  BY <1>3, CollectStep, Zenon
<1>4. CASE UNCHANGED vars
  <2>1. /\ lines' = lines /\ hint' = hint /\ fault' = fault /\ w' = w /\ shutdown' = shutdown
        /\ backbuf' = backbuf /\ gui' = gui /\ runs' = runs /\ flushes' = flushes
        /\ over' = over /\ reused' = reused
    BY <1>4 DEF vars
  <2>2. Content' <=> Content
    BY <2>1 DEF Content
  <2>3. References' <=> References
    BY <2>1 DEF References, Live
  <2>. QED BY <2>1, <2>2, <2>3 DEF Inv
<1>. QED BY <1>1, <1>2, <1>3, <1>4 DEF Next, Stopped

\* The invariant holds in every behaviour.
LEMMA InvAlways == Spec => []Inv
<1>1. Init => Inv
  BY InitInv
<1>2. Inv /\ [Next]_vars => Inv'
  BY NextInv
<1>. QED BY <1>1, <1>2, PTL DEF Spec

----------------------------------------------------------------------------
(* The properties *)

\* Every variable of the cache, the worker and the GUI keeps its type, and no two lines have
\* the same hash: neither get_writable() nor its rekeying puts a line over another.
THEOREM TypesHold == Spec => []TypeOK
<1>1. Inv => TypeOK
  BY DEF Inv, Content, TypeOK, TableOK, LineRec, HintOK, WorkerOK, WorkerType, BackbufOK, GuiOK,
     Live
<1>. QED BY <1>1, InvAlways, PTL

\* The reference count of a line is the number of its holders but for the drift, which the code
\* can only change at the four places where a release is forgotten or repeated.
THEOREM RefcountStaysExact == Spec => []RefcountExact
<1>1. ASSUME Inv PROVE RefcountExact
  <2>. SUFFICES ASSUME fault = None, NEW e \in Live
                PROVE  lines[e].refs = Cardinality(Holders(e)) + lines[e].drift
    BY DEF RefcountExact
  <2>1. e \in Entries /\ lines[e].refs \in Int /\ lines[e].drift \in Int
    BY <1>1 DEF Inv, Content, TableOK, LineRec, Live
  <2>2. lines[e].refs - lines[e].drift = Count(w, backbuf, gui, e)
    BY <1>1 DEF Inv, References, Net
  <2>3. Cardinality(Holders(e)) = Count(w, backbuf, gui, e)
    BY <2>1, CountIsCard
  <2>. QED BY <2>1, <2>2, <2>3
<1>. QED BY <1>1, InvAlways, PTL

\* A line somebody holds is not freed, unless the whole cache was flushed or a reference was
\* given back by a thread that had none.
THEOREM HeldStaysAlive == Spec => []HeldIsAlive
<1>1. ASSUME Inv PROVE HeldIsAlive
  <2>. SUFFICES ASSUME fault = None, flushes = 0, ~over, NEW e \in Entries, Holders(e) # {}
                PROVE  e \in Live
    BY DEF HeldIsAlive
  <2>1. IsFiniteSet(Holders(e)) /\ Cardinality(Holders(e)) = Count(w, backbuf, gui, e)
    BY CountIsCard
  <2>2. Count(w, backbuf, gui, e) \in Nat /\ Count(w, backbuf, gui, e) # 0
    BY <2>1, FS_EmptySet, CountFacts
  <2>3. Count(w, backbuf, gui, e) > 0
    BY <2>2
  <2>. QED BY <1>1, <2>3 DEF Inv, References
<1>. QED BY <1>1, InvAlways, PTL

\* A published line shows its hash, unless the worker is about to withdraw it or
\* get_writable() once took a line marked for destruction for an exact hit.
THEOREM LinesStayTrue == Spec => []LinesTrue
<1>1. Inv => LinesTrue
  BY DEF Inv, Content, WorkerOK, TrueOK, LinesTrue, Published, Withdrawing, Withdrawn, Live
<1>. QED BY <1>1, InvAlways, PTL

\* A consumer with the read lock of a line sees pixels nobody is writing.
THEOREM ReadersSeeWhole == Spec => []ReadersSeeLine
<1>1. ASSUME Inv PROVE ReadersSeeLine
  <2>. SUFFICES ASSUME gui.pc = "reading", gui.entry \in Live, ~reused
                PROVE  /\ ~lines[gui.entry].writer
                       /\ \/ Withdrawing(gui.entry) \/ lines[gui.entry].auto_destroy
                          \/ lines[gui.entry].pixels = lines[gui.entry].hash
    BY DEF ReadersSeeLine, GuiAt, Exists
  <2>1. "gui" \in lines[gui.entry].readers
    BY <1>1 DEF Inv, Content, GuiOK, Live
  <2>2. ~lines[gui.entry].writer
    BY <1>1, <2>1 DEF Inv, Content, WorkerOK, WriterOK, Live
  <2>. QED BY <1>1, <2>2 DEF Inv, Content, WorkerOK, TrueOK, Withdrawing, Withdrawn, Live
<1>. QED BY <1>1, InvAlways, PTL

\* A step that frees no line.
LEMMA KeptIsUnheld ==
    ASSUME DOMAIN lines' = DOMAIN lines PROVE Unheld(lines, lines')
BY DEF Unheld

\* A step of the worker or the GUI frees only lines without references, save the flush, which
\* is counted.
LEMMA OnlyUnheldGo ==
    ASSUME TableOK(lines), Run \/ Gui \/ \E e \in Entries : Collect(e), ~FlushAll
    PROVE  Unheld(lines, lines') /\ flushes' = flushes
<1>1. CASE Look
  <2>. DOMAIN lines' = DOMAIN lines /\ flushes' = flushes
    BY <1>1 DEF Look, Only
  <2>. QED BY KeptIsUnheld
<1>2. CASE Check
  <2>. DOMAIN lines' = DOMAIN lines /\ flushes' = flushes
    BY <1>2 DEF Check, Only
  <2>. QED BY KeptIsUnheld
<1>3. CASE EnterAborted
  <2>. DOMAIN lines' = DOMAIN lines /\ flushes' = flushes
    BY <1>3 DEF EnterAborted, Only
  <2>. QED BY KeptIsUnheld
<1>4. CASE EnterMiss
  <2>. DOMAIN lines' = DOMAIN lines /\ flushes' = flushes
    BY <1>4 DEF EnterMiss, Only
  <2>. QED BY KeptIsUnheld
<1>5. CASE ReturnToProcess
  <2>. DOMAIN lines' = DOMAIN lines /\ flushes' = flushes
    BY <1>5 DEF Only, ReturnToProcess
  <2>. QED BY KeptIsUnheld
<1>6. CASE ExactLookup
  <2>. DOMAIN lines' = DOMAIN lines /\ flushes' = flushes
    BY <1>6 DEF ExactLookup, Only
  <2>. QED BY KeptIsUnheld
<1>7. CASE PublishedAborted
  <2>. DOMAIN lines' = DOMAIN lines /\ flushes' = flushes
    BY <1>7 DEF Only, PublishedAborted
  <2>. QED BY KeptIsUnheld
<1>8. CASE Recheck
  <2>. DOMAIN lines' = DOMAIN lines /\ flushes' = flushes
    BY <1>8 DEF Only, Recheck
  <2>. QED BY KeptIsUnheld
<1>9. CASE Finish
  <2>. DOMAIN lines' = DOMAIN lines /\ flushes' = flushes
    BY <1>9 DEF Finish, Only
  <2>. QED BY KeptIsUnheld
<1>10. CASE FinalCheck
  <2>. DOMAIN lines' = DOMAIN lines /\ flushes' = flushes
    BY <1>10 DEF FinalCheck, Only
  <2>. QED BY KeptIsUnheld
<1>11. CASE ReturnAborted
  <2>. DOMAIN lines' = DOMAIN lines /\ flushes' = flushes
    BY <1>11 DEF Drifts, Only, ReturnAborted
  <2>. QED BY KeptIsUnheld
<1>12. CASE FinishAborted
  <2>. DOMAIN lines' = DOMAIN lines /\ flushes' = flushes
    BY <1>12 DEF Drifts, FinishAborted, Only
  <2>. QED BY KeptIsUnheld
<1>13. CASE ReopenInput
  <2>. DOMAIN lines' = DOMAIN lines /\ flushes' = flushes
    BY <1>13 DEF Drifts, Only, Reattributed, ReopenInput
  <2>. QED BY KeptIsUnheld
<1>14. CASE UnrefLookup
  <2>. DOMAIN lines' = DOMAIN lines /\ flushes' = flushes
    BY <1>14 DEF Drifts, Only, Reattributed, UnrefLookup
  <2>. QED BY KeptIsUnheld
<1>15. CASE ReleaseLookup
  <2>. DOMAIN lines' = DOMAIN lines /\ flushes' = flushes
    BY <1>15 DEF Drifts, Reattributed, ReleaseLookup
  <2>. QED BY KeptIsUnheld
<1>16. CASE Swap
  <2>. DOMAIN lines' = DOMAIN lines /\ flushes' = flushes
    BY <1>16 DEF Drifts, Only, Reattributed, Swap
  <2>. QED BY KeptIsUnheld
<1>17. CASE ExactMissing
  <2>. DOMAIN lines' = DOMAIN lines /\ flushes' = flushes
    BY <1>17 DEF ExactMissing, Only, RefCount
  <2>. QED BY KeptIsUnheld
<1>18. CASE ExactReturn
  <2>. DOMAIN lines' = DOMAIN lines /\ flushes' = flushes
    BY <1>18 DEF ExactReturn, Only, RefCount
  <2>. QED BY KeptIsUnheld
<1>19. CASE ReleaseInput
  <2>. DOMAIN lines' = DOMAIN lines /\ flushes' = flushes
    BY <1>19 DEF Only, RefCount, ReleaseInput
  <2>. QED BY KeptIsUnheld
<1>20. CASE DropInput
  <2>. DOMAIN lines' = DOMAIN lines /\ flushes' = flushes
    BY <1>20 DEF DropInput, Only, RefCount
  <2>. QED BY KeptIsUnheld
<1>21. CASE DropOutput
  <2>. DOMAIN lines' = DOMAIN lines /\ flushes' = flushes
    BY <1>21 DEF DropOutput, Only, RefCount
  <2>. QED BY KeptIsUnheld
<1>22. CASE SwapOld
  <2>. DOMAIN lines' = DOMAIN lines /\ flushes' = flushes
    BY <1>22 DEF Only, RefCount, SwapOld
  <2>. QED BY KeptIsUnheld
<1>23. CASE SwapNew
  <2>. DOMAIN lines' = DOMAIN lines /\ flushes' = flushes
    BY <1>23 DEF Only, RefCount, SwapNew
  <2>. QED BY KeptIsUnheld
<1>24. CASE Unref
  <2>. DOMAIN lines' = DOMAIN lines /\ flushes' = flushes
    BY <1>24 DEF Only, RefCount, Unref
  <2>. QED BY KeptIsUnheld
<1>25. CASE ReleaseLine
  <2>. DOMAIN lines' = DOMAIN lines /\ flushes' = flushes
    BY <1>25 DEF GuiOnly, RefCount, ReleaseLine
  <2>. QED BY KeptIsUnheld
<1>26. CASE ReleaseHash
  <2>. DOMAIN lines' = DOMAIN lines /\ flushes' = flushes
    BY <1>26 DEF GuiOnly, RefCount, ReleaseHash
  <2>. QED BY KeptIsUnheld
<1>27. CASE ExactRef
  <2>. DOMAIN lines' = DOMAIN lines /\ flushes' = flushes
    BY <1>27 DEF ExactRef, ExactStep, Only, RefCount
  <2>. QED BY KeptIsUnheld
<1>28. CASE ExactDrop
  <2>. DOMAIN lines' = DOMAIN lines /\ flushes' = flushes
    BY <1>28 DEF ExactDrop, ExactStep, Only, RefCount
  <2>. QED BY KeptIsUnheld
<1>29. CASE ExactAgain
  <2>. DOMAIN lines' = DOMAIN lines /\ flushes' = flushes
    BY <1>29 DEF ExactAgain, ExactStep, Only, RefCount
  <2>. QED BY KeptIsUnheld
<1>30. CASE DropInputAgain
  <2>. DOMAIN lines' = DOMAIN lines /\ flushes' = flushes
    BY <1>30 DEF Drifts, DropInputAgain, Only, RefCount
  <2>. QED BY KeptIsUnheld
<1>31. CASE Rekey
  <2>. DOMAIN lines' = DOMAIN lines /\ flushes' = flushes
    BY <1>31 DEF Only, Rekey
  <2>. QED BY KeptIsUnheld
<1>32. CASE FailingUnlock
  <2>. DOMAIN lines' = DOMAIN lines /\ flushes' = flushes
    BY <1>32 DEF FailingUnlock, Only
  <2>. QED BY KeptIsUnheld
<1>33. CASE Publish
  <2>. DOMAIN lines' = DOMAIN lines /\ flushes' = flushes
    BY <1>33 DEF Only, Publish
  <2>. QED BY KeptIsUnheld
<1>34. CASE MarkOutput
  <2>. DOMAIN lines' = DOMAIN lines /\ flushes' = flushes
    BY <1>34 DEF MarkOutput, Only
  <2>. QED BY KeptIsUnheld
<1>35. CASE Begin
  <2>. DOMAIN lines' = DOMAIN lines /\ flushes' = flushes
    BY <1>35 DEF Begin, Only, ReadLocked
  <2>. QED BY KeptIsUnheld
<1>36. CASE Compute
  <2>. DOMAIN lines' = DOMAIN lines /\ flushes' = flushes
    BY <1>36 DEF Compute, Only, ReadLocked
  <2>. QED BY KeptIsUnheld
<1>37. CASE Interrupted
  <2>. DOMAIN lines' = DOMAIN lines /\ flushes' = flushes
    BY <1>37 DEF Interrupted, Only, ReadLocked
  <2>. QED BY KeptIsUnheld
<1>38. CASE ProcessFails
  <2>. DOMAIN lines' = DOMAIN lines /\ flushes' = flushes
    BY <1>38 DEF Only, ProcessFails, ReadLocked
  <2>. QED BY KeptIsUnheld
<1>39. CASE ReadLock
  <2>. DOMAIN lines' = DOMAIN lines /\ flushes' = flushes
    BY <1>39 DEF GuiOnly, GuiReader, ReadLock
  <2>. QED BY KeptIsUnheld
<1>40. CASE ReadUnlock
  <2>. DOMAIN lines' = DOMAIN lines /\ flushes' = flushes
    BY <1>40 DEF GuiOnly, GuiReader, ReadUnlock
  <2>. QED BY KeptIsUnheld
<1>41. CASE BorrowCheck
  <2>. DOMAIN lines' = DOMAIN lines /\ flushes' = flushes
    BY <1>41 DEF BorrowCheck, GuiOnly
  <2>. QED BY KeptIsUnheld
<1>42. CASE Painted
  <2>. DOMAIN lines' = DOMAIN lines /\ flushes' = flushes
    BY <1>42 DEF GuiOnly, Painted
  <2>. QED BY KeptIsUnheld
<1>43. CASE Kill
  <2>. DOMAIN lines' = DOMAIN lines /\ flushes' = flushes
    BY <1>43 DEF Kill
  <2>. QED BY KeptIsUnheld
<1>44. CASE \E h \in Histories, t \in 1..Modules, b \in BOOLEAN : Start(h, t, b)
  <2>. DOMAIN lines' = DOMAIN lines /\ flushes' = flushes
    BY <1>44 DEF Start
  <2>. QED BY KeptIsUnheld
<1>45. CASE \E e \in Entries : EnterHit(e) \/ AcquireExactHit(e)
  <2>. DOMAIN lines' = DOMAIN lines /\ flushes' = flushes
    BY <1>45 DEF EnterHit, AcquireExactHit, RefCount, Only
  <2>. QED BY KeptIsUnheld
<1>46. CASE \E h \in Hashes, e \in Entries : Retain(h, e)
  <2>. DOMAIN lines' = DOMAIN lines /\ flushes' = flushes
    BY <1>46 DEF Retain, RefCount, GuiOnly
  <2>. QED BY KeptIsUnheld
<1>47. CASE \E e \in Entries : Borrow(e)
  <2>. DOMAIN lines' = DOMAIN lines /\ flushes' = flushes
    BY <1>47 DEF Borrow, GuiOnly
  <2>. QED BY KeptIsUnheld
<1>48. CASE \E e \in Entries : AcquireRekey(e)
  BY <1>48 DEF AcquireRekey, RefCount, Stale, Removable, Found, Without, Restrict, Live, Unheld,
     Only
<1>49. CASE \E e \in Entries : AcquireCreate(e)
  BY <1>49 DEF AcquireCreate, Stale, Removable, Found, Live, Unheld, Only
<1>50. CASE AcquireFails
  BY <1>50 DEF AcquireFails, RefCount, Stale, Removable, Found, Without, Restrict, Live, Unheld,
     Only
<1>51. CASE Reap
  BY <1>51 DEF Reap, ReapInput, Drop, Reaped, Removable, Without, Restrict, Live, Unheld, Only
<1>52. CASE ReapAborted
  BY <1>52 DEF ReapAborted, ReapInput, Drop, Reaped, Removable, Without, Restrict, Live, Unheld,
     Only
<1>53. CASE RemoveOutput
  BY <1>53 DEF RemoveOutput, Drop, Removable, Exists, Without, Restrict, Live, Unheld, Only
<1>54. CASE \E e \in Entries : Collect(e)
  BY <1>54 DEF Collect, Evict, Drop, Removable, Without, Restrict, Live, Unheld, runVars
<1>. QED BY <1>1, <1>2, <1>3, <1>4, <1>5, <1>6, <1>7, <1>8, <1>9, <1>10, <1>11, <1>12, <1>13,
     <1>14, <1>15, <1>16, <1>17, <1>18, <1>19, <1>20, <1>21, <1>22, <1>23, <1>24, <1>25, <1>26,
     <1>27, <1>28, <1>29, <1>30, <1>31, <1>32, <1>33, <1>34, <1>35, <1>36, <1>37, <1>38, <1>39,
     <1>40, <1>41, <1>42, <1>43, <1>44, <1>45, <1>46, <1>47, <1>48, <1>49, <1>50, <1>51, <1>52,
     <1>53, <1>54 DEF Run, Gui

\* The line a painter has borrowed is not freed while the backbuffer has its hash: the reference
\* of the backbuffer keeps it, save between the release of the old line and the new hash.
THEOREM BorrowedStays == Spec => BorrowedNotFreed
<1>. DEFINE Kept == /\ GuiAt("borrow") \/ GuiAt("painting")
                    /\ gui.entry \in Live /\ gui.hash = backbuf.hash
                    /\ ~At("swapnew") /\ flushes' = 0 /\ ~over
                    => gui.entry \in Live'
<1>1. ASSUME Inv, [Next]_vars PROVE [Kept]_vars
  <2>. SUFFICES ASSUME gui.pc \in {"borrow", "painting"}, gui.entry \in Live,
                       gui.hash = backbuf.hash, w.pc # "swapnew", flushes' = 0, ~over,
                       fault = None, Run \/ Gui \/ \E e \in Entries : Collect(e)
                PROVE  gui.entry \in Live'
    BY <1>1 DEF GuiAt, At, Next, Stopped
  <2>1. /\ TableOK(lines) /\ BackbufOK(backbuf, w, lines) /\ GuiOK(gui, lines) /\ References
        /\ flushes \in Nat
    BY <1>1, BoundsAssumption DEF Inv, Content
  <2>2. ~FlushAll
    BY <2>1 DEF FlushAll
  <2>3. flushes = 0 /\ Unheld(lines, lines')
    BY <2>1, <2>2, OnlyUnheldGo
  <2>4. Len(gui.hash) = Modules /\ lines[gui.entry].hash = gui.hash
    BY <2>1 DEF GuiOK, Live
  <2>5. backbuf.hash # NoHash
    BY <2>4, ModulesAssumption DEF NoHash
  <2>6. backbuf.entry \in Entries
    BY <2>1, <2>5 DEF BackbufOK, Leases, EntryOrNone
  <2>7. Count(w, backbuf, gui, backbuf.entry) > 0
    BY CountFacts
  <2>8. backbuf.entry \in Live
    BY <2>1, <2>3, <2>6, <2>7 DEF References
  <2>9. gui.entry = backbuf.entry
    BY <2>1, <2>4, <2>8 DEF BackbufOK, TableOK, Live
  <2>10. lines[gui.entry].refs - lines[gui.entry].drift > 0 /\ lines[gui.entry].drift >= 0
    BY <2>1, <2>7, <2>8, <2>9 DEF References, Net
  <2>11. lines[gui.entry].refs \in Int /\ lines[gui.entry].drift \in Int
    BY <2>1 DEF TableOK, LineRec, Live
  <2>12. ~(lines[gui.entry].refs <= 0)
    BY <2>10, <2>11
  <2>. QED BY <2>3, <2>12 DEF Unheld, Live
<1>2. Spec => [][Kept]_vars
  <2>. HIDE DEF Kept
  <2>. QED BY <1>1, InvAlways, PTL DEF Spec
<1>. QED BY <1>2 DEF BorrowedNotFreed
=============================================================================
