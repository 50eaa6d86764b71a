---------------------- MODULE DarkroomPipelineProofs -----------------------
(***************************************************************************)
(* For any order of the pipes, any depth, any consumers and any number of  *)
(* edits, evictions, failures and pauses: a pipe that has come to rest     *)
(* shows the newest history in the newest region, unless its last run      *)
(* failed or met a switch that no flag went with.                          *)
(*                                                                         *)
(* SettledIsNewest speaks of the rest only.  The invariant follows a       *)
(* change on its way: what the history and the nodes, the nodes and the    *)
(* plan, the viewport and the plan, or the plan and the frame differ in is *)
(* always owed by somebody, by a flag of the pipe, by an access the GUI    *)
(* call in progress has still to make, or by the worker at its place in    *)
(* the loop.  That a call raises its flag after the change it announces    *)
(* is a property of the sequence of its accesses; that a killed run is     *)
(* flagged, and that a run which served a module request is continued, are *)
(* properties of the run.                                                  *)
(***************************************************************************)
EXTENDS DarkroomPipeline, TLAPS, SequenceTheorems

\* The values of the worker's position, of a request, of a plan and of a call's accesses.
Stages == {"latch", "check", "sync", "plan", "resynced", "stale", "reset", "loopKind", "getKind",
           "getModule", "clearKind", "clearModule", "exact", "module", "kept", "publish", "finish",
           "processed", "testSlot", "storeModule", "storeKind", "flag"}
Kinds == {"NONE", "MODULE", "BACKBUF"}
Plans == [hist : Int, roi : [size : Int, zoom : Int]]
Records == [gen : Int, size : Int, zoom : Int]
Ops == {<<"flag", p, f>> : p \in Pipes, f \in Flags}
       \cup {<<"switch", p, f>> : p \in Pipes, f \in Flags \cup {"none", "pause"}}
       \cup {<<"items">>, <<"hash">>, <<"pause">>} \cup {<<"request", part>> : part \in {"size", "zoom"}}
       \cup {<<"peek", c, h>> : c \in Consumers, h \in [pos : Nat, plan : Plans]}
       \cup {<<"module", c>> : c \in Consumers} \cup {<<"kind", c>> : c \in Consumers}

\* Types, as far as the argument needs them.
SharedTypes ==
    /\ items \in Nat /\ devHash \in 0..items
    /\ request \in Records /\ request.gen \in Nat
    /\ changed \in [Pipes -> SUBSET Flags] /\ shutdown \in [Pipes -> BOOLEAN]
    /\ slot \in [Pipes -> [kind : Kinds, module : 0..Depth]]
    /\ pipe \in [Pipes -> [synced : Int, hash : Int, plan : Plans]]
    /\ backbuf \in [Pipes -> [plan : Plans, hash : Int]]
    /\ todo \in Seq(Ops)

WorkerTypes ==
    /\ DOMAIN w = {"pc", "i", "latched", "need", "status", "loopKind", "kind", "module", "at", "ret"}
    /\ w.pc \in Stages /\ w.i \in 1..Len(Order) /\ w.latched \in Records
    /\ w.need \subseteq Pipes /\ w.status \subseteq Flags
    /\ w.pc = "resynced" => w.i = 1

\* A call of the GUI thread raises the flag after what the flag is about: t has the
\* flag f of pipe p after its k-th access, or anywhere.
Later(t, k, p, f) == \E j \in (k + 1)..Len(t) : t[j] = <<"flag", p, f>>
Has(t, p, f) == \E j \in 1..Len(t) : t[j] = <<"flag", p, f>>
Backed(t, k) ==
    /\ t[k] \in {<<"items">>, <<"hash">>} => \A p \in Pipes : Later(t, k, p, "SYNCH")
    /\ t[k] = <<"request", "size">> => \A p \in Pipes : Later(t, k, p, "ZOOMED")
    /\ t[k] = <<"request", "zoom">> => \A p \in Pipes \ {"preview"} : Later(t, k, p, "ZOOMED")
    /\ \A p \in Pipes : t[k] = <<"switch", p, "none">> => \E f \in Flags : Later(t, k, p, f)
    /\ \A c \in Consumers : t[k] \in {<<"module", c>>, <<"kind", c>>}
                               => Later(t, k, TargetPipe[c], "CACHE_REQUEST")
CallsBacked == \A k \in 1..Len(todo) : Backed(todo, k)

\* Pipe p is flagged, or the call in progress will flag it.
Owed(p) == changed[p] # {} \/ \E f \in Flags : Has(todo, p, f)

\* The pipes that may rest on an older frame.
Excused == failed \cup late

\* The worker is resyncing pipe p; it has resynced it and has not come to the test for a stale
\* plan; it is in the middle of its run.
Resyncing(p) == P = p /\ w.pc \in {"sync", "plan"}
Coming(p) ==
    /\ p \in w.need /\ w.pc # "latch"
    /\ \/ w.pc \in {"check", "sync", "plan", "resynced"}
       \/ w.pc = "stale" /\ P = p
       \/ \E j \in (w.i + 1)..Len(Order) : Order[j] = p
InRun(p) ==
    /\ P = p
    /\ \/ w.pc \in {"reset", "loopKind", "getKind", "getModule", "clearKind", "clearModule",
                    "exact", "module", "kept", "publish"}
       \/ w.pc \in {"finish", "processed"} /\ w.loopKind = "MODULE"
       \/ w.pc \in {"testSlot", "storeModule", "storeKind", "flag"}

\* A record with the generation of the current one is the current one, and the history hashes
\* of frame, pipe and dev follow each other.
Bounds ==
    /\ w.pc \in {"sync", "plan"} => P \in w.need
    /\ w.latched.gen <= request.gen
    /\ w.latched.gen = request.gen => w.latched = request
    /\ \A p \in Pipes : backbuf[p].hash <= pipe[p].hash /\ pipe[p].hash <= devHash

\* The nodes follow the history, the plan the nodes and the viewport, the frame the plan; or
\* somebody will see to it.
SyncedOK ==
    \A p \in Pipes : \/ pipe[p].synced = items
                     \/ "SYNCH" \in changed[p] \/ Has(todo, p, "SYNCH")
                     \/ P = p /\ w.pc = "sync" /\ "SYNCH" \in w.status
PlanOK ==
    \A p \in Pipes : pipe[p].plan.hist = pipe[p].synced \/ Resyncing(p)
RoiOK ==
    \A p \in Pipes : \/ pipe[p].plan.roi = Roi(p, request)
                     \/ Owed(p) \/ Resyncing(p)
                     \/ Coming(p) /\ w.latched.gen # request.gen
FrameOK ==
    \A p \in Pipes : backbuf[p] = Frame(p) \/ Owed(p) \/ p \in Excused \/ Coming(p) \/ InRun(p)

\* What the running worker has seen of the switch and of the request.
SwitchOK ==
    w.pc \in {"loopKind", "getKind", "getModule", "clearKind", "clearModule", "exact",
              "module", "kept", "publish", "finish"} /\ shutdown[P] => Owed(P) \/ P \in Excused
RequestOK ==
    /\ w.pc = "getKind" /\ slot[P].kind = "MODULE" => w.loopKind = "MODULE" \/ Owed(P)
    /\ w.pc \in {"getModule", "clearKind", "clearModule", "exact", "module", "kept", "publish"}
         /\ w.kind = "MODULE" => w.loopKind = "MODULE" \/ Owed(P)
StopOK == w.pc = "finish" /\ w.ret # 0 => Owed(P) \/ P \in Excused

\* The inductive invariant.
DInv ==
    /\ SharedTypes /\ WorkerTypes /\ CallsBacked /\ Bounds
    /\ SyncedOK /\ PlanOK /\ RoiOK /\ FrameOK /\ SwitchOK /\ RequestOK /\ StopOK
-----------------------------------------------------------------------------
(***************************************************************************)
(* Calls as sequences of accesses.                                         *)
(***************************************************************************)
\* What access o needs of the accesses t that follow it.
Covers(o, t) ==
    /\ o \in {<<"items">>, <<"hash">>} => \A p \in Pipes : Has(t, p, "SYNCH")
    /\ o = <<"request", "size">> => \A p \in Pipes : Has(t, p, "ZOOMED")
    /\ o = <<"request", "zoom">> => \A p \in Pipes \ {"preview"} : Has(t, p, "ZOOMED")
    /\ \A p \in Pipes : o = <<"switch", p, "none">> => \E f \in Flags : Has(t, p, f)
    /\ \A c \in Consumers : o \in {<<"module", c>>, <<"kind", c>>}
                               => Has(t, TargetPipe[c], "CACHE_REQUEST")
AllBacked(t) == \A k \in 1..Len(t) : Backed(t, k)

\* The accesses after the first one.
LEMMA TailFacts ==
  ASSUME NEW t \in Seq(Ops), t # <<>>
  PROVE  /\ Head(t) = t[1] /\ Head(t) \in Ops /\ Len(t) \in Nat /\ Len(t) >= 1
         /\ Tail(t) \in Seq(Ops) /\ Len(Tail(t)) = Len(t) - 1
         /\ \A k \in 1..(Len(t) - 1) : Tail(t)[k] = t[k + 1]
  BY SMT

\* A flag still to come is the next access or comes after it.
LEMMA HasTail ==
  ASSUME NEW t \in Seq(Ops), t # <<>>, NEW p, NEW f
  PROVE  Has(t, p, f) <=> Head(t) = <<"flag", p, f>> \/ Has(Tail(t), p, f)
  <1> DEFINE g == <<"flag", p, f>>
  <1>0. /\ Head(t) = t[1] /\ Len(t) \in Nat /\ Len(t) >= 1 /\ Len(Tail(t)) = Len(t) - 1
        /\ \A k \in 1..(Len(t) - 1) : Tail(t)[k] = t[k + 1]
    BY TailFacts
  <1> HIDE DEF g
  <1>1. ASSUME NEW j \in 1..Len(t), t[j] = g PROVE Head(t) = g \/ \E k \in 1..Len(Tail(t)) : Tail(t)[k] = g
    <2>1. CASE j = 1
      BY <1>0, <1>1, <2>1
    <2>2. CASE j # 1
      <3>1. j - 1 \in 1..(Len(t) - 1) /\ (j - 1) + 1 = j
        BY <1>0, <2>2
      <3>2. Tail(t)[j - 1] = g
        BY <1>0, <1>1, <3>1
      <3> QED
        BY <1>0, <3>1, <3>2
    <2> QED
      BY <2>1, <2>2
  <1>2. ASSUME NEW k \in 1..Len(Tail(t)), Tail(t)[k] = g PROVE \E j \in 1..Len(t) : t[j] = g
    <2>1. k + 1 \in 1..Len(t) /\ t[k + 1] = g
      BY <1>0, <1>2
    <2> QED
      BY <2>1
  <1>3. Head(t) = g => \E j \in 1..Len(t) : t[j] = g
    <2>1. 1 \in 1..Len(t)
      BY <1>0
    <2> QED
      BY <1>0, <2>1
  <1> QED
    BY <1>1, <1>2, <1>3 DEF Has, g

\* What is backed stays backed when the first access has been made, and the first one
\* is covered by what follows.
LEMMA BackedTail ==
  ASSUME NEW t \in Seq(Ops), t # <<>>, AllBacked(t)
  PROVE  AllBacked(Tail(t)) /\ Covers(Head(t), Tail(t))
  <1>0. /\ Head(t) = t[1] /\ Len(t) \in Nat /\ Len(t) >= 1 /\ Len(Tail(t)) = Len(t) - 1
        /\ \A k \in 1..(Len(t) - 1) : Tail(t)[k] = t[k + 1]
    BY TailFacts
  <1>1. ASSUME NEW k \in 1..Len(t), NEW p, NEW f, Later(t, k, p, f)
        PROVE  \E j \in k..Len(Tail(t)) : Tail(t)[j] = <<"flag", p, f>>
    <2>1. PICK j \in (k + 1)..Len(t) : t[j] = <<"flag", p, f>>
      BY <1>1 DEF Later
    <2>2. j - 1 \in k..Len(Tail(t)) /\ j - 1 \in 1..(Len(t) - 1) /\ (j - 1) + 1 = j
      BY <1>0
    <2> QED
      BY <1>0, <2>1, <2>2
  <1>2. ASSUME NEW p, NEW f, Later(t, 1, p, f) PROVE Has(Tail(t), p, f)
    <2>1. 1 \in 1..Len(t)
      BY <1>0
    <2> QED
      BY <1>1, <1>2, <2>1 DEF Has
  <1>3. ASSUME NEW k \in 1..(Len(t) - 1), NEW p, NEW f, Later(t, k + 1, p, f)
        PROVE  Later(Tail(t), k, p, f)
    <2>1. k + 1 \in 1..Len(t)
      BY <1>0
    <2> QED
      BY <1>1, <1>3, <2>1 DEF Later
  <1>4. Covers(Head(t), Tail(t))
    <2>1. Backed(t, 1)
      BY <1>0 DEF AllBacked
    <2> QED
      BY <1>0, <1>2, <2>1 DEF Backed, Covers
  <1>5. ASSUME NEW k \in 1..(Len(t) - 1) PROVE Backed(Tail(t), k)
    <2>1. Backed(t, k + 1) /\ Tail(t)[k] = t[k + 1]
      BY <1>0 DEF AllBacked
    <2> QED
      BY <1>3, <2>1 DEF Backed
  <1> QED
    BY <1>0, <1>4, <1>5 DEF AllBacked

\* One call after another.
LEMMA ConcatFacts ==
  ASSUME NEW s \in Seq(Ops), NEW t \in Seq(Ops)
  PROVE  /\ s \o t \in Seq(Ops) /\ Len(s) \in Nat /\ Len(t) \in Nat
         /\ Len(s \o t) = Len(s) + Len(t)
         /\ \A k \in 1..Len(s) : (s \o t)[k] = s[k]
         /\ \A k \in 1..Len(t) : (s \o t)[Len(s) + k] = t[k]
  BY SMT

\* The flags of a call are those of its two parts.
LEMMA HasConcat ==
  ASSUME NEW s \in Seq(Ops), NEW t \in Seq(Ops), NEW p, NEW f, Has(s, p, f) \/ Has(t, p, f)
  PROVE  Has(s \o t, p, f)
  <1>0. /\ Len(s) \in Nat /\ Len(t) \in Nat /\ Len(s \o t) = Len(s) + Len(t)
        /\ \A k \in 1..Len(s) : (s \o t)[k] = s[k]
        /\ \A k \in 1..Len(t) : (s \o t)[Len(s) + k] = t[k]
    BY ConcatFacts
  <1>1. ASSUME NEW j \in 1..Len(s), s[j] = <<"flag", p, f>> PROVE Has(s \o t, p, f)
    <2>1. j \in 1..Len(s \o t)
      BY <1>0
    <2> QED
      BY <1>0, <1>1, <2>1 DEF Has
  <1>2. ASSUME NEW j \in 1..Len(t), t[j] = <<"flag", p, f>> PROVE Has(s \o t, p, f)
    <2>1. Len(s) + j \in 1..Len(s \o t)
      BY <1>0
    <2> QED
      BY <1>0, <1>2, <2>1 DEF Has
  <1> QED
    BY <1>1, <1>2 DEF Has

\* Accesses that are covered by what follows them keep a call backed.
LEMMA BackedConcat ==
  ASSUME NEW s \in Seq(Ops), NEW t \in Seq(Ops), AllBacked(t),
         \A k \in 1..Len(s) : Covers(s[k], t)
  PROVE  AllBacked(s \o t)
  <1>0. /\ Len(s) \in Nat /\ Len(t) \in Nat /\ Len(s \o t) = Len(s) + Len(t)
        /\ \A k \in 1..Len(s) : (s \o t)[k] = s[k]
        /\ \A k \in 1..Len(t) : (s \o t)[Len(s) + k] = t[k]
    BY ConcatFacts
  <1>1. ASSUME NEW k \in 1..Len(s), NEW p, NEW f, Has(t, p, f) PROVE Later(s \o t, k, p, f)
    <2>1. PICK j \in 1..Len(t) : t[j] = <<"flag", p, f>>
      BY <1>1 DEF Has
    <2>2. Len(s) + j \in (k + 1)..Len(s \o t)
      BY <1>0
    <2> QED
      BY <1>0, <2>1, <2>2 DEF Later
  <1>2. ASSUME NEW k \in 1..Len(t), NEW p, NEW f, Later(t, k, p, f)
        PROVE  Later(s \o t, Len(s) + k, p, f)
    <2>1. PICK j \in (k + 1)..Len(t) : t[j] = <<"flag", p, f>>
      BY <1>2 DEF Later
    <2>2. Len(s) + j \in (Len(s) + k + 1)..Len(s \o t) /\ j \in 1..Len(t)
      BY <1>0
    <2> QED
      BY <1>0, <2>1, <2>2 DEF Later
  <1>3. ASSUME NEW k \in 1..Len(s) PROVE Backed(s \o t, k)
    <2>1. Covers(s[k], t) /\ (s \o t)[k] = s[k]
      BY <1>0
    <2> QED
      BY <1>1, <2>1 DEF Backed, Covers
  <1>4. ASSUME NEW k \in 1..Len(t) PROVE Backed(s \o t, Len(s) + k)
    <2>1. Backed(t, k) /\ (s \o t)[Len(s) + k] = t[k]
      BY <1>0 DEF AllBacked
    <2> QED
      BY <1>2, <2>1 DEF Backed
  <1>5. ASSUME NEW k \in 1..Len(s \o t) PROVE Backed(s \o t, k)
    <2>1. CASE k \in 1..Len(s)
      BY <1>3, <2>1
    <2>2. CASE k \notin 1..Len(s)
      <3>1. k - Len(s) \in 1..Len(t) /\ Len(s) + (k - Len(s)) = k
        BY <1>0, <2>2
      <3>2. Backed(s \o t, Len(s) + (k - Len(s)))
        BY <1>4, <3>1
      <3> QED
        BY <3>1, <3>2
    <2> QED
      BY <2>1, <2>2
  <1> QED
    BY <1>5 DEF AllBacked

\* Two backed calls, one after the other.
LEMMA BackedAfter ==
  ASSUME NEW s \in Seq(Ops), NEW t \in Seq(Ops), AllBacked(s), AllBacked(t)
  PROVE  AllBacked(s \o t)
  <1>0. /\ Len(s) \in Nat /\ Len(t) \in Nat /\ Len(s \o t) = Len(s) + Len(t)
        /\ \A k \in 1..Len(s) : (s \o t)[k] = s[k]
        /\ \A k \in 1..Len(t) : (s \o t)[Len(s) + k] = t[k]
    BY ConcatFacts
  <1>1. ASSUME NEW k \in 1..Len(s), NEW p, NEW f, Later(s, k, p, f) PROVE Later(s \o t, k, p, f)
    <2>1. PICK j \in (k + 1)..Len(s) : s[j] = <<"flag", p, f>>
      BY <1>1 DEF Later
    <2>2. j \in (k + 1)..Len(s \o t) /\ j \in 1..Len(s)
      BY <1>0
    <2> QED
      BY <1>0, <2>1, <2>2 DEF Later
  <1>2. ASSUME NEW k \in 1..Len(t), NEW p, NEW f, Later(t, k, p, f)
        PROVE  Later(s \o t, Len(s) + k, p, f)
    <2>1. PICK j \in (k + 1)..Len(t) : t[j] = <<"flag", p, f>>
      BY <1>2 DEF Later
    <2>2. Len(s) + j \in (Len(s) + k + 1)..Len(s \o t) /\ j \in 1..Len(t)
      BY <1>0
    <2> QED
      BY <1>0, <2>1, <2>2 DEF Later
  <1>3. ASSUME NEW k \in 1..Len(s) PROVE Backed(s \o t, k)
    <2>1. Backed(s, k) /\ (s \o t)[k] = s[k]
      BY <1>0 DEF AllBacked
    <2> QED
      BY <1>1, <2>1 DEF Backed
  <1>4. ASSUME NEW k \in 1..Len(t) PROVE Backed(s \o t, Len(s) + k)
    <2>1. Backed(t, k) /\ (s \o t)[Len(s) + k] = t[k]
      BY <1>0 DEF AllBacked
    <2> QED
      BY <1>2, <2>1 DEF Backed
  <1>5. ASSUME NEW k \in 1..Len(s \o t) PROVE Backed(s \o t, k)
    <2>1. CASE k \in 1..Len(s)
      BY <1>3, <2>1
    <2>2. CASE k \notin 1..Len(s)
      <3>1. k - Len(s) \in 1..Len(t) /\ Len(s) + (k - Len(s)) = k
        BY <1>0, <2>2
      <3>2. Backed(s \o t, Len(s) + (k - Len(s)))
        BY <1>4, <3>1
      <3> QED
        BY <3>1, <3>2
    <2> QED
      BY <2>1, <2>2
  <1> QED
    BY <1>5 DEF AllBacked

\* The calls of the GUI thread.
LEMMA EmptyCall == <<>> \in Seq(Ops) /\ AllBacked(<<>>)
  BY DEF AllBacked

\* Both parts covered, the whole is.
LEMMA CoversConcat ==
  ASSUME NEW s \in Seq(Ops), NEW t \in Seq(Ops), NEW u,
         \A k \in 1..Len(s) : Covers(s[k], u), \A k \in 1..Len(t) : Covers(t[k], u)
  PROVE  \A k \in 1..Len(s \o t) : Covers((s \o t)[k], u)
  <1>0. /\ Len(s) \in Nat /\ Len(t) \in Nat /\ Len(s \o t) = Len(s) + Len(t)
        /\ \A k \in 1..Len(s) : (s \o t)[k] = s[k]
        /\ \A k \in 1..Len(t) : (s \o t)[Len(s) + k] = t[k]
    BY ConcatFacts
  <1>1. ASSUME NEW k \in 1..Len(s \o t) PROVE Covers((s \o t)[k], u)
    <2>1. CASE k \in 1..Len(s)
      BY <1>0, <2>1
    <2>2. CASE k \notin 1..Len(s)
      <3>1. k - Len(s) \in 1..Len(t) /\ Len(s) + (k - Len(s)) = k
        BY <1>0, <2>2
      <3>2. (s \o t)[Len(s) + (k - Len(s))] = t[k - Len(s)] /\ Covers(t[k - Len(s)], u)
        BY <1>0, <3>1
      <3> QED
        BY <3>1, <3>2
    <2> QED
      BY <2>1, <2>2
  <1> QED
    BY <1>1

\* The flag and the switch of _change_pipe need nothing after them.
LEMMA ChangeFacts ==
  ASSUME NEW p, NEW f \in Flags
  PROVE  /\ ChangePipe(p, f) \in Seq(Ops)
         /\ \A t : \A k \in 1..Len(ChangePipe(p, f)) : Covers(ChangePipe(p, f)[k], t)
         /\ p \in Pipes => Has(ChangePipe(p, f), p, f)
  <1>1. CASE p \in Pipes
    <2>1. <<"flag", p, f>> \in Ops /\ <<"switch", p, f>> \in Ops /\ f # "none"
      BY <1>1 DEF Ops, Flags
    <2>2. \A t : Covers(<<"flag", p, f>>, t)
      BY DEF Covers
    <2>3. \A t : Covers(<<"switch", p, f>>, t)
      BY <2>1 DEF Covers
    <2>4. ChangePipe(p, f) = << <<"flag", p, f>>, <<"switch", p, f>> >>
      BY <1>1 DEF ChangePipe
    <2> DEFINE a == <<"flag", p, f>>
               b == <<"switch", p, f>>
               s == <<a, b>>
    <2> HIDE DEF a, b
    <2>5. s \in Seq(Ops) /\ Len(s) = 2 /\ s[1] = a /\ s[2] = b
      BY <2>1 DEF a, b
    <2> HIDE DEF s
    <2>6. \A t : \A k \in 1..Len(s) : Covers(s[k], t)
      BY <2>2, <2>3, <2>5 DEF a, b
    <2>7. Has(s, p, f)
      BY <2>5 DEF Has, a
    <2> QED
      BY <2>4, <2>5, <2>6, <2>7 DEF s, a, b
  <1>2. CASE p \notin Pipes
    BY <1>2, EmptyCall DEF ChangePipe
  <1> QED
    BY <1>1, <1>2

\* A switch alone needs a flag later.
LEMMA KillFacts ==
  ASSUME NEW p
  PROVE  /\ KillSwitch(p) \in Seq(Ops)
         /\ \A t : (p \in Pipes => \E f \in Flags : Has(t, p, f))
                     => \A k \in 1..Len(KillSwitch(p)) : Covers(KillSwitch(p)[k], t)
  <1>1. CASE p \in Pipes
    <2> DEFINE a == <<"switch", p, "none">>
               s == <<a>>
    <2>1. a \in Ops
      BY <1>1 DEF Ops
    <2>2. \A t : (\E f \in Flags : Has(t, p, f)) => Covers(a, t)
      BY DEF Covers
    <2>3. KillSwitch(p) = s
      BY <1>1 DEF KillSwitch
    <2> HIDE DEF a
    <2>4. s \in Seq(Ops) /\ Len(s) = 1 /\ s[1] = a
      BY <2>1
    <2> HIDE DEF s
    <2> QED
      BY <1>1, <2>2, <2>3, <2>4
  <1>2. CASE p \notin Pipes
    BY <1>2, EmptyCall DEF KillSwitch
  <1> QED
    BY <1>1, <1>2

\* dt_dev_roi_request_publish flags every pipe whose region the record changes.
LEMMA PublishFacts ==
  ASSUME NEW part \in {"size", "zoom"}
  PROVE  PublishRequest(part) \in Seq(Ops) /\ AllBacked(PublishRequest(part))
  <1> DEFINE a == <<"request", part>>
             s == <<a>>
             x == IF part = "size" THEN ChangePipe("preview", "ZOOMED") ELSE <<>>
             y == ChangePipe("main", "ZOOMED")
  <1>0. PublishRequest(part) = (s \o x) \o y
    BY DEF PublishRequest
  <1>1. "ZOOMED" \in Flags
    BY DEF Flags
  <1>2. x \in Seq(Ops) /\ \A t : \A k \in 1..Len(x) : Covers(x[k], t)
    BY <1>1, ChangeFacts, EmptyCall
  <1>3. y \in Seq(Ops) /\ \A t : \A k \in 1..Len(y) : Covers(y[k], t)
    BY <1>1, ChangeFacts
  <1>4. part = "size" /\ "preview" \in Pipes => Has(x, "preview", "ZOOMED")
    BY <1>1, ChangeFacts
  <1>5. "main" \in Pipes => Has(y, "main", "ZOOMED")
    BY <1>1, ChangeFacts
  <1> HIDE DEF x, y
  <1>6. Pipes \subseteq {"preview", "main"}
    BY DarkroomAssumption DEF Pipes
  <1>7. x \o y \in Seq(Ops)
    BY <1>2, <1>3, ConcatFacts
  <1>8. "main" \in Pipes => Has(x \o y, "main", "ZOOMED")
    BY <1>2, <1>3, <1>5, HasConcat
  <1>9. part = "size" /\ "preview" \in Pipes => Has(x \o y, "preview", "ZOOMED")
    BY <1>2, <1>3, <1>4, HasConcat
  <1>10. Covers(a, x \o y)
    <2>1. part = "size" => \A p \in Pipes : Has(x \o y, p, "ZOOMED")
      BY <1>6, <1>8, <1>9
    <2>2. \A p \in Pipes \ {"preview"} : Has(x \o y, p, "ZOOMED")
      BY <1>6, <1>8
    <2> QED
      BY <2>1, <2>2 DEF Covers
  <1>11. AllBacked(y)
    <2>1. y = y \o <<>> /\ AllBacked(y \o <<>>)
      BY <1>3, EmptyCall, BackedConcat, ConcatEmptySeq
    <2> QED
      BY <2>1
  <1>12. AllBacked(x \o y)
    BY <1>2, <1>3, <1>11, BackedConcat
  <1>13. a \in Ops
    BY DEF Ops
  <1> HIDE DEF a
  <1>14. s \in Seq(Ops) /\ Len(s) = 1 /\ s[1] = a
    BY <1>13
  <1> HIDE DEF s
  <1>15. AllBacked(s \o (x \o y)) /\ s \o (x \o y) \in Seq(Ops)
    <2>1. \A k \in 1..Len(s) : Covers(s[k], x \o y)
      BY <1>10, <1>14
    <2> QED
      BY <2>1, <1>7, <1>12, <1>14, BackedConcat, ConcatFacts
  <1>16. (s \o x) \o y = s \o (x \o y)
    BY <1>2, <1>3, <1>14, ConcatAssociative
  <1> QED
    BY <1>0, <1>15, <1>16

\* dt_dev_history_commit_item_now flags every pipe after the switches, the items and the hash.
LEMMA CommitFacts ==
  ASSUME NEW g \in BOOLEAN
  PROVE  LET t == KillSwitch("main") \o KillSwitch("preview") \o << <<"items">>, <<"hash">> >>
                  \o ChangePipe("preview", "SYNCH") \o ChangePipe("main", "SYNCH")
                  \o (IF g THEN PublishRequest("size") ELSE <<>>)
         IN  t \in Seq(Ops) /\ AllBacked(t)
  <1> DEFINE a == KillSwitch("main")
             b == KillSwitch("preview")
             o1 == <<"items">>
             o2 == <<"hash">>
             c == <<o1, o2>>
             d == ChangePipe("preview", "SYNCH")
             e == ChangePipe("main", "SYNCH")
             f == IF g THEN PublishRequest("size") ELSE <<>>
             u == d \o (e \o f)
  <1>0. "SYNCH" \in Flags
    BY DEF Flags
  <1>1. d \in Seq(Ops) /\ \A t : \A k \in 1..Len(d) : Covers(d[k], t)
    BY <1>0, ChangeFacts
  <1>2. e \in Seq(Ops) /\ \A t : \A k \in 1..Len(e) : Covers(e[k], t)
    BY <1>0, ChangeFacts
  <1>3. "preview" \in Pipes => Has(d, "preview", "SYNCH")
    BY <1>0, ChangeFacts
  <1>4. "main" \in Pipes => Has(e, "main", "SYNCH")
    BY <1>0, ChangeFacts
  <1>5. f \in Seq(Ops) /\ AllBacked(f)
    BY PublishFacts, EmptyCall
  <1>6. a \in Seq(Ops) /\ \A t : ("main" \in Pipes => \E x \in Flags : Has(t, "main", x))
                            => \A k \in 1..Len(a) : Covers(a[k], t)
    BY KillFacts
  <1>7. b \in Seq(Ops) /\ \A t : ("preview" \in Pipes => \E x \in Flags : Has(t, "preview", x))
                            => \A k \in 1..Len(b) : Covers(b[k], t)
    BY KillFacts
  <1>8. o1 \in Ops /\ o2 \in Ops
    BY DEF Ops
  <1>9. \A t : (\A p \in Pipes : Has(t, p, "SYNCH")) => Covers(o1, t) /\ Covers(o2, t)
    BY DEF Covers
  <1> HIDE DEF a, b, d, e, f, o1, o2
  <1>10. c \in Seq(Ops) /\ Len(c) = 2 /\ c[1] = o1 /\ c[2] = o2
    BY <1>8
  <1> HIDE DEF c
  <1>11. e \o f \in Seq(Ops) /\ AllBacked(e \o f)
    BY <1>2, <1>5, BackedConcat, ConcatFacts
  <1>12. u \in Seq(Ops) /\ AllBacked(u)
    BY <1>1, <1>11, BackedConcat, ConcatFacts
  <1>13. "main" \in Pipes => Has(u, "main", "SYNCH")
    BY <1>1, <1>2, <1>4, <1>5, <1>11, HasConcat
  <1>14. "preview" \in Pipes => Has(u, "preview", "SYNCH")
    BY <1>1, <1>3, <1>11, HasConcat
  <1>15. \A p \in Pipes : Has(u, p, "SYNCH")
    <2>1. Pipes \subseteq {"preview", "main"}
      BY DarkroomAssumption DEF Pipes
    <2> QED
      BY <2>1, <1>13, <1>14
  <1>16. \A k \in 1..Len(c) : Covers(c[k], u)
    BY <1>9, <1>10, <1>15
  <1>17. a \o b \in Seq(Ops) /\ \A k \in 1..Len(a \o b) : Covers((a \o b)[k], u)
    BY <1>0, <1>6, <1>7, <1>13, <1>14, CoversConcat, ConcatFacts
  <1> DEFINE h == (a \o b) \o c
  <1>18. h \in Seq(Ops) /\ \A k \in 1..Len(h) : Covers(h[k], u)
    BY <1>10, <1>16, <1>17, CoversConcat, ConcatFacts
  <1> HIDE DEF h
  <1>19. h \o u \in Seq(Ops) /\ AllBacked(h \o u)
    BY <1>12, <1>18, BackedConcat, ConcatFacts
  <1>20. ((h \o d) \o e) \o f = h \o u
    <2> DEFINE q == h \o d
               r == e \o f
    <2>1. h \in Seq(Ops) /\ q \in Seq(Ops)
      BY <1>1, <1>18, ConcatFacts
    <2>2. d \in Seq(Ops) /\ r \in Seq(Ops)
      BY <1>1, <1>11
    <2>3. e \in Seq(Ops) /\ f \in Seq(Ops)
      BY <1>2, <1>5
    <2>4. q \o r = h \o (d \o r)
      <3> HIDE DEF r
      <3> QED
        BY <2>1, <2>2, ConcatAssociative
    <2>5. (q \o e) \o f = q \o r
      <3> HIDE DEF q
      <3> QED
        BY <2>1, <2>3, ConcatAssociative
    <2> QED
      BY <2>4, <2>5
  <1> QED
    BY <1>19, <1>20 DEF h, a, b, c, d, e, f, o1, o2

\* A setter of the viewport flags the main pipe after its switch.
LEMMA ZoomFacts ==
  LET t == PublishRequest("zoom") \o KillSwitch("main") \o ChangePipe("main", "ZOOMED")
  IN  t \in Seq(Ops) /\ AllBacked(t)
  <1> DEFINE a == PublishRequest("zoom")
             b == KillSwitch("main")
             c == ChangePipe("main", "ZOOMED")
  <1>1. "ZOOMED" \in Flags
    BY DEF Flags
  <1>2. a \in Seq(Ops) /\ AllBacked(a)
    BY PublishFacts
  <1>3. c \in Seq(Ops) /\ \A t : \A k \in 1..Len(c) : Covers(c[k], t)
    BY <1>1, ChangeFacts
  <1>4. "main" \in Pipes => Has(c, "main", "ZOOMED")
    BY <1>1, ChangeFacts
  <1>5. b \in Seq(Ops) /\ \A t : ("main" \in Pipes => \E x \in Flags : Has(t, "main", x))
                            => \A k \in 1..Len(b) : Covers(b[k], t)
    BY KillFacts
  <1> HIDE DEF a, b, c
  <1>6. AllBacked(c)
    <2>1. c = c \o <<>> /\ AllBacked(c \o <<>>)
      BY <1>3, EmptyCall, BackedConcat, ConcatEmptySeq
    <2> QED
      BY <2>1
  <1>7. b \o c \in Seq(Ops) /\ AllBacked(b \o c)
    BY <1>1, <1>3, <1>4, <1>5, <1>6, BackedConcat, ConcatFacts
  <1>8. a \o (b \o c) \in Seq(Ops) /\ AllBacked(a \o (b \o c))
    BY <1>2, <1>7, BackedAfter, ConcatFacts
  <1>9. (a \o b) \o c = a \o (b \o c)
    BY <1>2, <1>3, <1>5, ConcatAssociative
  <1> QED
    BY <1>8, <1>9 DEF a, b, c

\* The start of a stroke flags the main pipe and stops the preview, which it has paused.
LEMMA PauseFacts ==
  ASSUME NEW stop \in BOOLEAN
  PROVE  LET s == ChangePipe("main", "SYNCH") \o << <<"pause">> >>
                  \o (IF stop /\ "preview" \in Pipes THEN << <<"switch", "preview", "pause">> >>
                      ELSE <<>>)
         IN  s \in Seq(Ops) /\ AllBacked(s)
  <1> DEFINE a == <<"pause">>
             b == <<"switch", "preview", "pause">>
             x == ChangePipe("main", "SYNCH")
             y == <<a>>
             z == IF stop /\ "preview" \in Pipes THEN <<b>> ELSE <<>>
  <1>1. a \in Ops /\ ("preview" \in Pipes => b \in Ops) /\ "SYNCH" \in Flags
    BY DEF Ops, Flags
  <1>2. \A t : Covers(a, t) /\ Covers(b, t)
    BY DEF Covers
  <1>3. x \in Seq(Ops) /\ \A t : \A k \in 1..Len(x) : Covers(x[k], t)
    BY <1>1, ChangeFacts
  <1> HIDE DEF a, b, x
  <1>4. y \in Seq(Ops) /\ \A t : \A k \in 1..Len(y) : Covers(y[k], t)
    BY <1>1, <1>2
  <1>5. z \in Seq(Ops) /\ \A t : \A k \in 1..Len(z) : Covers(z[k], t)
    BY <1>1, <1>2
  <1> HIDE DEF y, z
  <1>6. AllBacked(z)
    <2>1. AllBacked(z \o <<>>) /\ z \o <<>> = z
      BY <1>5, EmptyCall, BackedConcat, ConcatEmptySeq
    <2> QED
      BY <2>1
  <1>7. AllBacked(y \o z) /\ y \o z \in Seq(Ops)
    BY <1>4, <1>5, <1>6, BackedConcat, ConcatFacts
  <1>8. AllBacked(x \o (y \o z)) /\ x \o (y \o z) \in Seq(Ops)
    BY <1>3, <1>7, BackedConcat, ConcatFacts
  <1>9. x \o (y \o z) = (x \o y) \o z
    BY <1>3, <1>4, <1>5, ConcatAssociative
  <1> QED
    BY <1>8, <1>9 DEF a, b, x, y, z

\* A request for a line is stored, then flagged.
LEMMA LineFacts ==
  ASSUME NEW c \in Consumers
  PROVE  RequestLine(c) \in Seq(Ops) /\ AllBacked(RequestLine(c))
  <1> DEFINE a == <<"module", c>>
             b == <<"kind", c>>
             f == <<"flag", TargetPipe[c], "CACHE_REQUEST">>
             s == <<a, b>>
             t == <<f>>
  <1>1. a \in Ops /\ b \in Ops /\ f \in Ops
    BY DarkroomAssumption DEF Ops, Flags
  <1>2. \A u : Covers(f, u)
    BY DEF Covers
  <1>3. \A u : Has(u, TargetPipe[c], "CACHE_REQUEST") => Covers(a, u) /\ Covers(b, u)
    BY DEF Covers
  <1>4. RequestLine(c) = <<a, b, f>>
    BY DEF RequestLine
  <1> HIDE DEF a, b
  <1>5. Has(t, TargetPipe[c], "CACHE_REQUEST")
    BY DEF Has
  <1> HIDE DEF f
  <1>6. s \in Seq(Ops) /\ t \in Seq(Ops) /\ <<a, b, f>> = s \o t
    BY <1>1
  <1>7. AllBacked(t)
    <2>1. AllBacked(t \o <<>>) /\ t = t \o <<>>
      <3>1. \A k \in 1..Len(t) : Covers(t[k], <<>>)
        BY <1>2
      <3> QED
        BY <3>1, <1>6, EmptyCall, BackedConcat, ConcatEmptySeq
    <2> QED
      BY <2>1
  <1>8. \A k \in 1..Len(s) : Covers(s[k], t)
    BY <1>3, <1>5
  <1> HIDE DEF s, t
  <1>9. AllBacked(s \o t) /\ s \o t \in Seq(Ops)
    BY <1>6, <1>7, <1>8, BackedConcat, ConcatFacts
  <1> QED
    BY <1>4, <1>6, <1>9
-----------------------------------------------------------------------------
(***************************************************************************)
(* The worker.                                                             *)
(***************************************************************************)
RunStages == Stages \ {"latch", "check", "sync", "plan", "resynced", "stale"}
Fields == {"pc", "i", "latched", "need", "status", "loopKind", "kind", "module", "at", "ret"}

\* The worker is at a pipe.
LEMMA PipeFacts ==
  ASSUME WorkerTypes
  PROVE  Len(Order) \in Nat /\ w.i \in 1..Len(Order) /\ P \in Pipes
  <1>1. Len(Order) \in Nat /\ DOMAIN Order = 1..Len(Order)
    BY DarkroomAssumption, LenProperties
  <1> QED
    BY <1>1 DEF WorkerTypes, P, Pipes

\* It goes to the next pipe, or leaves the loop.
LEMMA NextPipeFacts ==
  ASSUME WorkerTypes, NEW v, DOMAIN v = Fields, v.i = w.i, NEW again, NEW after
  PROVE  LET n == NextPipe(v, again, after)
         IN  /\ DOMAIN n = Fields /\ n.i \in 1..Len(Order)
             /\ n.status = {} /\ n.loopKind = "NONE" /\ n.kind = "NONE"
             /\ n.module = NULL /\ n.ret = 0
             /\ w.i < Len(Order) => /\ n.i = w.i + 1 /\ n.pc = again
                                    /\ n.latched = v.latched /\ n.need = v.need
             /\ ~(w.i < Len(Order)) =>
                  /\ n.i = 1 /\ n.pc = after
                  /\ n.latched = IF after = "latch" THEN NoRequest ELSE v.latched
                  /\ n.need = IF after = "latch" THEN {} ELSE v.need
  <1> DEFINE u == [v EXCEPT !.status = {}, !.loopKind = "NONE", !.kind = "NONE", !.module = NULL,
                            !.at = 0, !.ret = 0]
  <1>0. Len(Order) \in Nat /\ w.i \in 1..Len(Order)
    BY PipeFacts
  <1>1. /\ DOMAIN u = Fields /\ u.i = v.i /\ u.latched = v.latched /\ u.need = v.need
        /\ u.status = {} /\ u.loopKind = "NONE" /\ u.kind = "NONE"
        /\ u.module = NULL /\ u.ret = 0
    BY DEF Fields
  <1>2. NextPipe(v, again, after) =
          IF v.i < Len(Order) THEN [u EXCEPT !.i = @ + 1, !.pc = again]
          ELSE IF after = "latch"
               THEN [u EXCEPT !.i = 1, !.pc = after, !.latched = NoRequest, !.need = {}]
               ELSE [u EXCEPT !.i = 1, !.pc = after]
    BY DEF NextPipe
  <1> HIDE DEF u
  <1>3. CASE v.i < Len(Order)
    BY <1>0, <1>1, <1>2, <1>3 DEF Fields
  <1>4. CASE ~(v.i < Len(Order)) /\ after = "latch"
    BY <1>0, <1>1, <1>2, <1>4 DEF Fields
  <1>5. CASE ~(v.i < Len(Order)) /\ after # "latch"
    BY <1>0, <1>1, <1>2, <1>5 DEF Fields
  <1> QED
    BY <1>3, <1>4, <1>5

\* What the worker does not touch.
LEMMA CallsKept ==
  ASSUME UNCHANGED todo, CallsBacked
  PROVE  CallsBacked' /\ \A p, f : Has(todo, p, f)' <=> Has(todo, p, f)
  <1>1. CallsBacked <=> AllBacked(todo)
    BY DEF CallsBacked, AllBacked
  <1>2. CallsBacked' <=> AllBacked(todo')
    BY DEF CallsBacked, AllBacked
  <1>3. todo' = todo
    OBVIOUS
  <1>4. \A p, f : Has(todo, p, f)' <=> Has(todo, p, f)
    BY DEF Has
  <1> QED
    BY <1>1, <1>2, <1>3, <1>4

\* A pipe stays owed while nobody touches flags and calls.
LEMMA OwedKept ==
  ASSUME UNCHANGED <<changed, todo>>
  PROVE  \A p : Owed(p)' <=> Owed(p)
  BY DEF Owed, Has

\* A step inside the run of one pipe.
RunStep ==
    /\ w.pc \in RunStages /\ w'.pc \in RunStages
    /\ DOMAIN w' = Fields
    /\ w'.i = w.i /\ w'.need = w.need /\ w'.latched = w.latched /\ w'.status = w.status
    /\ UNCHANGED <<items, devHash, request, changed, pipe, todo>>

\* Inside a run only the frame, the switch and the request can be disturbed.
LEMMA RunStepKeeps ==
  ASSUME DInv, RunStep
  PROVE  /\ CallsBacked' /\ SyncedOK' /\ PlanOK' /\ RoiOK' /\ WorkerTypes'
         /\ P' = P /\ P \in Pipes
         /\ \A p : Owed(p)' <=> Owed(p)
         /\ \A p : Coming(p)' <=> Coming(p)
         /\ \A p : Frame(p)' = Frame(p)
  <1> USE DEF RunStep, RunStages, Fields
  <1>1. CallsBacked' /\ \A p, f : Has(todo, p, f)' <=> Has(todo, p, f)
    BY CallsKept DEF DInv
  <1>2. \A p : Owed(p)' <=> Owed(p)
    BY OwedKept
  <1>3. P' = P /\ P \in Pipes
    BY PipeFacts DEF DInv, P
  <1>4. WorkerTypes'
    BY DEF DInv, WorkerTypes, Stages
  <1>5. \A p : Coming(p)' <=> Coming(p)
    BY <1>3 DEF Coming
  <1>6. \A p : Frame(p)' = Frame(p)
    BY DEF Frame
  <1>7. \A p : ~Resyncing(p) /\ ~Resyncing(p)'
    BY DEF Resyncing
  <1>8. SyncedOK'
    BY <1>1 DEF DInv, SyncedOK
  <1>9. PlanOK'
    BY <1>7 DEF DInv, PlanOK
  <1>10. RoiOK'
    BY <1>2, <1>5, <1>7 DEF DInv, RoiOK
  <1> QED
    BY <1>1, <1>2, <1>3, <1>4, <1>5, <1>6, <1>8, <1>9, <1>10

\* The run of one pipe, up to its end.
LEMMA RunTypes ==
  ASSUME DInv, RunStep, UNCHANGED shutdown,
         slot' \in [Pipes -> [kind : Kinds, module : 0..Depth]],
         backbuf' = backbuf \/ backbuf' = [backbuf EXCEPT ![P] = Frame(P)]
  PROVE  SharedTypes' /\ Bounds'
  <1>1. P \in Pipes
    BY PipeFacts DEF DInv
  <1>2. Frame(P) \in [plan : Plans, hash : Int]
    BY <1>1 DEF DInv, SharedTypes, Frame
  <1>3. backbuf' \in [Pipes -> [plan : Plans, hash : Int]]
    BY <1>1, <1>2 DEF DInv, SharedTypes
  <1>4. SharedTypes'
    BY <1>3 DEF DInv, SharedTypes, RunStep
  <1>5. ASSUME NEW p \in Pipes PROVE backbuf'[p].hash <= pipe[p].hash
    <2>1. CASE backbuf'[p] = backbuf[p]
      BY <2>1 DEF DInv, Bounds
    <2>2. CASE backbuf'[p] = Frame(p)
      BY <2>2 DEF DInv, SharedTypes, Frame
    <2> QED
      BY <1>1, <2>1, <2>2 DEF DInv, SharedTypes
  <1>6. Bounds'
    BY <1>5 DEF DInv, Bounds, RunStep, RunStages
  <1> QED
    BY <1>4, <1>6

\* A step that leaves the frames alone and the run going.
LEMMA QuietRun ==
  ASSUME DInv, RunStep, UNCHANGED backbuf, InRun(P)', Excused \ {P} \subseteq Excused'
  PROVE  FrameOK'
  <1> USE RunStepKeeps
  <1>1. ASSUME NEW p \in Pipes
        PROVE  (backbuf[p] = Frame(p) \/ Owed(p) \/ p \in Excused \/ Coming(p) \/ InRun(p))'
    <2>1. backbuf[p] = Frame(p) \/ Owed(p) \/ p \in Excused \/ Coming(p) \/ InRun(p)
      BY DEF DInv, FrameOK
    <2>2. InRun(p) => p = P
      BY DEF InRun
    <2> QED
      BY <2>1, <2>2 DEF RunStep
  <1> QED
    BY <1>1 DEF FrameOK

\* The switch is off from here on.
LEMMA ResetKeeps == DInv /\ Reset => DInv'
  <1> SUFFICES ASSUME DInv, Reset PROVE DInv'
    OBVIOUS
  <1>0. w' = [w EXCEPT !.pc = "loopKind"] /\ w.pc = "reset" /\ DOMAIN w = Fields
    BY DEF Reset, Goto, WorkerAt, DInv, WorkerTypes, Fields
  <1>1. RunStep /\ w'.pc = "loopKind"
    BY <1>0 DEF RunStep, RunStages, Fields, Stages, Reset, devVars, guiVars, ghosts
  <1> USE <1>1, RunStepKeeps
  <1>2. InRun(P)' /\ UNCHANGED backbuf /\ Excused \ {P} \subseteq Excused'
    BY DEF InRun, Reset, Excused
  <1>3. FrameOK'
    BY <1>2, QuietRun
  <1>4. shutdown'[P] = FALSE /\ shutdown' \in [Pipes -> BOOLEAN]
    BY DEF Reset, DInv, SharedTypes
  <1>5. SharedTypes'
    BY <1>4 DEF Reset, RunStep, DInv, SharedTypes
  <1>6. Bounds'
    BY <1>2 DEF RunStep, RunStages, DInv, Bounds
  <1>7. SwitchOK' /\ RequestOK' /\ StopOK'
    BY <1>4 DEF SwitchOK, RequestOK, StopOK
  <1> QED
    BY <1>3, <1>5, <1>6, <1>7 DEF DInv

\* The worker reads the request twice, and clears it.
LEMMA LoopKindKeeps == DInv /\ LoopKind => DInv'
  <1> SUFFICES ASSUME DInv, LoopKind PROVE DInv'
    OBVIOUS
  <1>0. /\ w' = [w EXCEPT !.pc = "getKind", !.loopKind = slot[P].kind] /\ w.pc = "loopKind"
        /\ DOMAIN w = Fields
    BY DEF LoopKind, WorkerAt, DInv, WorkerTypes, Fields
  <1>1. RunStep /\ w'.pc = "getKind" /\ w'.loopKind = slot[P].kind
    BY <1>0 DEF RunStep, RunStages, Fields, Stages, LoopKind, devVars, guiVars, ghosts
  <1> USE <1>1, RunStepKeeps
  <1>2. InRun(P)' /\ UNCHANGED <<backbuf, slot, shutdown, Excused>>
    BY DEF InRun, LoopKind, ghosts, Excused
  <1>3. FrameOK'
    BY <1>2, QuietRun
  <1>4. SharedTypes' /\ Bounds'
    BY <1>2, RunTypes DEF DInv, SharedTypes
  <1>5. SwitchOK'
    BY <1>0, <1>2 DEF DInv, SwitchOK, RunStep
  <1>6. RequestOK' /\ StopOK'
    BY <1>2 DEF RequestOK, StopOK
  <1> QED
    BY <1>3, <1>4, <1>5, <1>6 DEF DInv

\* The second read may find another request, whose flag is then raised or to come.
LEMMA GetKindKeeps == DInv /\ GetKind => DInv'
  <1> SUFFICES ASSUME DInv, GetKind PROVE DInv'
    OBVIOUS
  <1>0. /\ w' = [w EXCEPT !.pc = "getModule", !.kind = slot[P].kind] /\ w.pc = "getKind"
        /\ DOMAIN w = Fields
    BY DEF GetKind, WorkerAt, DInv, WorkerTypes, Fields
  <1>1. RunStep /\ w'.pc = "getModule" /\ w'.kind = slot[P].kind /\ w'.loopKind = w.loopKind
    BY <1>0 DEF RunStep, RunStages, Fields, Stages, GetKind, devVars, guiVars, ghosts
  <1> USE <1>1, RunStepKeeps
  <1>2. InRun(P)' /\ UNCHANGED <<backbuf, slot, shutdown, Excused>>
    BY DEF InRun, GetKind, ghosts, Excused
  <1>3. FrameOK'
    BY <1>2, QuietRun
  <1>4. SharedTypes' /\ Bounds'
    BY <1>2, RunTypes DEF DInv, SharedTypes
  <1>5. SwitchOK'
    BY <1>0, <1>2 DEF DInv, SwitchOK, RunStep
  <1>6. RequestOK' /\ StopOK'
    BY <1>0, <1>2 DEF DInv, RequestOK, StopOK
  <1> QED
    BY <1>3, <1>4, <1>5, <1>6 DEF DInv

\* The other half of the request.
LEMMA GetModuleKeeps == DInv /\ GetModule => DInv'
  <1> SUFFICES ASSUME DInv, GetModule PROVE DInv'
    OBVIOUS
  <1>0. /\ w' = [w EXCEPT !.pc = "clearKind", !.module = slot[P].module] /\ w.pc = "getModule"
        /\ DOMAIN w = Fields
    BY DEF GetModule, WorkerAt, DInv, WorkerTypes, Fields
  <1>1. RunStep /\ w'.pc = "clearKind" /\ w'.kind = w.kind /\ w'.loopKind = w.loopKind
    BY <1>0 DEF RunStep, RunStages, Fields, Stages, GetModule, devVars, guiVars, ghosts
  <1> USE <1>1, RunStepKeeps
  <1>2. InRun(P)' /\ UNCHANGED <<backbuf, slot, shutdown, Excused>>
    BY DEF InRun, GetModule, ghosts, Excused
  <1>3. FrameOK'
    BY <1>2, QuietRun
  <1>4. SharedTypes' /\ Bounds'
    BY <1>2, RunTypes DEF DInv, SharedTypes
  <1>5. SwitchOK'
    BY <1>0, <1>2 DEF DInv, SwitchOK, RunStep
  <1>6. RequestOK' /\ StopOK'
    BY <1>0, <1>2 DEF DInv, RequestOK, StopOK
  <1> QED
    BY <1>3, <1>4, <1>5, <1>6 DEF DInv

\* The slot is cleared.
LEMMA ClearKeeps == DInv /\ (ClearKind \/ ClearModule) => DInv'
  <1> SUFFICES ASSUME DInv, ClearKind \/ ClearModule PROVE DInv'
    OBVIOUS
  <1>0. /\ w' = [w EXCEPT !.pc = IF w.pc = "clearKind" THEN "clearModule" ELSE "exact"]
        /\ w.pc \in {"clearKind", "clearModule"} /\ DOMAIN w = Fields
    BY DEF ClearKind, ClearModule, Goto, WorkerAt, DInv, WorkerTypes, Fields
  <1>1. /\ RunStep /\ w'.pc \in {"clearModule", "exact"}
        /\ w'.kind = w.kind /\ w'.loopKind = w.loopKind
    BY <1>0 DEF RunStep, RunStages, Fields, Stages, ClearKind, ClearModule, devVars, guiVars, ghosts
  <1> USE <1>1, RunStepKeeps
  <1>2. InRun(P)' /\ UNCHANGED <<backbuf, shutdown, Excused>>
    BY DEF InRun, ClearKind, ClearModule, ghosts, Excused
  <1>3. FrameOK'
    BY <1>2, QuietRun
  <1>4. slot' \in [Pipes -> [kind : Kinds, module : 0..Depth]]
    <2>1. slot' = [slot EXCEPT ![P].kind = "NONE"] \/ slot' = [slot EXCEPT ![P].module = 0]
      BY DEF ClearKind, ClearModule, NULL
    <2>2. slot \in [Pipes -> [kind : Kinds, module : 0..Depth]] /\ 0 \in 0..Depth
      BY DarkroomAssumption DEF DInv, SharedTypes
    <2> QED
      BY <2>1, <2>2 DEF Kinds
  <1>5. SharedTypes' /\ Bounds'
    BY <1>2, <1>4, RunTypes
  <1>6. SwitchOK'
    BY <1>0, <1>2 DEF DInv, SwitchOK, RunStep
  <1>7. RequestOK' /\ StopOK'
    BY <1>0, <1>2 DEF DInv, RequestOK, StopOK
  <1> QED
    BY <1>3, <1>5, <1>6, <1>7 DEF DInv

\* The run has come to its end: the frame is the pipe's, or somebody will see to it.
LEMMA EndOfRun ==
  ASSUME DInv, RunStep, w'.pc \in {"finish", "processed"}, w'.loopKind = w.loopKind,
         Excused \subseteq Excused',
         backbuf' = backbuf \/ backbuf' = [backbuf EXCEPT ![P] = Frame(P)],
         backbuf'[P] = Frame(P) \/ Owed(P) \/ P \in Excused' \/ w.loopKind = "MODULE"
  PROVE  FrameOK'
  <1> USE RunStepKeeps
  <1>1. ASSUME NEW p \in Pipes
        PROVE  (backbuf[p] = Frame(p) \/ Owed(p) \/ p \in Excused \/ Coming(p) \/ InRun(p))'
    <2>1. CASE p = P
      <3>1. w.loopKind = "MODULE" => InRun(P)'
        BY DEF InRun
      <3> QED
        BY <2>1, <3>1 DEF RunStep
    <2>2. CASE p # P
      <3>1. backbuf'[p] = backbuf[p] /\ ~InRun(p)
        BY <2>2 DEF DInv, SharedTypes, InRun
      <3>2. backbuf[p] = Frame(p) \/ Owed(p) \/ p \in Excused \/ Coming(p)
        BY <3>1 DEF DInv, FrameOK
      <3> QED
        BY <3>1, <3>2 DEF RunStep
    <2> QED
      BY <2>1, <2>2
  <1> QED
    BY <1>1 DEF FrameOK

\* A hit ends the run; a miss begins the recursion.
LEMMA ExactKeeps == DInv /\ Exact => DInv'
  <1> SUFFICES ASSUME DInv, Exact PROVE DInv'
    OBVIOUS
  <1>0. w.pc = "exact" /\ DOMAIN w = Fields /\ UNCHANGED <<slot, shutdown>>
        /\ UNCHANGED <<items, devHash, request, changed, pipe, todo, Excused>>
    BY DEF Exact, WorkerAt, DInv, WorkerTypes, Fields, devVars, guiVars, ghosts, Excused
  <1>1. CASE GlobalHash(P, Target) \in lines
    <2>1. /\ w' = [w EXCEPT !.pc = "finish", !.ret = 0]
          /\ backbuf' = IF Target = Depth THEN [backbuf EXCEPT ![P] = Frame(P)] ELSE backbuf
      BY <1>1 DEF Exact
    <2>2. RunStep /\ w'.pc = "finish" /\ w'.ret = 0 /\ w'.loopKind = w.loopKind
      BY <1>0, <2>1 DEF RunStep, RunStages, Fields, Stages
    <2> USE <2>2, RunStepKeeps
    <2>3. backbuf'[P] = Frame(P) \/ Owed(P) \/ w.loopKind = "MODULE"
      <3>1. CASE Target = Depth
        BY <2>1, <3>1 DEF DInv, SharedTypes
      <3>2. CASE Target # Depth
        BY <1>0, <3>2 DEF Target, DInv, RequestOK
      <3> QED
        BY <3>1, <3>2
    <2>4. FrameOK'
      BY <1>0, <2>1, <2>3, EndOfRun
    <2>5. SharedTypes' /\ Bounds'
      BY <1>0, <2>1, RunTypes DEF DInv, SharedTypes
    <2>6. SwitchOK'
      BY <1>0 DEF DInv, SwitchOK, RunStep
    <2>7. RequestOK' /\ StopOK'
      BY DEF RequestOK, StopOK
    <2> QED
      BY <2>4, <2>5, <2>6, <2>7 DEF DInv
  <1>2. CASE GlobalHash(P, Target) \notin lines
    <2>1. PICK k : w' = [w EXCEPT !.pc = "module", !.at = k]
      BY <1>2 DEF Exact
    <2>2. UNCHANGED backbuf
      BY <1>2 DEF Exact
    <2>3. RunStep /\ w'.pc = "module" /\ w'.kind = w.kind /\ w'.loopKind = w.loopKind
      BY <1>0, <2>1 DEF RunStep, RunStages, Fields, Stages
    <2> USE <2>3, RunStepKeeps
    <2>4. InRun(P)'
      BY DEF InRun
    <2>5. FrameOK'
      BY <1>0, <2>2, <2>4, QuietRun
    <2>6. SharedTypes' /\ Bounds'
      BY <1>0, <2>2, RunTypes DEF DInv, SharedTypes
    <2>7. SwitchOK'
      BY <1>0 DEF DInv, SwitchOK, RunStep
    <2>8. RequestOK' /\ StopOK'
      BY <1>0 DEF DInv, RequestOK, StopOK
    <2> QED
      BY <2>5, <2>6, <2>7, <2>8 DEF DInv
  <1> QED
    BY <1>1, <1>2

\* A run that ends before its target leaves the pipe flagged, late or failed.
LEMMA AbortKeeps ==
  ASSUME DInv, Abort, w.pc \in {"module", "kept"}, DOMAIN w = Fields,
         UNCHANGED <<slot, shutdown, backbuf, items, devHash, request, changed, pipe, todo>>,
         Excused \subseteq Excused', Owed(P) \/ P \in Excused'
  PROVE  DInv'
  <1>1. w' = [w EXCEPT !.pc = "finish", !.ret = 1]
    BY DEF Abort
  <1>2. RunStep /\ w'.pc = "finish" /\ w'.loopKind = w.loopKind
    BY <1>1 DEF RunStep, RunStages, Fields, Stages
  <1> USE <1>2, RunStepKeeps
  <1>3. FrameOK'
    BY EndOfRun
  <1>4. SharedTypes' /\ Bounds'
    BY RunTypes DEF DInv, SharedTypes
  <1>5. SwitchOK' /\ RequestOK' /\ StopOK'
    BY DEF SwitchOK, RequestOK, StopOK
  <1> QED
    BY <1>3, <1>4, <1>5 DEF DInv

\* A run that goes on to another stage.
LEMMA GoOnKeeps ==
  ASSUME DInv, w.pc \in {"module", "kept"}, DOMAIN w = Fields,
         NEW k, NEW s \in {"module", "kept", "publish"}, w' = [w EXCEPT !.at = k, !.pc = s],
         UNCHANGED <<slot, shutdown, backbuf, items, devHash, request, changed, pipe, todo, Excused>>
  PROVE  DInv'
  <1>1. /\ RunStep /\ w'.pc \in {"module", "kept", "publish"}
        /\ w'.kind = w.kind /\ w'.loopKind = w.loopKind
    BY DEF RunStep, RunStages, Fields, Stages
  <1> USE <1>1, RunStepKeeps
  <1>2. InRun(P)'
    BY DEF InRun
  <1>3. FrameOK'
    BY <1>2, QuietRun
  <1>4. SharedTypes' /\ Bounds'
    BY RunTypes DEF DInv, SharedTypes
  <1>5. SwitchOK'
    BY DEF DInv, SwitchOK, RunStep
  <1>6. RequestOK' /\ StopOK'
    BY DEF DInv, RequestOK, StopOK
  <1> QED
    BY <1>3, <1>4, <1>5, <1>6 DEF DInv

\* A module is run, or fails, or the switch ends the run.
LEMMA ModuleKeeps == DInv /\ Module => DInv'
  <1> SUFFICES ASSUME DInv, Module PROVE DInv'
    OBVIOUS
  <1>0. w.pc = "module" /\ DOMAIN w = Fields
        /\ UNCHANGED <<slot, shutdown, backbuf, items, devHash, request, changed, pipe, todo, late>>
    BY DEF Module, WorkerAt, DInv, WorkerTypes, Fields, devVars, guiVars
  <1>1. CASE shutdown[P] /\ Abort /\ UNCHANGED failed
    <2>1. Owed(P) \/ P \in Excused
      BY <1>0, <1>1 DEF DInv, SwitchOK
    <2>2. Excused' = Excused
      BY <1>0, <1>1 DEF Excused
    <2> QED
      BY <1>0, <1>1, <2>1, <2>2, AbortKeeps
  <1>2. CASE Abort /\ failed' = failed \cup {P}
    <2>1. Excused \subseteq Excused' /\ P \in Excused'
      BY <1>0, <1>2 DEF Excused
    <2> QED
      BY <1>0, <1>2, <2>1, AbortKeeps
  <1>3. CASE w' = [w EXCEPT !.at = @ + 1, !.pc = "kept"] /\ UNCHANGED failed
    <2>1. Excused' = Excused
      BY <1>0, <1>3 DEF Excused
    <2>2. PICK k : w' = [w EXCEPT !.at = k, !.pc = "kept"]
      BY <1>3
    <2> QED
      BY <1>0, <2>1, <2>2, GoOnKeeps
  <1> QED
    BY <1>1, <1>2, <1>3 DEF Module

\* The output stays and the run goes on, or the switch ends it.
LEMMA KeptKeeps == DInv /\ Kept => DInv'
  <1> SUFFICES ASSUME DInv, Kept PROVE DInv'
    OBVIOUS
  <1>0. w.pc = "kept" /\ DOMAIN w = Fields
        /\ UNCHANGED <<slot, shutdown, backbuf, items, devHash, request, changed, pipe, todo, Excused>>
    BY DEF Kept, WorkerAt, DInv, WorkerTypes, Fields, devVars, guiVars, Excused
  <1>1. CASE shutdown[P]
    <2>1. Owed(P) \/ P \in Excused
      BY <1>0, <1>1 DEF DInv, SwitchOK
    <2>2. Abort
      BY <1>1 DEF Kept
    <2> QED
      BY <1>0, <2>1, <2>2, AbortKeeps
  <1>2. CASE ~shutdown[P]
    <2>1. PICK s \in {"publish", "module"} : w' = [w EXCEPT !.pc = s]
      BY <1>2 DEF Kept, Goto
    <2>2. w' = [w EXCEPT !.at = w.at, !.pc = s]
      BY <1>0, <2>1 DEF Fields
    <2> QED
      BY <1>0, <2>2, GoOnKeeps
  <1> QED
    BY <1>1, <1>2

\* The frame is published unless the switch is set or a module was asked for.
LEMMA PublishKeeps == DInv /\ Publish => DInv'
  <1> SUFFICES ASSUME DInv, Publish PROVE DInv'
    OBVIOUS
  <1>0. w.pc = "publish" /\ DOMAIN w = Fields /\ UNCHANGED <<slot, shutdown>>
        /\ UNCHANGED <<items, devHash, request, changed, pipe, todo, Excused>>
    BY DEF Publish, WorkerAt, DInv, WorkerTypes, Fields, devVars, guiVars, ghosts, Excused
  <1>1. /\ w' = [w EXCEPT !.pc = "finish", !.ret = 0]
        /\ backbuf' = IF ~shutdown[P] /\ Target = Depth THEN [backbuf EXCEPT ![P] = Frame(P)]
                      ELSE backbuf
    BY DEF Publish
  <1>2. RunStep /\ w'.pc = "finish" /\ w'.ret = 0 /\ w'.loopKind = w.loopKind
    BY <1>0, <1>1 DEF RunStep, RunStages, Fields, Stages
  <1> USE <1>2, RunStepKeeps
  <1>3. backbuf'[P] = Frame(P) \/ Owed(P) \/ P \in Excused \/ w.loopKind = "MODULE"
    <2>1. CASE shutdown[P]
      BY <1>0, <2>1 DEF DInv, SwitchOK
    <2>2. CASE Target # Depth
      BY <1>0, <2>2 DEF Target, DInv, RequestOK
    <2>3. CASE ~shutdown[P] /\ Target = Depth
      BY <1>1, <2>3 DEF DInv, SharedTypes
    <2> QED
      BY <2>1, <2>2, <2>3
  <1>4. FrameOK'
    BY <1>0, <1>1, <1>3, EndOfRun
  <1>5. SharedTypes' /\ Bounds'
    BY <1>0, <1>1, RunTypes DEF DInv, SharedTypes
  <1>6. SwitchOK'
    BY <1>0 DEF DInv, SwitchOK, RunStep
  <1>7. RequestOK' /\ StopOK'
    BY DEF RequestOK, StopOK
  <1> QED
    BY <1>4, <1>5, <1>6, <1>7 DEF DInv

\* The continuation of a run that served a module request.
LEMMA ContinueKeeps == DInv /\ (TestSlot \/ StoreModule \/ StoreKind) => DInv'
  <1> SUFFICES ASSUME DInv, TestSlot \/ StoreModule \/ StoreKind PROVE DInv'
    OBVIOUS
  <1>0. /\ w.pc \in {"testSlot", "storeModule", "storeKind"} /\ DOMAIN w = Fields
        /\ UNCHANGED <<shutdown, backbuf>>
        /\ UNCHANGED <<items, devHash, request, changed, pipe, todo, Excused>>
    BY DEF TestSlot, StoreModule, StoreKind, WorkerAt, DInv, WorkerTypes, Fields, devVars,
           guiVars, ghosts, Excused
  <1>1. PICK s \in {"storeModule", "storeKind", "flag"} : w' = [w EXCEPT !.pc = s]
    BY DEF TestSlot, StoreModule, StoreKind, Goto
  <1>2. RunStep /\ w'.pc \in {"storeModule", "storeKind", "flag"}
    BY <1>0, <1>1 DEF RunStep, RunStages, Fields, Stages
  <1> USE <1>2, RunStepKeeps
  <1>3. InRun(P)'
    BY DEF InRun
  <1>4. FrameOK'
    BY <1>0, <1>3, QuietRun
  <1>5. slot' \in [Pipes -> [kind : Kinds, module : 0..Depth]]
    <2>1. slot' = slot \/ slot' = [slot EXCEPT ![P].kind = "BACKBUF"]
                       \/ slot' = [slot EXCEPT ![P].module = 0]
      BY DEF TestSlot, StoreModule, StoreKind, NULL
    <2>2. slot \in [Pipes -> [kind : Kinds, module : 0..Depth]] /\ 0 \in 0..Depth
      BY DarkroomAssumption DEF DInv, SharedTypes
    <2> QED
      BY <2>1, <2>2 DEF Kinds
  <1>6. SharedTypes' /\ Bounds'
    BY <1>0, <1>5, RunTypes
  <1>7. SwitchOK' /\ RequestOK' /\ StopOK'
    BY DEF SwitchOK, RequestOK, StopOK
  <1> QED
    BY <1>4, <1>6, <1>7 DEF DInv

\* The worker leaves a pipe.
LeaveStep ==
    /\ w.pc \in RunStages \cup {"stale"} /\ w' = NextPipe(w, "stale", "latch")
    /\ UNCHANGED <<items, devHash, request, pipe, backbuf, slot, shutdown, todo, Excused>>
    /\ changed' \in [Pipes -> SUBSET Flags] /\ \A p \in Pipes : changed[p] \subseteq changed'[p]

\* It does so with the frame in place, or with the pipe flagged.
LEMMA LeaveKeeps ==
  ASSUME DInv, LeaveStep, NEW q, q = P,
         InRun(q) => backbuf[q] = Frame(q) \/ Owed(q)' \/ q \in Excused,
         w.pc = "stale" /\ q \in w.need => Owed(q)'
  PROVE  DInv'
  <1>0. Len(Order) \in Nat /\ w.i \in 1..Len(Order) /\ P \in Pipes
    BY PipeFacts DEF DInv
  <1>1. /\ DOMAIN w' = Fields /\ w'.i \in 1..Len(Order) /\ w'.status = {}
        /\ w.i < Len(Order) => /\ w'.i = w.i + 1 /\ w'.pc = "stale"
                               /\ w'.latched = w.latched /\ w'.need = w.need
        /\ ~(w.i < Len(Order)) => /\ w'.i = 1 /\ w'.pc = "latch"
                                  /\ w'.latched = NoRequest /\ w'.need = {}
    <2>1. DOMAIN w = Fields /\ WorkerTypes
      BY DEF DInv, WorkerTypes, Fields
    <2> HIDE DEF Fields
    <2> QED
      BY <2>1, NextPipeFacts DEF LeaveStep
  <1>2. CallsBacked' /\ \A p, f : Has(todo, p, f)' <=> Has(todo, p, f)
    BY CallsKept DEF DInv, LeaveStep
  <1>3. \A p \in Pipes : Owed(p) => Owed(p)'
    BY <1>2 DEF Owed, LeaveStep
  <1>4. SharedTypes'
    BY DEF DInv, SharedTypes, LeaveStep
  <1>5. WorkerTypes'
    <2>1. NoRequest \in Records
      BY DEF NoRequest, Records
    <2> QED
      BY <1>1, <2>1 DEF DInv, WorkerTypes, Stages, Fields
  <1>6. Bounds'
    <2>1. NoRequest.gen = -1 /\ request.gen \in Nat
      BY DEF NoRequest, DInv, SharedTypes
    <2>2. w'.latched.gen <= request.gen /\ (w'.latched.gen = request.gen => w'.latched = request)
      BY <1>1, <2>1 DEF DInv, Bounds
    <2>3. w'.pc \notin {"sync", "plan"}
      BY <1>1
    <2> QED
      BY <2>2, <2>3 DEF DInv, Bounds, LeaveStep
  <1>7. ASSUME NEW p \in Pipes, Coming(p) PROVE Coming(p)' \/ Owed(p)'
    <2>1. p \in w.need /\ ((w.pc = "stale" /\ P = p) \/ (\E j \in (w.i + 1)..Len(Order) : Order[j] = p))
      BY <1>7 DEF Coming, LeaveStep, RunStages
    <2>2. CASE w.pc = "stale" /\ P = p
      BY <2>1, <2>2
    <2>3. CASE \E j \in (w.i + 1)..Len(Order) : Order[j] = p
      <3>1. PICK j \in (w.i + 1)..Len(Order) : Order[j] = p
        BY <2>3
      <3>2. w'.i = w.i + 1 /\ w'.pc = "stale" /\ w'.need = w.need /\ w'.latched = w.latched
        BY <1>0, <1>1
      <3>3. CASE j = w.i + 1
        <4>1. P' = p
          BY <3>1, <3>2, <3>3 DEF P
        <4> QED
          BY <2>1, <3>2, <4>1 DEF Coming
      <3>4. CASE j # w.i + 1
        <4>1. j \in (w'.i + 1)..Len(Order)
          BY <1>0, <3>2, <3>4
        <4> QED
          BY <2>1, <3>1, <3>2, <4>1 DEF Coming
      <3> QED
        BY <3>3, <3>4
    <2> QED
      BY <2>1, <2>2, <2>3
  <1>8. ASSUME NEW p \in Pipes, Coming(p)' PROVE w'.latched = w.latched
    BY <1>1, <1>8 DEF Coming
  <1>9. \A p : ~Resyncing(p) /\ ~Resyncing(p)'
    BY <1>1 DEF Resyncing, LeaveStep, RunStages
  <1>10. SyncedOK'
    <2>1. w.pc # "sync"
      BY DEF LeaveStep, RunStages
    <2> QED
      BY <1>2, <2>1 DEF DInv, SyncedOK, LeaveStep
  <1>11. PlanOK'
    BY <1>9 DEF DInv, PlanOK, LeaveStep
  <1>12. RoiOK'
    BY <1>3, <1>7, <1>8, <1>9 DEF DInv, RoiOK, LeaveStep
  <1>13. ASSUME NEW p \in Pipes
         PROVE  (backbuf[p] = Frame(p) \/ Owed(p) \/ p \in Excused \/ Coming(p) \/ InRun(p))'
    <2>1. backbuf[p] = Frame(p) \/ Owed(p) \/ p \in Excused \/ Coming(p) \/ InRun(p)
      BY DEF DInv, FrameOK
    <2>2. Frame(p)' = Frame(p) /\ UNCHANGED <<backbuf, Excused>>
      BY DEF Frame, LeaveStep
    <2>3. InRun(p) => p = q
      BY DEF InRun
    <2> QED
      BY <1>3, <1>7, <2>1, <2>2, <2>3
  <1>14. FrameOK'
    BY <1>13 DEF FrameOK
  <1>15. SwitchOK' /\ RequestOK' /\ StopOK'
    BY <1>1 DEF SwitchOK, RequestOK, StopOK
  <1> QED
    BY <1>2, <1>4, <1>5, <1>6, <1>10, <1>11, <1>12, <1>14, <1>15 DEF DInv

\* A killed run leaves the pipe; another one goes on.
LEMMA FinishKeeps == DInv /\ Finish => DInv'
  <1> SUFFICES ASSUME DInv, Finish PROVE DInv'
    OBVIOUS
  <1>0. /\ w.pc = "finish" /\ DOMAIN w = Fields /\ UNCHANGED <<slot, shutdown, backbuf>>
        /\ UNCHANGED <<items, devHash, request, changed, pipe, todo, Excused>>
    BY DEF Finish, WorkerAt, DInv, WorkerTypes, Fields, devVars, guiVars, ghosts, Excused
  <1>1. P \in Pipes
    BY PipeFacts DEF DInv
  <1>2. \A p : Owed(p)' <=> Owed(p)
    BY <1>0, OwedKept
  <1>3. CASE w.ret = 0 /\ ~shutdown[P]
    <2>1. w' = [w EXCEPT !.pc = "processed"]
      BY <1>3 DEF Finish
    <2>2. RunStep /\ w'.pc = "processed" /\ w'.loopKind = w.loopKind
      BY <1>0, <2>1 DEF RunStep, RunStages, Fields, Stages
    <2> USE <2>2, RunStepKeeps
    <2>3. FrameOK'
      <3>1. ASSUME NEW p \in Pipes
            PROVE  (backbuf[p] = Frame(p) \/ Owed(p) \/ p \in Excused \/ Coming(p) \/ InRun(p))'
        <4>1. backbuf[p] = Frame(p) \/ Owed(p) \/ p \in Excused \/ Coming(p) \/ InRun(p)
          BY DEF DInv, FrameOK
        <4>2. InRun(p) => InRun(p)'
          BY <1>0 DEF InRun
        <4> QED
          BY <1>0, <4>1, <4>2
      <3> QED
        BY <3>1 DEF FrameOK
    <2>4. SharedTypes' /\ Bounds'
      BY <1>0, RunTypes DEF DInv, SharedTypes
    <2>5. SwitchOK' /\ RequestOK' /\ StopOK'
      BY DEF SwitchOK, RequestOK, StopOK
    <2> QED
      BY <2>3, <2>4, <2>5 DEF DInv
  <1>4. CASE ~(w.ret = 0 /\ ~shutdown[P])
    <2>1. w' = NextPipe(w, "stale", "latch")
      BY <1>4 DEF Finish
    <2>2. Owed(P) \/ P \in Excused
      BY <1>0, <1>4 DEF DInv, SwitchOK, StopOK
    <2>3. LeaveStep
      BY <1>0, <2>1 DEF LeaveStep, RunStages, Stages, DInv, SharedTypes
    <2>4. PICK q : q = P
      OBVIOUS
    <2> QED
      BY <1>0, <1>2, <2>2, <2>3, <2>4, LeaveKeeps
  <1> QED
    BY <1>3, <1>4

\* A run that left the frame behind for a module is continued.
LEMMA ProcessedKeeps == DInv /\ Processed => DInv'
  <1> SUFFICES ASSUME DInv, Processed PROVE DInv'
    OBVIOUS
  <1>0. /\ w.pc = "processed" /\ DOMAIN w = Fields /\ UNCHANGED <<slot, shutdown, backbuf>>
        /\ UNCHANGED <<items, devHash, request, changed, pipe, todo, Excused>>
    BY DEF Processed, WorkerAt, DInv, WorkerTypes, Fields, devVars, ghosts, Excused
  <1>1. P \in Pipes
    BY PipeFacts DEF DInv
  <1>2. \A p : Owed(p)' <=> Owed(p)
    BY <1>0, OwedKept
  <1>3. CASE w.loopKind = "MODULE" /\ ~BackbufValid(P)
    <2>1. w' = [w EXCEPT !.pc = "testSlot"]
      BY <1>3 DEF Processed
    <2>2. RunStep /\ w'.pc = "testSlot"
      BY <1>0, <2>1 DEF RunStep, RunStages, Fields, Stages
    <2> USE <2>2, RunStepKeeps
    <2>3. InRun(P)'
      BY DEF InRun
    <2>4. FrameOK'
      BY <1>0, <2>3, QuietRun
    <2>5. SharedTypes' /\ Bounds'
      BY <1>0, RunTypes DEF DInv, SharedTypes
    <2>6. SwitchOK' /\ RequestOK' /\ StopOK'
      BY DEF SwitchOK, RequestOK, StopOK
    <2> QED
      BY <2>4, <2>5, <2>6 DEF DInv
  <1>4. CASE ~(w.loopKind = "MODULE" /\ ~BackbufValid(P))
    <2>1. w' = NextPipe(w, "stale", "latch")
      BY <1>4 DEF Processed
    <2>2. LeaveStep
      BY <1>0, <2>1 DEF LeaveStep, RunStages, Stages, DInv, SharedTypes
    <2>3. CASE BackbufValid(P)
      <3>1. backbuf[P].plan = pipe[P].plan /\ backbuf[P].hash = devHash
        BY <2>3 DEF BackbufValid
      <3>2. /\ backbuf[P].hash \in Int /\ pipe[P].hash \in Int /\ devHash \in Int
            /\ backbuf[P].hash <= pipe[P].hash /\ pipe[P].hash <= devHash
        BY <1>1 DEF DInv, SharedTypes, Bounds
      <3>3. backbuf[P].hash = pipe[P].hash
        BY <3>1, <3>2
      <3>4. backbuf[P] \in [plan : Plans, hash : Int]
        BY <1>1 DEF DInv, SharedTypes
      <3>5. backbuf[P] = Frame(P)
        BY <3>1, <3>3, <3>4 DEF Frame
      <3>6. PICK q : q = P
        OBVIOUS
      <3> QED
        BY <1>0, <2>2, <3>5, <3>6, LeaveKeeps
    <2>4. CASE w.loopKind # "MODULE"
      <3>1. PICK q : q = P
        OBVIOUS
      <3>2. ~InRun(q)
        BY <1>0, <2>4 DEF InRun
      <3> QED
        BY <1>0, <2>2, <3>1, <3>2, LeaveKeeps
    <2> QED
      BY <1>4, <2>3, <2>4
  <1> QED
    BY <1>3, <1>4

\* The continuation is flagged.
LEMMA FlagKeeps == DInv /\ FlagContinuation => DInv'
  <1> SUFFICES ASSUME DInv, FlagContinuation PROVE DInv'
    OBVIOUS
  <1>0. /\ w.pc = "flag" /\ DOMAIN w = Fields /\ UNCHANGED <<slot, shutdown, backbuf>>
        /\ UNCHANGED <<items, devHash, request, pipe, todo, Excused>>
        /\ w' = NextPipe(w, "stale", "latch")
        /\ changed' = [changed EXCEPT ![P] = @ \cup {"CACHE_REQUEST"}]
    BY DEF FlagContinuation, WorkerAt, DInv, WorkerTypes, Fields, devVars, guiVars, ghosts, Excused
  <1>1. P \in Pipes
    BY PipeFacts DEF DInv
  <1>2. /\ changed' \in [Pipes -> SUBSET Flags] /\ \A p \in Pipes : changed[p] \subseteq changed'[p]
        /\ changed'[P] # {}
    BY <1>0, <1>1 DEF DInv, SharedTypes, Flags
  <1>3. PICK q : q = P
    OBVIOUS
  <1>4. Owed(q)'
    BY <1>2, <1>3 DEF Owed
  <1>5. LeaveStep
    BY <1>0, <1>2 DEF LeaveStep, RunStages, Stages
  <1> QED
    BY <1>0, <1>3, <1>4, <1>5, LeaveKeeps

\* A plan made from a record that is no longer current is flagged and not run.
LEMMA StaleKeeps == DInv /\ Stale => DInv'
  <1> SUFFICES ASSUME DInv, Stale PROVE DInv'
    OBVIOUS
  <1>0. /\ w.pc = "stale" /\ DOMAIN w = Fields /\ UNCHANGED <<slot, shutdown, backbuf>>
        /\ UNCHANGED <<items, devHash, request, pipe, todo, Excused>>
    BY DEF Stale, WorkerAt, DInv, WorkerTypes, Fields, devVars, guiVars, ghosts, Excused
  <1>1. P \in Pipes
    BY PipeFacts DEF DInv
  <1>2. PICK q : q = P
    OBVIOUS
  <1>3. CASE P \in w.need /\ request.gen # w.latched.gen
    <2>1. /\ changed' = [changed EXCEPT ![P] = @ \cup {"ZOOMED"}]
          /\ w' = NextPipe(w, "stale", "latch")
      BY <1>3 DEF Stale
    <2>2. /\ changed' \in [Pipes -> SUBSET Flags] /\ changed'[P] # {}
          /\ \A p \in Pipes : changed[p] \subseteq changed'[p]
      BY <1>1, <2>1 DEF DInv, SharedTypes, Flags
    <2>3. Owed(q)'
      BY <1>2, <2>2 DEF Owed
    <2>4. LeaveStep
      BY <1>0, <2>1, <2>2 DEF LeaveStep
    <2> QED
      BY <1>2, <2>3, <2>4, LeaveKeeps
  <1>4. CASE P \notin w.need
    <2>1. UNCHANGED changed /\ w' = NextPipe(w, "stale", "latch")
      BY <1>4 DEF Stale
    <2>2. LeaveStep
      BY <1>0, <2>1 DEF LeaveStep, DInv, SharedTypes
    <2>3. ~InRun(q)
      BY <1>0 DEF InRun
    <2> QED
      BY <1>2, <1>4, <2>2, <2>3, LeaveKeeps
  <1>5. CASE P \in w.need /\ request.gen = w.latched.gen
    <2>1. UNCHANGED changed /\ w' = [w EXCEPT !.pc = "reset"]
      BY <1>5 DEF Stale
    <2>2. /\ DOMAIN w' = Fields /\ w'.pc = "reset" /\ w'.i = w.i /\ w'.need = w.need
          /\ w'.latched = w.latched /\ w'.status = w.status
      BY <1>0, <2>1 DEF Fields
    <2>3. P' = P
      BY <2>2 DEF P
    <2>4. CallsBacked' /\ \A p, f : Has(todo, p, f)' <=> Has(todo, p, f)
      BY <1>0, CallsKept DEF DInv
    <2>5. \A p : Owed(p)' <=> Owed(p)
      BY <1>0, <2>1, OwedKept
    <2>6. SharedTypes' /\ WorkerTypes' /\ Bounds'
      <3>1. SharedTypes'
        BY <1>0, <2>1 DEF DInv, SharedTypes
      <3>2. WorkerTypes'
        BY <2>2 DEF DInv, WorkerTypes, Stages, Fields
      <3>3. Bounds'
        BY <1>0, <2>2 DEF DInv, Bounds
      <3> QED
        BY <3>1, <3>2, <3>3
    <2>7. \A p : Coming(p) => Coming(p)' \/ p = P
      BY <1>0, <2>2 DEF Coming
    <2>8. \A p : ~Resyncing(p) /\ ~Resyncing(p)'
      BY <1>0, <2>2 DEF Resyncing
    <2>9. SyncedOK'
      BY <1>0, <2>1, <2>4 DEF DInv, SyncedOK
    <2>10. PlanOK'
      BY <1>0, <2>8 DEF DInv, PlanOK
    <2>11. RoiOK'
      BY <1>0, <1>5, <2>5, <2>8 DEF DInv, RoiOK
    <2>12. FrameOK'
      <3>1. ASSUME NEW p \in Pipes
            PROVE  (backbuf[p] = Frame(p) \/ Owed(p) \/ p \in Excused \/ Coming(p) \/ InRun(p))'
        <4>1. backbuf[p] = Frame(p) \/ Owed(p) \/ p \in Excused \/ Coming(p) \/ InRun(p)
          BY DEF DInv, FrameOK
        <4>2. Frame(p)' = Frame(p)
          BY <1>0 DEF Frame
        <4>3. ~InRun(p)
          BY <1>0 DEF InRun
        <4>4. p = P => InRun(p)'
          BY <2>2, <2>3 DEF InRun
        <4> QED
          BY <1>0, <2>5, <2>7, <4>1, <4>2, <4>3, <4>4
      <3> QED
        BY <3>1 DEF FrameOK
    <2>13. SwitchOK' /\ RequestOK' /\ StopOK'
      BY <2>2 DEF SwitchOK, RequestOK, StopOK
    <2> QED
      BY <2>4, <2>6, <2>9, <2>10, <2>11, <2>12, <2>13 DEF DInv
  <1> QED
    BY <1>3, <1>4, <1>5

\* An iteration begins with the current viewport.
LEMMA LatchKeeps == DInv /\ Latch => DInv'
  <1> SUFFICES ASSUME DInv, Latch PROVE DInv'
    OBVIOUS
  <1>0. /\ w.pc = "latch" /\ DOMAIN w = Fields /\ UNCHANGED <<slot, shutdown, backbuf>>
        /\ UNCHANGED <<items, devHash, request, changed, pipe, todo, Excused>>
        /\ w' = [w EXCEPT !.pc = "check", !.latched = request, !.need = {}]
    BY DEF Latch, WorkerAt, DInv, WorkerTypes, Fields, devVars, guiVars, ghosts, Excused
  <1>1. /\ DOMAIN w' = Fields /\ w'.pc = "check" /\ w'.i = w.i /\ w'.need = {}
        /\ w'.latched = request /\ w'.status = w.status
    BY <1>0 DEF Fields
  <1>2. CallsBacked' /\ \A p, f : Has(todo, p, f)' <=> Has(todo, p, f)
    BY <1>0, CallsKept DEF DInv
  <1>3. \A p : Owed(p)' <=> Owed(p)
    BY <1>0, OwedKept
  <1>4. SharedTypes' /\ WorkerTypes' /\ Bounds'
    <2>1. SharedTypes'
      BY <1>0 DEF DInv, SharedTypes
    <2>2. WorkerTypes'
      BY <1>1 DEF DInv, SharedTypes, WorkerTypes, Stages, Fields
    <2>3. Bounds'
      BY <1>0, <1>1 DEF DInv, SharedTypes, Bounds
    <2> QED
      BY <2>1, <2>2, <2>3
  <1>5. \A p : ~Coming(p) /\ ~InRun(p) /\ ~Resyncing(p)
    BY <1>0 DEF Coming, InRun, Resyncing
  <1>6. SyncedOK'
    BY <1>0, <1>2 DEF DInv, SyncedOK
  <1>7. PlanOK'
    BY <1>0, <1>5 DEF DInv, PlanOK
  <1>8. RoiOK'
    BY <1>0, <1>3, <1>5 DEF DInv, RoiOK
  <1>9. FrameOK'
    <2>1. \A p : Frame(p)' = Frame(p)
      BY <1>0 DEF Frame
    <2> QED
      BY <1>0, <1>3, <1>5, <2>1 DEF DInv, FrameOK
  <1>10. SwitchOK' /\ RequestOK' /\ StopOK'
    BY <1>1 DEF SwitchOK, RequestOK, StopOK
  <1> QED
    BY <1>2, <1>4, <1>6, <1>7, <1>8, <1>9, <1>10 DEF DInv

\* The signal of a resync is the consumers' business.
LEMMA ResyncedKeeps == DInv /\ Resynced => DInv'
  <1> SUFFICES ASSUME DInv, Resynced PROVE DInv'
    OBVIOUS
  <1>0. /\ w.pc = "resynced" /\ DOMAIN w = Fields /\ UNCHANGED <<slot, shutdown, backbuf>>
        /\ UNCHANGED <<items, devHash, request, changed, pipe, todo, Excused>>
        /\ w' = [w EXCEPT !.pc = "stale"]
    BY DEF Resynced, WorkerAt, Goto, DInv, WorkerTypes, Fields, devVars, ghosts, Excused
  <1>1. /\ DOMAIN w' = Fields /\ w'.pc = "stale" /\ w'.i = w.i /\ w'.need = w.need
        /\ w'.latched = w.latched /\ w'.status = w.status
    BY <1>0 DEF Fields
  <1>2. CallsBacked' /\ \A p, f : Has(todo, p, f)' <=> Has(todo, p, f)
    BY <1>0, CallsKept DEF DInv
  <1>3. \A p : Owed(p)' <=> Owed(p)
    BY <1>0, OwedKept
  <1>4. SharedTypes' /\ WorkerTypes' /\ Bounds'
    <2>1. SharedTypes'
      BY <1>0 DEF DInv, SharedTypes
    <2>2. WorkerTypes'
      BY <1>1 DEF DInv, WorkerTypes, Stages, Fields
    <2>3. Bounds'
      BY <1>0, <1>1 DEF DInv, Bounds
    <2> QED
      BY <2>1, <2>2, <2>3
  <1>5. ASSUME NEW p \in Pipes, Coming(p) PROVE Coming(p)'
    <2>1. w.i = 1 /\ Len(Order) \in Nat /\ DOMAIN Order = 1..Len(Order)
      BY <1>0, DarkroomAssumption, LenProperties DEF DInv, WorkerTypes
    <2>2. PICK j \in 1..Len(Order) : Order[j] = p
      BY <2>1 DEF Pipes
    <2>3. p \in w.need
      BY <1>5 DEF Coming
    <2>4. CASE j = 1
      BY <1>1, <2>1, <2>2, <2>3, <2>4 DEF Coming, P
    <2>5. CASE j # 1
      <3>1. j \in (w'.i + 1)..Len(Order)
        BY <1>1, <2>1, <2>5
      <3> QED
        BY <1>1, <2>2, <2>3, <3>1 DEF Coming
    <2> QED
      BY <2>4, <2>5
  <1>6. \A p : ~InRun(p) /\ ~Resyncing(p)
    BY <1>0 DEF InRun, Resyncing
  <1>7. SyncedOK'
    BY <1>0, <1>2 DEF DInv, SyncedOK
  <1>8. PlanOK'
    BY <1>0, <1>6 DEF DInv, PlanOK
  <1>9. RoiOK'
    BY <1>0, <1>1, <1>3, <1>5, <1>6 DEF DInv, RoiOK
  <1>10. FrameOK'
    <2>1. \A p : Frame(p)' = Frame(p)
      BY <1>0 DEF Frame
    <2> QED
      BY <1>0, <1>3, <1>5, <1>6, <2>1 DEF DInv, FrameOK
  <1>11. SwitchOK' /\ RequestOK' /\ StopOK'
    BY <1>1 DEF SwitchOK, RequestOK, StopOK
  <1> QED
    BY <1>2, <1>4, <1>7, <1>8, <1>9, <1>10, <1>11 DEF DInv

\* The flags are taken and cleared in one exchange; a pipe without any, or paused, is passed by.
LEMMA CheckKeeps == DInv /\ Check => DInv'
  <1> SUFFICES ASSUME DInv, Check PROVE DInv'
    OBVIOUS
  <1> DEFINE flags == changed[P] \cup (IF pipe[P].hash # devHash THEN {"SYNCH"} ELSE {})
  <1>0. /\ w.pc = "check" /\ DOMAIN w = Fields /\ UNCHANGED <<slot, shutdown, backbuf>>
        /\ UNCHANGED <<items, devHash, request, pipe, todo, Excused>>
        /\ IF P \in paused \/ flags = {}
           THEN w' = NextPipe(w, "check", "resynced") /\ UNCHANGED changed
           ELSE /\ w' = [w EXCEPT !.pc = "sync", !.need = @ \cup {P}, !.status = flags]
                /\ changed' = [changed EXCEPT ![P] = {}]
    BY DEF Check, WorkerAt, DInv, WorkerTypes, Fields, devVars, guiVars, ghosts, Excused
  <1>1. P \in Pipes /\ flags \subseteq Flags /\ changed[P] \subseteq flags
        /\ changed \in [Pipes -> SUBSET Flags]
    <2>1. P \in Pipes /\ changed \in [Pipes -> SUBSET Flags]
      BY PipeFacts DEF DInv, SharedTypes
    <2> QED
      BY <2>1 DEF Flags
  <1> HIDE DEF flags
  <1>2. CallsBacked' /\ \A p, f : Has(todo, p, f)' <=> Has(todo, p, f)
    BY <1>0, CallsKept DEF DInv
  <1>3. SharedTypes'
    <2>1. changed' \in [Pipes -> SUBSET Flags]
      BY <1>0, <1>1
    <2> QED
      BY <1>0, <2>1 DEF DInv, SharedTypes
  <1>4. \A p : Frame(p)' = Frame(p)
    BY <1>0 DEF Frame
  <1>5. \A p : ~InRun(p) /\ ~Resyncing(p)
    BY <1>0 DEF InRun, Resyncing
  <1>6. ASSUME NEW p \in Pipes, p # P
        PROVE  changed'[p] = changed[p] /\ (Owed(p)' <=> Owed(p))
    BY <1>0, <1>1, <1>2, <1>6 DEF Owed
  <1>7. CASE P \in paused \/ flags = {}
    <2>1. changed' = changed
      BY <1>0, <1>7
    <2>2. \A p : Owed(p)' <=> Owed(p)
      BY <1>0, <2>1, OwedKept
    <2>3. /\ DOMAIN w' = Fields /\ w'.i \in 1..Len(Order) /\ w'.pc \in {"check", "resynced"}
          /\ w'.latched = w.latched /\ w'.need = w.need /\ w'.status = {}
          /\ w'.pc = "resynced" => w'.i = 1
      <3>1. w' = NextPipe(w, "check", "resynced") /\ WorkerTypes /\ DOMAIN w = Fields
        BY <1>0, <1>7 DEF DInv
      <3> HIDE DEF Fields
      <3> QED
        BY <3>1, NextPipeFacts
    <2>4. WorkerTypes' /\ Bounds'
      <3>1. WorkerTypes'
        BY <2>3 DEF DInv, WorkerTypes, Stages, Fields
      <3>2. Bounds'
        BY <1>0, <2>3 DEF DInv, Bounds
      <3> QED
        BY <3>1, <3>2
    <2>5. \A p : Coming(p) => Coming(p)'
      BY <1>0, <2>3 DEF Coming
    <2>6. SyncedOK'
      BY <1>0, <1>2, <2>1 DEF DInv, SyncedOK
    <2>7. PlanOK'
      BY <1>0, <1>5 DEF DInv, PlanOK
    <2>8. RoiOK'
      BY <1>0, <1>5, <2>2, <2>3, <2>5 DEF DInv, RoiOK
    <2>9. FrameOK'
      BY <1>0, <1>4, <1>5, <2>2, <2>5 DEF DInv, FrameOK
    <2>10. SwitchOK' /\ RequestOK' /\ StopOK'
      BY <2>3 DEF SwitchOK, RequestOK, StopOK
    <2> QED
      BY <1>2, <1>3, <2>4, <2>6, <2>7, <2>8, <2>9, <2>10 DEF DInv
  <1>8. CASE ~(P \in paused \/ flags = {})
    <2>1. /\ DOMAIN w' = Fields /\ w'.i = w.i /\ w'.pc = "sync"
          /\ w'.latched = w.latched /\ w'.need = w.need \cup {P} /\ w'.status = flags
      BY <1>0, <1>8 DEF Fields
    <2>2. P' = P
      BY <2>1 DEF P
    <2>3. WorkerTypes' /\ Bounds'
      <3>1. WorkerTypes'
        BY <1>1, <2>1 DEF DInv, WorkerTypes, Stages, Fields
      <3>2. Bounds'
        BY <1>0, <2>1, <2>2 DEF DInv, Bounds
      <3> QED
        BY <3>1, <3>2
    <2>4. (\A p : Coming(p) => Coming(p)') /\ \A p : p = P => Coming(p)' /\ Resyncing(p)'
      BY <1>0, <2>1, <2>2 DEF Coming, Resyncing
    <2>5. SyncedOK'
      <3>1. ASSUME NEW p \in Pipes
            PROVE  (\/ pipe[p].synced = items
                    \/ "SYNCH" \in changed[p] \/ Has(todo, p, "SYNCH")
                    \/ P = p /\ w.pc = "sync" /\ "SYNCH" \in w.status)'
        <4>1. pipe[p].synced = items \/ "SYNCH" \in changed[p] \/ Has(todo, p, "SYNCH")
          BY <1>0 DEF DInv, SyncedOK
        <4> QED
          BY <1>0, <1>1, <1>2, <1>6, <2>1, <2>2, <4>1
      <3> QED
        BY <3>1 DEF SyncedOK
    <2>6. PlanOK'
      BY <1>0, <1>5 DEF DInv, PlanOK
    <2>7. RoiOK'
      BY <1>0, <1>5, <1>6, <2>1, <2>4 DEF DInv, RoiOK
    <2>8. FrameOK'
      BY <1>0, <1>4, <1>5, <1>6, <2>4 DEF DInv, FrameOK
    <2>9. SwitchOK' /\ RequestOK' /\ StopOK'
      BY <2>1 DEF SwitchOK, RequestOK, StopOK
    <2> QED
      BY <1>2, <1>3, <2>3, <2>5, <2>6, <2>7, <2>8, <2>9 DEF DInv
  <1> QED
    BY <1>7, <1>8

\* The nodes follow the history.
LEMMA SyncKeeps == DInv /\ Sync => DInv'
  <1> SUFFICES ASSUME DInv, Sync PROVE DInv'
    OBVIOUS
  <1>0. /\ w.pc = "sync" /\ DOMAIN w = Fields /\ UNCHANGED <<slot, shutdown, backbuf>>
        /\ UNCHANGED <<items, devHash, request, changed, todo, Excused>>
        /\ pipe' = [pipe EXCEPT ![P].synced = IF "SYNCH" \in w.status THEN items ELSE @,
                                ![P].hash = devHash]
        /\ w' = [w EXCEPT !.pc = "plan", !.status = {}]
    BY DEF Sync, WorkerAt, DInv, WorkerTypes, Fields, devVars, guiVars, ghosts, Excused
  <1>1. P \in Pipes /\ pipe \in [Pipes -> [synced : Int, hash : Int, plan : Plans]]
        /\ items \in Int /\ devHash \in Int
    BY PipeFacts DEF DInv, SharedTypes
  <1>2. /\ DOMAIN w' = Fields /\ w'.i = w.i /\ w'.pc = "plan"
        /\ w'.latched = w.latched /\ w'.need = w.need /\ w'.status = {}
    BY <1>0 DEF Fields
  <1>3. P' = P /\ P \in w.need
    BY <1>0, <1>2 DEF P, DInv, Bounds
  <1>4. /\ pipe' \in [Pipes -> [synced : Int, hash : Int, plan : Plans]]
        /\ \A p \in Pipes : p # P => pipe'[p] = pipe[p]
        /\ pipe'[P].plan = pipe[P].plan /\ pipe'[P].hash = devHash
        /\ pipe'[P].synced = IF "SYNCH" \in w.status THEN items ELSE pipe[P].synced
    BY <1>0, <1>1
  <1>5. CallsBacked' /\ \A p, f : Has(todo, p, f)' <=> Has(todo, p, f)
    BY <1>0, CallsKept DEF DInv
  <1>6. \A p : Owed(p)' <=> Owed(p)
    BY <1>0, OwedKept
  <1>7. SharedTypes' /\ WorkerTypes' /\ Bounds'
    <2>1. SharedTypes'
      BY <1>0, <1>4 DEF DInv, SharedTypes
    <2>2. WorkerTypes'
      BY <1>2 DEF DInv, WorkerTypes, Stages, Fields
    <2>3. ASSUME NEW p \in Pipes PROVE backbuf[p].hash <= pipe'[p].hash /\ pipe'[p].hash <= devHash
      <3>1. /\ backbuf[p].hash \in Int /\ pipe[p].hash \in Int
            /\ backbuf[p].hash <= pipe[p].hash /\ pipe[p].hash <= devHash
        BY DEF DInv, SharedTypes, Bounds
      <3> QED
        BY <1>1, <1>4, <3>1
    <2>4. Bounds'
      BY <1>0, <1>2, <1>3, <2>3 DEF DInv, Bounds
    <2> QED
      BY <2>1, <2>2, <2>4
  <1>8. \A p : p = P => Coming(p)' /\ Resyncing(p)'
    BY <1>2, <1>3 DEF Coming, Resyncing
  <1>9. \A p : Coming(p)' <=> Coming(p)
    BY <1>0, <1>2 DEF Coming
  <1>10. \A p : Resyncing(p) => p = P
    BY DEF Resyncing
  <1>11. \A p : ~InRun(p)
    BY <1>0 DEF InRun
  <1>12. SyncedOK'
    BY <1>0, <1>3, <1>4, <1>5 DEF DInv, SyncedOK
  <1>13. PlanOK'
    BY <1>4, <1>8, <1>10 DEF DInv, PlanOK
  <1>14. RoiOK'
    BY <1>0, <1>2, <1>4, <1>6, <1>8, <1>9, <1>10 DEF DInv, RoiOK
  <1>15. FrameOK'
    <2>1. \A p \in Pipes : p # P => Frame(p)' = Frame(p)
      BY <1>4 DEF Frame
    <2> QED
      BY <1>0, <1>6, <1>8, <1>9, <1>11, <2>1 DEF DInv, FrameOK
  <1>16. SwitchOK' /\ RequestOK' /\ StopOK'
    BY <1>2 DEF SwitchOK, RequestOK, StopOK
  <1> QED
    BY <1>5, <1>7, <1>12, <1>13, <1>14, <1>15, <1>16 DEF DInv

\* Flags raised meanwhile are consumed too; then the region is planned from the latched record.
LEMMA PlanKeeps == DInv /\ Plan => DInv'
  <1> SUFFICES ASSUME DInv, Plan PROVE DInv'
    OBVIOUS
  <1>0. /\ w.pc = "plan" /\ DOMAIN w = Fields /\ UNCHANGED <<slot, shutdown, backbuf>>
        /\ UNCHANGED <<items, devHash, request, todo, Excused>>
    BY DEF Plan, WorkerAt, DInv, WorkerTypes, Fields, devVars, guiVars, ghosts, Excused
  <1>1. P \in Pipes /\ pipe \in [Pipes -> [synced : Int, hash : Int, plan : Plans]]
        /\ changed \in [Pipes -> SUBSET Flags] /\ P \in w.need
    BY <1>0, PipeFacts DEF DInv, SharedTypes, Bounds
  <1>2. CallsBacked' /\ \A p, f : Has(todo, p, f)' <=> Has(todo, p, f)
    BY <1>0, CallsKept DEF DInv
  <1>3. \A p : ~InRun(p) /\ (Resyncing(p) <=> p = P)
    BY <1>0 DEF InRun, Resyncing
  <1>4. CASE changed[P] # {}
    <2>1. /\ w' = [w EXCEPT !.pc = "sync", !.status = changed[P]]
          /\ changed' = [changed EXCEPT ![P] = {}] /\ UNCHANGED pipe
      BY <1>4 DEF Plan
    <2>2. /\ DOMAIN w' = Fields /\ w'.i = w.i /\ w'.pc = "sync"
          /\ w'.latched = w.latched /\ w'.need = w.need /\ w'.status = changed[P]
      BY <1>0, <2>1 DEF Fields
    <2>3. P' = P
      BY <2>2 DEF P
    <2>4. SharedTypes' /\ WorkerTypes' /\ Bounds'
      <3>1. changed' \in [Pipes -> SUBSET Flags] /\ changed[P] \subseteq Flags
        BY <1>1, <2>1
      <3>2. SharedTypes'
        BY <1>0, <2>1, <3>1 DEF DInv, SharedTypes
      <3>3. WorkerTypes'
        BY <2>2, <3>1 DEF DInv, WorkerTypes, Stages, Fields
      <3>4. Bounds'
        BY <1>0, <1>1, <2>1, <2>2, <2>3 DEF DInv, Bounds
      <3> QED
        BY <3>2, <3>3, <3>4
    <2>5. ASSUME NEW p \in Pipes, p # P
          PROVE  changed'[p] = changed[p] /\ (Owed(p)' <=> Owed(p))
      BY <1>1, <1>2, <2>1, <2>5 DEF Owed
    <2>6. \A p : p = P => Coming(p)' /\ Resyncing(p)'
      BY <1>1, <2>2, <2>3 DEF Coming, Resyncing
    <2>7. \A p : Coming(p)' <=> Coming(p)
      BY <1>0, <2>2 DEF Coming
    <2>8. SyncedOK'
      <3>1. ASSUME NEW p \in Pipes
            PROVE  (\/ pipe[p].synced = items
                    \/ "SYNCH" \in changed[p] \/ Has(todo, p, "SYNCH")
                    \/ P = p /\ w.pc = "sync" /\ "SYNCH" \in w.status)'
        <4>1. pipe[p].synced = items \/ "SYNCH" \in changed[p] \/ Has(todo, p, "SYNCH")
          BY <1>0 DEF DInv, SyncedOK
        <4> QED
          BY <1>0, <1>1, <1>2, <2>1, <2>2, <2>3, <2>5, <4>1
      <3> QED
        BY <3>1 DEF SyncedOK
    <2>9. PlanOK'
      BY <1>3, <2>1, <2>6 DEF DInv, PlanOK
    <2>10. RoiOK'
      BY <1>0, <1>3, <2>1, <2>2, <2>5, <2>6, <2>7 DEF DInv, RoiOK
    <2>11. FrameOK'
      <3>1. \A p : Frame(p)' = Frame(p)
        BY <2>1 DEF Frame
      <3> QED
        BY <1>0, <1>3, <2>5, <2>6, <2>7, <3>1 DEF DInv, FrameOK
    <2>12. SwitchOK' /\ RequestOK' /\ StopOK'
      BY <2>2 DEF SwitchOK, RequestOK, StopOK
    <2> QED
      BY <1>2, <2>4, <2>8, <2>9, <2>10, <2>11, <2>12 DEF DInv
  <1>5. CASE changed[P] = {}
    <2>1. /\ UNCHANGED changed
          /\ pipe' = [pipe EXCEPT ![P].plan = [hist |-> pipe[P].synced, roi |-> Roi(P, w.latched)]]
          /\ w' = NextPipe(w, "check", "resynced")
      BY <1>5 DEF Plan
    <2>2. /\ DOMAIN w' = Fields /\ w'.i \in 1..Len(Order) /\ w'.pc \in {"check", "resynced"}
          /\ w'.latched = w.latched /\ w'.need = w.need /\ w'.status = {}
          /\ w'.pc = "resynced" => w'.i = 1
      <3>1. WorkerTypes
        BY DEF DInv
      <3> HIDE DEF Fields
      <3> QED
        BY <1>0, <2>1, <3>1, NextPipeFacts
    <2>3. \A p : Owed(p)' <=> Owed(p)
      BY <1>0, <2>1, OwedKept
    <2>4. [hist |-> pipe[P].synced, roi |-> Roi(P, w.latched)] \in Plans
      <3>1. Roi(P, w.latched) \in [size : Int, zoom : Int]
        BY DEF Roi, DInv, WorkerTypes, Records
      <3> QED
        BY <1>1, <3>1 DEF Plans
    <2>5. /\ pipe' \in [Pipes -> [synced : Int, hash : Int, plan : Plans]]
          /\ \A p \in Pipes : p # P => pipe'[p] = pipe[p]
          /\ pipe'[P].plan = [hist |-> pipe[P].synced, roi |-> Roi(P, w.latched)]
          /\ pipe'[P].hash = pipe[P].hash /\ pipe'[P].synced = pipe[P].synced
      BY <1>1, <2>1, <2>4
    <2>6. SharedTypes' /\ WorkerTypes' /\ Bounds'
      <3>1. SharedTypes'
        BY <1>0, <2>1, <2>5 DEF DInv, SharedTypes
      <3>2. WorkerTypes'
        BY <2>2 DEF DInv, WorkerTypes, Stages, Fields
      <3>3. \A p \in Pipes : pipe'[p].hash = pipe[p].hash
        BY <2>5
      <3>4. Bounds'
        BY <1>0, <2>2, <3>3 DEF DInv, Bounds
      <3> QED
        BY <3>1, <3>2, <3>4
    <2>7. (\A p : Coming(p) => Coming(p)') /\ \A p : p = P => Coming(p)'
      BY <1>0, <1>1, <2>2 DEF Coming
    <2>8. SyncedOK'
      <3>1. \A p \in Pipes : pipe'[p].synced = pipe[p].synced
        BY <2>5
      <3> QED
        BY <1>0, <1>2, <2>1, <3>1 DEF DInv, SyncedOK
    <2>9. PlanOK'
      <3>1. ASSUME NEW p \in Pipes PROVE pipe'[p].plan.hist = pipe'[p].synced
        <4>1. CASE p = P
          BY <2>5, <4>1
        <4>2. CASE p # P
          BY <1>3, <2>5, <4>2 DEF DInv, PlanOK
        <4> QED
          BY <4>1, <4>2
      <3> QED
        BY <3>1 DEF PlanOK
    <2>10. RoiOK'
      <3>1. ASSUME NEW p \in Pipes
            PROVE  (\/ pipe[p].plan.roi = Roi(p, request)
                    \/ Owed(p) \/ Resyncing(p)
                    \/ Coming(p) /\ w.latched.gen # request.gen)'
        <4>1. CASE p = P
          <5>1. pipe'[p].plan.roi = Roi(p, w.latched)
            BY <2>5, <4>1
          <5>2. w.latched.gen = request.gen => w.latched = request
            BY DEF DInv, Bounds
          <5>3. Coming(p)'
            BY <2>7, <4>1
          <5> QED
            BY <1>0, <2>2, <5>1, <5>2, <5>3 DEF Roi
        <4>2. CASE p # P
          BY <1>0, <1>3, <2>2, <2>3, <2>5, <2>7, <4>2 DEF DInv, RoiOK, Roi
        <4> QED
          BY <4>1, <4>2
      <3> QED
        BY <3>1 DEF RoiOK
    <2>11. FrameOK'
      <3>1. \A p \in Pipes : p # P => Frame(p)' = Frame(p)
        BY <2>5 DEF Frame
      <3> QED
        BY <1>0, <1>3, <2>3, <2>7, <3>1 DEF DInv, FrameOK
    <2>12. SwitchOK' /\ RequestOK' /\ StopOK'
      BY <2>2 DEF SwitchOK, RequestOK, StopOK
    <2> QED
      BY <1>2, <2>6, <2>8, <2>9, <2>10, <2>11, <2>12 DEF DInv
  <1> QED
    BY <1>4, <1>5
-----------------------------------------------------------------------------
(***************************************************************************)
(* The GUI thread.                                                         *)
(***************************************************************************)
\* A step that leaves the worker and the pipes alone and gives every flag that was to
\* come to the pipe or keeps it to come.
GuiKeeps ==
    /\ UNCHANGED <<pipe, backbuf, w>>
    /\ \A p \in Pipes : changed[p] \subseteq changed'[p]
    /\ \A p \in Pipes : \A f \in Flags : Has(todo, p, f) => f \in changed'[p] \/ Has(todo, p, f)'
    /\ \A p \in Pipes : p \in Excused => p \in Excused' \/ changed'[p] # {}

\* What was owed stays owed.
LEMMA GuiOwed ==
  ASSUME GuiKeeps
  PROVE  \A p \in Pipes : Owed(p) => Owed(p)'
  BY DEF GuiKeeps, Owed

\* Such a step keeps what does not depend on the record, the switch and the slot.
LEMMA GuiFrame ==
  ASSUME DInv, GuiKeeps
  PROVE  /\ WorkerTypes' /\ PlanOK' /\ FrameOK' /\ StopOK'
         /\ P' = P /\ P \in Pipes
         /\ \A p : (Coming(p)' <=> Coming(p)) /\ (Resyncing(p)' <=> Resyncing(p))
  <1>1. w' = w /\ pipe' = pipe /\ backbuf' = backbuf
    BY DEF GuiKeeps
  <1>2. P' = P /\ P \in Pipes
    BY <1>1, PipeFacts DEF P, DInv
  <1>3. WorkerTypes'
    BY <1>1 DEF DInv, WorkerTypes
  <1>4. \A p : /\ Coming(p)' <=> Coming(p)
               /\ Resyncing(p)' <=> Resyncing(p)
               /\ InRun(p)' <=> InRun(p)
               /\ Frame(p)' = Frame(p)
    BY <1>1, <1>2 DEF Coming, Resyncing, InRun, Frame
  <1>5. PlanOK'
    BY <1>1, <1>4 DEF DInv, PlanOK
  <1>6. ASSUME NEW p \in Pipes, Owed(p) \/ p \in Excused PROVE Owed(p)' \/ p \in Excused'
    BY <1>6, GuiOwed DEF GuiKeeps, Owed
  <1>7. FrameOK'
    BY <1>1, <1>4, <1>6 DEF DInv, FrameOK
  <1>8. StopOK'
    BY <1>1, <1>2, <1>6 DEF DInv, StopOK
  <1> QED
    BY <1>2, <1>3, <1>4, <1>5, <1>7, <1>8

\* It keeps what the run knows of the switch,
LEMMA GuiSwitch ==
  ASSUME DInv, GuiKeeps, UNCHANGED shutdown
  PROVE  SwitchOK'
  <1>1. P' = P /\ P \in Pipes
    BY GuiFrame
  <1>2. ASSUME Owed(P) \/ P \in Excused PROVE Owed(P)' \/ (P \in Excused)'
    BY <1>1, <1>2, GuiOwed DEF GuiKeeps, Owed
  <1> QED
    BY <1>1, <1>2 DEF DInv, SwitchOK, GuiKeeps

\* what it knows of the request,
LEMMA GuiRequest ==
  ASSUME DInv, GuiKeeps, \A p \in Pipes : slot'[p].kind = slot[p].kind \/ Owed(p)'
  PROVE  RequestOK'
  <1>1. P' = P /\ P \in Pipes
    BY GuiFrame
  <1>2. Owed(P) => Owed(P)'
    BY <1>1, GuiOwed
  <1>3. slot'[P].kind = slot[P].kind \/ Owed(P)'
    BY <1>1
  <1> QED
    BY <1>1, <1>2, <1>3 DEF DInv, RequestOK, GuiKeeps

\* the order of the hashes and generations,
LEMMA GuiBounds ==
  ASSUME DInv, GuiKeeps, UNCHANGED <<devHash, request>>
  PROVE  Bounds'
  BY GuiFrame DEF DInv, Bounds, GuiKeeps

\* what the nodes follow
LEMMA GuiSynced ==
  ASSUME DInv, GuiKeeps, UNCHANGED items
  PROVE  SyncedOK'
  <1>1. P' = P /\ w' = w /\ pipe' = pipe /\ "SYNCH" \in Flags
    BY GuiFrame DEF GuiKeeps, Flags
  <1> QED
    BY <1>1 DEF DInv, SyncedOK, GuiKeeps

\* and what the plan follows.
LEMMA GuiRoi ==
  ASSUME DInv, GuiKeeps, UNCHANGED request
  PROVE  RoiOK'
  BY GuiFrame, GuiOwed DEF DInv, RoiOK, GuiKeeps

\* A step that also leaves the shared words alone, but perhaps begins or replaces a call.
LEMMA GuiQuiet ==
  ASSUME DInv, UNCHANGED <<items, devHash, request, changed, shutdown, slot, pipe, backbuf, w, Excused>>,
         todo' \in Seq(Ops), AllBacked(todo'),
         \A p \in Pipes : \A f \in Flags : Has(todo, p, f) => Has(todo, p, f)'
  PROVE  DInv'
  <1>1. GuiKeeps
    BY DEF GuiKeeps
  <1>2. SharedTypes'
    BY DEF DInv, SharedTypes
  <1>3. CallsBacked'
    BY DEF CallsBacked, AllBacked
  <1>4. WorkerTypes' /\ PlanOK' /\ FrameOK' /\ StopOK'
    BY <1>1, GuiFrame
  <1>5. SwitchOK' /\ RequestOK' /\ Bounds' /\ SyncedOK' /\ RoiOK'
    BY <1>1, GuiSwitch, GuiRequest, GuiBounds, GuiSynced, GuiRoi
  <1> QED
    BY <1>2, <1>3, <1>4, <1>5 DEF DInv

\* The calls begin when the GUI thread is idle.
LEMMA BeginKeeps ==
  ASSUME DInv, Idle, UNCHANGED <<items, devHash, request, changed, shutdown, slot, pipe, backbuf, w, Excused>>,
         todo' \in Seq(Ops), AllBacked(todo')
  PROVE  DInv'
  <1>1. Len(todo) = 0
    BY DEF Idle
  <1>2. \A p \in Pipes : \A f \in Flags : ~Has(todo, p, f)
    BY <1>1 DEF Has
  <1> QED
    BY <1>2, GuiQuiet

\* A commit,
LEMMA CommitKeeps == DInv /\ Commit => DInv'
  <1> SUFFICES ASSUME DInv, Commit PROVE DInv'
    OBVIOUS
  <1>1. PICK g \in Geometry :
          todo' = KillSwitch("main") \o KillSwitch("preview") \o << <<"items">>, <<"hash">> >>
                  \o ChangePipe("preview", "SYNCH") \o ChangePipe("main", "SYNCH")
                  \o (IF g THEN PublishRequest("size") ELSE <<>>)
    BY DEF Commit
  <1>2. g \in BOOLEAN
    BY DarkroomAssumption
  <1>3. todo' \in Seq(Ops) /\ AllBacked(todo')
    BY <1>1, <1>2, CommitFacts
  <1>4. Idle /\ UNCHANGED <<items, devHash, request, changed, shutdown, slot, pipe, backbuf, w, Excused>>
    BY DEF Commit, devVars, ghosts, Excused
  <1> QED
    BY <1>3, <1>4, BeginKeeps

\* a move of the viewport
LEMMA ZoomKeeps == DInv /\ Zoom => DInv'
  <1> SUFFICES ASSUME DInv, Zoom PROVE DInv'
    OBVIOUS
  <1>1. todo' \in Seq(Ops) /\ AllBacked(todo')
    BY ZoomFacts DEF Zoom
  <1>2. Idle /\ UNCHANGED <<items, devHash, request, changed, shutdown, slot, pipe, backbuf, w, Excused>>
    BY DEF Zoom, devVars, ghosts, Excused
  <1> QED
    BY <1>1, <1>2, BeginKeeps

\* the start or the end of a stroke
LEMMA PauseKeeps == DInv /\ Pause => DInv'
  <1> SUFFICES ASSUME DInv, Pause PROVE DInv'
    OBVIOUS
  <1> DEFINE stop == paused = {}
  <1>1. stop \in BOOLEAN
    OBVIOUS
  <1>2. todo' = ChangePipe("main", "SYNCH") \o << <<"pause">> >>
                \o (IF stop /\ "preview" \in Pipes THEN << <<"switch", "preview", "pause">> >>
                    ELSE <<>>)
    BY DEF Pause
  <1> HIDE DEF stop
  <1>3. todo' \in Seq(Ops) /\ AllBacked(todo')
    BY <1>1, <1>2, PauseFacts
  <1>4. Idle /\ UNCHANGED <<items, devHash, request, changed, shutdown, slot, pipe, backbuf, w, Excused>>
    BY DEF Pause, devVars, ghosts, Excused
  <1> QED
    BY <1>3, <1>4, BeginKeeps

\* and a poll.
LEMMA PollKeeps ==
  ASSUME DInv, NEW c \in Consumers, Poll(c)
  PROVE  DInv'
  <1> DEFINE h == GlobalHash(TargetPipe[c], TargetPos[c])
             o == <<"peek", c, h>>
             s == <<o>>
  <1>1. todo' = s \/ todo' = <<>>
    BY DEF Poll
  <1>2. h \in [pos : Nat, plan : Plans]
    <2>1. TargetPipe[c] \in Pipes /\ TargetPos[c] \in Nat
      BY DarkroomAssumption
    <2>2. pipe[TargetPipe[c]].plan \in Plans
      BY <2>1 DEF DInv, SharedTypes
    <2> QED
      BY <2>1, <2>2 DEF GlobalHash
  <1> HIDE DEF h
  <1>3. o \in Ops
    BY <1>2 DEF Ops
  <1>4. \A t : Covers(o, t)
    BY DEF Covers
  <1> HIDE DEF o
  <1>5. s \in Seq(Ops) /\ \A k \in 1..Len(s) : Covers(s[k], <<>>)
    BY <1>3, <1>4
  <1> HIDE DEF s
  <1>6. AllBacked(s)
    <2>1. AllBacked(s \o <<>>) /\ s \o <<>> = s
      BY <1>5, EmptyCall, BackedConcat, ConcatEmptySeq
    <2> QED
      BY <2>1
  <1>7. todo' \in Seq(Ops) /\ AllBacked(todo')
    BY <1>1, <1>5, <1>6, EmptyCall
  <1>8. Idle /\ UNCHANGED <<items, devHash, request, changed, shutdown, slot, pipe, backbuf, w, Excused>>
    BY DEF Poll, devVars, ghosts, Excused
  <1> QED
    BY <1>7, <1>8, BeginKeeps

\* A signal, a consumer switched off and an eviction touch nothing of this.
LEMMA OthersKeep ==
  ASSUME DInv, UNCHANGED <<items, devHash, request, changed, shutdown, slot, pipe, backbuf, w, todo, Excused>>
  PROVE  DInv'
  <1>1. todo' = todo
    OBVIOUS
  <1>2. todo' \in Seq(Ops) /\ AllBacked(todo')
    BY <1>1 DEF DInv, SharedTypes, CallsBacked, AllBacked
  <1>3. \A p \in Pipes : \A f \in Flags : Has(todo, p, f) => Has(todo, p, f)'
    BY <1>1 DEF Has
  <1> QED
    BY <1>2, <1>3, GuiQuiet

\* What an access of each kind looks like.
LEMMA OpShape ==
  ASSUME NEW o \in Ops
  PROVE  /\ o[1] = "flag" => \E p \in Pipes, f \in Flags : o = <<"flag", p, f>>
         /\ o[1] = "switch" => \E p \in Pipes, f \in Flags \cup {"none", "pause"} : o = <<"switch", p, f>>
         /\ o[1] = "pause" => o = <<"pause">>
         /\ o[1] = "items" => o = <<"items">>
         /\ o[1] = "hash" => o = <<"hash">>
         /\ o[1] = "request" => \E part \in {"size", "zoom"} : o = <<"request", part>>
         /\ o[1] = "peek" => \E c \in Consumers, h \in [pos : Nat, plan : Plans] : o = <<"peek", c, h>>
         /\ o[1] = "module" => \E c \in Consumers : o = <<"module", c>>
         /\ o[1] = "kind" => \E c \in Consumers : o = <<"kind", c>>
  BY DEF Ops

\* One access is made and the others remain.
Makes(o) == todo # <<>> /\ Head(todo) = o /\ todo' = Tail(todo) /\ UNCHANGED <<pipe, backbuf, w>>

\* What is left of the call is backed, and covers the access made.
LEMMA MakesFacts ==
  ASSUME DInv, NEW o, Makes(o)
  PROVE  /\ CallsBacked' /\ todo' \in Seq(Ops) /\ Covers(o, todo') /\ o \in Ops
         /\ \A p, f : Has(todo, p, f) <=> o = <<"flag", p, f>> \/ Has(todo', p, f)
         /\ \A p, f : Has(todo, p, f)' <=> Has(todo', p, f)
  <1>1. todo \in Seq(Ops) /\ AllBacked(todo) /\ todo # <<>> /\ todo' = Tail(todo) /\ Head(todo) = o
    BY DEF DInv, SharedTypes, CallsBacked, AllBacked, Makes
  <1>2. AllBacked(todo') /\ Covers(o, todo')
    BY <1>1, BackedTail
  <1>3. \A p, f : Has(todo, p, f) <=> o = <<"flag", p, f>> \/ Has(todo', p, f)
    BY <1>1, HasTail
  <1>4. CallsBacked'
    BY <1>2 DEF CallsBacked, AllBacked
  <1>5. \A p, f : Has(todo, p, f)' <=> Has(todo', p, f)
    BY DEF Has
  <1>6. todo' \in Seq(Ops) /\ o \in Ops
    BY <1>1, TailFacts
  <1> QED
    BY <1>2, <1>3, <1>4, <1>5, <1>6

\* An access that is not a flag and leaves the flags alone.
LEMMA MakesKeeps ==
  ASSUME DInv, NEW o, Makes(o), o[1] # "flag", UNCHANGED changed, Excused \subseteq Excused'
  PROVE  GuiKeeps
  <1>1. \A p, f : o # <<"flag", p, f>>
    OBVIOUS
  <1> QED
    BY <1>1, MakesFacts DEF GuiKeeps, Makes

\* A flag still to come has come.
LEMMA FlagMade ==
  ASSUME DInv, NEW p \in Pipes, NEW f \in Flags, Makes(<<"flag", p, f>>),
         changed' = [changed EXCEPT ![p] = @ \cup {f}],
         late' = late \/ late' = late \ {p},
         UNCHANGED <<items, devHash, request, shutdown, slot, failed>>
  PROVE  DInv'
  <1>1. changed \in [Pipes -> SUBSET Flags]
    BY DEF DInv, SharedTypes
  <1>2. /\ changed' \in [Pipes -> SUBSET Flags] /\ f \in changed'[p]
        /\ \A q \in Pipes : changed[q] \subseteq changed'[q]
    BY <1>1
  <1>3. CallsBacked' /\ todo' \in Seq(Ops)
    BY MakesFacts
  <1>4. ASSUME NEW q \in Pipes, NEW g \in Flags, Has(todo, q, g)
        PROVE  g \in changed'[q] \/ Has(todo, q, g)'
    <2>1. <<"flag", p, f>> = <<"flag", q, g>> \/ Has(todo, q, g)'
      BY <1>4, MakesFacts
    <2>2. <<"flag", p, f>> = <<"flag", q, g>> => p = q /\ f = g
      OBVIOUS
    <2> QED
      BY <1>2, <2>1, <2>2
  <1>5. GuiKeeps
    <2>1. \A q \in Pipes : q \in Excused => q \in Excused' \/ changed'[q] # {}
      BY <1>2 DEF Excused
    <2> QED
      BY <1>2, <1>4, <2>1 DEF GuiKeeps, Makes
  <1>6. SharedTypes'
    BY <1>2, <1>3 DEF DInv, SharedTypes, Makes
  <1>7. WorkerTypes' /\ PlanOK' /\ FrameOK' /\ StopOK'
    BY <1>5, GuiFrame
  <1>8. SwitchOK' /\ RequestOK' /\ Bounds' /\ SyncedOK' /\ RoiOK'
    BY <1>5, GuiSwitch, GuiRequest, GuiBounds, GuiSynced, GuiRoi
  <1> QED
    BY <1>3, <1>6, <1>7, <1>8 DEF DInv

\* A switch is raised with its flag in place, before a flag that is still to come, on a pipe
\* that is not running, or late.
LEMMA SwitchMade ==
  ASSUME DInv, NEW p \in Pipes, NEW f \in Flags \cup {"none", "pause"}, Makes(<<"switch", p, f>>),
         shutdown' = [shutdown EXCEPT ![p] = TRUE],
         late' = IF f # "none" /\ Unflagged(p, f) /\ Running(p) THEN late \cup {p} ELSE late,
         UNCHANGED <<items, devHash, request, changed, slot, failed>>
  PROVE  DInv'
  <1>1. GuiKeeps
    <2>1. <<"switch", p, f>>[1] # "flag" /\ Excused \subseteq Excused'
      BY DEF Excused
    <2> QED
      BY <2>1, MakesKeeps
  <1>2. CallsBacked' /\ todo' \in Seq(Ops) /\ Covers(<<"switch", p, f>>, todo')
    BY MakesFacts
  <1>3. shutdown \in [Pipes -> BOOLEAN]
    BY DEF DInv, SharedTypes
  <1>4. SharedTypes'
    <2>1. shutdown' \in [Pipes -> BOOLEAN]
      BY <1>3
    <2> QED
      BY <1>2, <2>1 DEF DInv, SharedTypes, Makes
  <1>5. WorkerTypes' /\ PlanOK' /\ FrameOK' /\ StopOK' /\ P' = P /\ P \in Pipes /\ w' = w
    BY <1>1, GuiFrame DEF GuiKeeps
  <1>6. RequestOK' /\ Bounds' /\ SyncedOK' /\ RoiOK'
    BY <1>1, GuiRequest, GuiBounds, GuiSynced, GuiRoi
  <1>7. ASSUME w.pc \in {"loopKind", "getKind", "getModule", "clearKind", "clearModule", "exact",
                         "module", "kept", "publish", "finish"}, shutdown'[P]
        PROVE  Owed(P)' \/ P \in Excused'
    <2>1. CASE p # P
      <3>1. shutdown[P]
        BY <1>3, <1>5, <1>7, <2>1
      <3>2. Owed(P) \/ P \in Excused
        BY <1>7, <3>1 DEF DInv, SwitchOK
      <3> QED
        BY <1>1, <1>5, <3>2, GuiOwed DEF GuiKeeps, Owed
    <2>2. CASE p = P /\ f = "none"
      <3>1. \E g \in Flags : Has(todo', p, g)
        BY <1>2, <2>2 DEF Covers
      <3>2. Owed(p)'
        BY <3>1, MakesFacts DEF Owed
      <3> QED
        BY <1>5, <2>2, <3>2
    <2>3. CASE p = P /\ f # "none" /\ ~Unflagged(p, f)
      <3>1. changed'[p] # {}
        BY <2>3 DEF Unflagged
      <3>2. Owed(p)'
        BY <3>1 DEF Owed
      <3> QED
        BY <1>5, <2>3, <3>2
    <2>4. CASE p = P /\ f # "none" /\ Unflagged(p, f)
      <3>1. Running(p)
        BY <1>7, <2>4 DEF Running
      <3> QED
        BY <1>5, <2>4, <3>1 DEF Excused
    <2> QED
      BY <2>1, <2>2, <2>3, <2>4
  <1>8. SwitchOK'
    BY <1>5, <1>7 DEF SwitchOK
  <1> QED
    BY <1>2, <1>4, <1>5, <1>6, <1>8 DEF DInv

\* The preview has been paused or resumed.
LEMMA PauseMade ==
  ASSUME DInv, Makes(<<"pause">>),
         UNCHANGED <<items, devHash, request, changed, shutdown, slot, Excused>>
  PROVE  DInv'
  <1>1. todo' \in Seq(Ops) /\ CallsBacked'
    BY MakesFacts
  <1>2. AllBacked(todo')
    BY <1>1 DEF CallsBacked, AllBacked
  <1>3. <<"pause">>[1] # "flag"
    OBVIOUS
  <1>4. \A p \in Pipes : \A f \in Flags : Has(todo, p, f) => Has(todo, p, f)'
    BY <1>3, MakesFacts
  <1> QED
    BY <1>1, <1>2, <1>4, GuiQuiet DEF Makes

\* The history has grown, and every pipe will be told.
LEMMA ItemsMade ==
  ASSUME DInv, Makes(<<"items">>), items' = items + 1,
         UNCHANGED <<devHash, request, changed, shutdown, slot, Excused>>
  PROVE  DInv'
  <1>1. GuiKeeps
    <2>1. <<"items">>[1] # "flag"
      OBVIOUS
    <2> QED
      BY <2>1, MakesKeeps
  <1>2. CallsBacked' /\ todo' \in Seq(Ops) /\ \A p \in Pipes : Has(todo, p, "SYNCH")'
    BY MakesFacts DEF Covers
  <1>3. SharedTypes'
    <2>1. items' \in Nat /\ devHash \in 0..items'
      BY DEF DInv, SharedTypes
    <2> QED
      BY <1>2, <2>1 DEF DInv, SharedTypes, Makes
  <1>4. WorkerTypes' /\ PlanOK' /\ FrameOK' /\ StopOK'
    BY <1>1, GuiFrame
  <1>5. SwitchOK' /\ RequestOK' /\ Bounds' /\ RoiOK'
    BY <1>1, GuiSwitch, GuiRequest, GuiBounds, GuiRoi
  <1>6. SyncedOK'
    BY <1>2 DEF SyncedOK
  <1> QED
    BY <1>2, <1>3, <1>4, <1>5, <1>6 DEF DInv

\* The hash follows the history.
LEMMA HashMade ==
  ASSUME DInv, Makes(<<"hash">>), devHash' = items,
         UNCHANGED <<items, request, changed, shutdown, slot, Excused>>
  PROVE  DInv'
  <1>1. GuiKeeps
    <2>1. <<"hash">>[1] # "flag"
      OBVIOUS
    <2> QED
      BY <2>1, MakesKeeps
  <1>2. CallsBacked' /\ todo' \in Seq(Ops)
    BY MakesFacts
  <1>3. SharedTypes'
    <2>1. items \in Nat /\ devHash' \in 0..items
      BY DEF DInv, SharedTypes
    <2> QED
      BY <1>2, <2>1 DEF DInv, SharedTypes, Makes
  <1>4. WorkerTypes' /\ PlanOK' /\ FrameOK' /\ StopOK' /\ P' = P /\ w' = w
    BY <1>1, GuiFrame DEF GuiKeeps
  <1>5. SwitchOK' /\ RequestOK' /\ SyncedOK' /\ RoiOK'
    BY <1>1, GuiSwitch, GuiRequest, GuiSynced, GuiRoi
  <1>6. Bounds'
    <2>1. ASSUME NEW p \in Pipes PROVE backbuf[p].hash <= pipe[p].hash /\ pipe[p].hash <= devHash'
      <3>1. devHash \in Int /\ items \in Int /\ devHash <= items /\ pipe[p].hash \in Int
        BY DEF DInv, SharedTypes
      <3>2. backbuf[p].hash <= pipe[p].hash /\ pipe[p].hash <= devHash
        BY DEF DInv, Bounds
      <3> QED
        BY <3>1, <3>2
    <2> QED
      BY <1>1, <1>4, <2>1 DEF DInv, Bounds, GuiKeeps
  <1> QED
    BY <1>2, <1>3, <1>4, <1>5, <1>6 DEF DInv

\* A new record is flagged to every pipe whose region it changes.
LEMMA RequestMade ==
  ASSUME DInv, NEW part \in {"size", "zoom"}, Makes(<<"request", part>>),
         request' = [gen |-> request.gen + 1,
                     size |-> IF part = "size" THEN items ELSE request.size,
                     zoom |-> IF part = "zoom" THEN request.zoom + 1 ELSE request.zoom],
         UNCHANGED <<items, devHash, changed, shutdown, slot, Excused>>
  PROVE  DInv'
  <1>1. GuiKeeps
    <2>1. <<"request", part>>[1] # "flag"
      OBVIOUS
    <2> QED
      BY <2>1, MakesKeeps
  <1>2. CallsBacked' /\ todo' \in Seq(Ops) /\ Covers(<<"request", part>>, todo')
    BY MakesFacts
  <1>3. request \in Records /\ request.gen \in Nat /\ items \in Int /\ w.latched \in Records
        /\ w.latched.gen <= request.gen
    BY DEF DInv, SharedTypes, WorkerTypes, Bounds
  <1>4. request' \in Records /\ request'.gen \in Nat /\ request'.gen = request.gen + 1
    BY <1>3 DEF Records
  <1>5. SharedTypes'
    BY <1>2, <1>4 DEF DInv, SharedTypes, Makes
  <1>6. WorkerTypes' /\ PlanOK' /\ FrameOK' /\ StopOK' /\ P' = P /\ P \in Pipes /\ w' = w
        /\ \A p : (Coming(p)' <=> Coming(p)) /\ (Resyncing(p)' <=> Resyncing(p))
    BY <1>1, GuiFrame DEF GuiKeeps
  <1>7. SwitchOK' /\ RequestOK' /\ SyncedOK'
    BY <1>1, GuiSwitch, GuiRequest, GuiSynced
  <1>8. w.latched.gen <= request'.gen /\ w.latched.gen # request'.gen
    BY <1>3, <1>4 DEF Records
  <1>9. Bounds'
    BY <1>1, <1>6, <1>8 DEF DInv, Bounds, GuiKeeps
  <1>10. ASSUME NEW p \in Pipes
         PROVE  (\/ pipe[p].plan.roi = Roi(p, request)
                 \/ Owed(p) \/ Resyncing(p)
                 \/ Coming(p) /\ w.latched.gen # request.gen)'
    <2>1. CASE part = "size" \/ p # "preview"
      <3>1. Has(todo', p, "ZOOMED")
        BY <1>2, <2>1 DEF Covers
      <3>2. Owed(p)'
        BY <3>1, MakesFacts DEF Owed, Flags
      <3> QED
        BY <3>2
    <2>2. CASE part = "zoom" /\ p = "preview"
      <3>1. Roi(p, request') = Roi(p, request)
        <4>1. request'.size = request.size
          BY <2>2
        <4> QED
          BY <2>2, <4>1 DEF Roi
      <3>2. Owed(p) => Owed(p)'
        BY <1>1, GuiOwed
      <3> QED
        BY <1>1, <1>6, <1>8, <3>1, <3>2 DEF DInv, RoiOK, GuiKeeps
    <2> QED
      BY <2>1, <2>2
  <1>11. RoiOK'
    BY <1>10 DEF RoiOK
  <1> QED
    BY <1>2, <1>5, <1>6, <1>7, <1>9, <1>11 DEF DInv

\* The two halves of a request for a line, which is flagged after them.
LEMMA SlotMade ==
  ASSUME DInv, NEW c \in Consumers, NEW o \in {<<"module", c>>, <<"kind", c>>}, Makes(o),
         \/ slot' = [slot EXCEPT ![TargetPipe[c]].module = ModuleOf(c)]
         \/ slot' = [slot EXCEPT ![TargetPipe[c]].kind = KindOf(c)],
         UNCHANGED <<items, devHash, request, changed, shutdown, Excused>>
  PROVE  DInv'
  <1>1. GuiKeeps
    <2>1. o[1] # "flag"
      OBVIOUS
    <2> QED
      BY <2>1, MakesKeeps
  <1>2. CallsBacked' /\ todo' \in Seq(Ops) /\ Has(todo, TargetPipe[c], "CACHE_REQUEST")'
    BY MakesFacts DEF Covers
  <1>3. /\ TargetPipe[c] \in Pipes /\ ModuleOf(c) \in 0..Depth /\ KindOf(c) \in Kinds
        /\ slot \in [Pipes -> [kind : Kinds, module : 0..Depth]]
    BY DarkroomAssumption DEF ModuleOf, KindOf, Kinds, NULL, DInv, SharedTypes
  <1>4. /\ slot' \in [Pipes -> [kind : Kinds, module : 0..Depth]]
        /\ \A p \in Pipes : p # TargetPipe[c] => slot'[p] = slot[p]
    <2> HIDE DEF ModuleOf, KindOf, Kinds
    <2> QED
      BY <1>3
  <1>5. SharedTypes'
    BY <1>2, <1>4 DEF DInv, SharedTypes, Makes
  <1>6. Owed(TargetPipe[c])'
    BY <1>2 DEF Owed, Flags
  <1>7. WorkerTypes' /\ PlanOK' /\ FrameOK' /\ StopOK'
    BY <1>1, GuiFrame
  <1>8. SwitchOK' /\ Bounds' /\ SyncedOK' /\ RoiOK'
    BY <1>1, GuiSwitch, GuiBounds, GuiSynced, GuiRoi
  <1>9. RequestOK'
    BY <1>1, <1>4, <1>6, GuiRequest
  <1> QED
    BY <1>2, <1>5, <1>7, <1>8, <1>9 DEF DInv

\* A poll ends, or asks for the line and flags the pipe.
LEMMA PeekMade ==
  ASSUME DInv, NEW c \in Consumers, NEW h, todo # <<>>, Head(todo) = <<"peek", c, h>>, Peek(c, h),
         UNCHANGED <<pipe, backbuf, w>>
  PROVE  DInv'
  <1>1. todo \in Seq(Ops) /\ AllBacked(todo)
    BY DEF DInv, SharedTypes, CallsBacked, AllBacked
  <1>2. Tail(todo) \in Seq(Ops) /\ AllBacked(Tail(todo))
    BY <1>1, TailFacts, BackedTail
  <1>3. todo' = Tail(todo) \/ todo' = RequestLine(c) \o Tail(todo)
    BY DEF Peek
  <1>4. UNCHANGED <<items, devHash, request, changed, shutdown, slot, Excused>>
    BY DEF Peek, devVars, Excused
  <1>5. ASSUME NEW p \in Pipes, NEW f \in Flags, Has(todo, p, f) PROVE Has(Tail(todo), p, f)
    <2>1. Head(todo) # <<"flag", p, f>>
      OBVIOUS
    <2> QED
      BY <1>1, <1>5, <2>1, HasTail
  <1>6. RequestLine(c) \in Seq(Ops) /\ AllBacked(RequestLine(c))
    BY LineFacts
  <1>7. todo' \in Seq(Ops) /\ AllBacked(todo')
    BY <1>2, <1>3, <1>6, BackedAfter, ConcatFacts
  <1>8. ASSUME NEW p \in Pipes, NEW f \in Flags, Has(todo, p, f) PROVE Has(todo', p, f)
    BY <1>2, <1>3, <1>5, <1>6, <1>8, HasConcat
  <1>9. \A p \in Pipes : \A f \in Flags : Has(todo, p, f) => Has(todo, p, f)'
    BY <1>8 DEF Has
  <1> QED
    BY <1>4, <1>7, <1>9, GuiQuiet

\* Every access of a call.
LEMMA GuiStepKeeps == DInv /\ GuiStep => DInv'
  <1> SUFFICES ASSUME DInv, GuiStep PROVE DInv'
    OBVIOUS
  <1> DEFINE arg == Head(todo)
  <1>0. todo # <<>> /\ UNCHANGED <<pipe, backbuf, w>>
    BY DEF GuiStep, Idle
  <1>1. arg \in Ops
    BY <1>0, TailFacts DEF DInv, SharedTypes
  <1> USE DEF devVars, ghosts
  <1>2. CASE /\ arg[1] = "flag"
             /\ changed' = [changed EXCEPT ![arg[2]] = @ \cup {arg[3]}]
             /\ late' = IF arg[3] = "CACHE_REQUEST" THEN late ELSE late \ {arg[2]}
             /\ todo' = Tail(todo)
             /\ UNCHANGED <<devVars, shutdown, slot, wait, subscribed, mode, unread, lost, failed>>
    <2>1. PICK p \in Pipes, f \in Flags : arg = <<"flag", p, f>>
      BY <1>1, <1>2, OpShape
    <2>2. arg[2] = p /\ arg[3] = f
      BY <2>1
    <2>3. Makes(<<"flag", p, f>>)
      BY <1>0, <1>2, <2>1 DEF Makes
    <2> HIDE DEF arg
    <2>4. changed' = [changed EXCEPT ![p] = @ \cup {f}] /\ (late' = late \/ late' = late \ {p})
      BY <1>2, <2>2
    <2> QED
      BY <1>2, <2>3, <2>4, FlagMade
  <1>3. CASE /\ arg[1] = "switch"
             /\ shutdown' = [shutdown EXCEPT ![arg[2]] = TRUE]
             /\ late' = IF arg[3] # "none" /\ Unflagged(arg[2], arg[3]) /\ Running(arg[2])
                        THEN late \cup {arg[2]} ELSE late
             /\ todo' = Tail(todo)
             /\ UNCHANGED <<devVars, changed, slot, wait, subscribed, mode, unread, lost, failed>>
    <2>1. PICK p \in Pipes, f \in Flags \cup {"none", "pause"} : arg = <<"switch", p, f>>
      BY <1>1, <1>3, OpShape
    <2>2. arg[2] = p /\ arg[3] = f
      BY <2>1
    <2>3. Makes(<<"switch", p, f>>)
      BY <1>0, <1>3, <2>1 DEF Makes
    <2> HIDE DEF arg
    <2>4. /\ shutdown' = [shutdown EXCEPT ![p] = TRUE]
          /\ late' = IF f # "none" /\ Unflagged(p, f) /\ Running(p) THEN late \cup {p} ELSE late
      BY <1>3, <2>2
    <2> QED
      BY <1>3, <2>3, <2>4, SwitchMade
  <1>4. CASE /\ arg[1] = "items" /\ items' = items + 1 /\ todo' = Tail(todo)
             /\ UNCHANGED <<devHash, request, paused, changed, shutdown, slot, wait, subscribed,
                            mode, ghosts>>
    <2>1. Makes(<<"items">>)
      BY <1>0, <1>1, <1>4, OpShape DEF Makes
    <2> QED
      BY <1>4, <2>1, ItemsMade DEF Excused
  <1>5. CASE /\ arg[1] = "hash" /\ devHash' = items /\ todo' = Tail(todo)
             /\ UNCHANGED <<items, request, paused, changed, shutdown, slot, wait, subscribed,
                            mode, ghosts>>
    <2>1. Makes(<<"hash">>)
      BY <1>0, <1>1, <1>5, OpShape DEF Makes
    <2> QED
      BY <1>5, <2>1, HashMade DEF Excused
  <1>6. CASE /\ arg[1] = "request"
             /\ request' = [gen |-> request.gen + 1,
                            size |-> IF arg[2] = "size" THEN items ELSE request.size,
                            zoom |-> IF arg[2] = "zoom" THEN request.zoom + 1 ELSE request.zoom]
             /\ todo' = Tail(todo)
             /\ UNCHANGED <<items, devHash, paused, changed, shutdown, slot, wait, subscribed,
                            mode, ghosts>>
    <2>1. PICK part \in {"size", "zoom"} : arg = <<"request", part>>
      BY <1>1, <1>6, OpShape
    <2>2. arg[2] = part
      BY <2>1
    <2>3. Makes(<<"request", part>>)
      BY <1>0, <1>6, <2>1 DEF Makes
    <2> HIDE DEF arg
    <2>4. request' = [gen |-> request.gen + 1,
                      size |-> IF part = "size" THEN items ELSE request.size,
                      zoom |-> IF part = "zoom" THEN request.zoom + 1 ELSE request.zoom]
      BY <1>6, <2>2
    <2> QED
      BY <1>6, <2>3, <2>4, RequestMade DEF Excused
  <1>7. CASE arg[1] = "peek" /\ Peek(arg[2], arg[3])
    <2>1. PICK c \in Consumers, h \in [pos : Nat, plan : Plans] : arg = <<"peek", c, h>>
      BY <1>1, <1>7, OpShape
    <2>2. arg[2] = c /\ arg[3] = h
      BY <2>1
    <2>3. Peek(c, h)
      BY <1>7, <2>2
    <2> QED
      BY <1>0, <2>1, <2>3, PeekMade
  <1>8. CASE /\ arg[1] = "module"
             /\ slot' = [slot EXCEPT ![TargetPipe[arg[2]]].module = ModuleOf(arg[2])]
             /\ todo' = Tail(todo)
             /\ UNCHANGED <<devVars, changed, shutdown, wait, subscribed, mode, late, failed>>
    <2>1. PICK c \in Consumers : arg = <<"module", c>>
      BY <1>1, <1>8, OpShape
    <2>2. arg[2] = c
      BY <2>1
    <2>3. Makes(<<"module", c>>)
      BY <1>0, <1>8, <2>1 DEF Makes
    <2> HIDE DEF arg
    <2>4. slot' = [slot EXCEPT ![TargetPipe[c]].module = ModuleOf(c)]
      BY <1>8, <2>2
    <2> QED
      BY <1>8, <2>3, <2>4, SlotMade DEF Excused
  <1>9. CASE /\ arg[1] = "kind"
             /\ slot' = [slot EXCEPT ![TargetPipe[arg[2]]].kind = KindOf(arg[2])]
             /\ todo' = Tail(todo)
             /\ UNCHANGED <<devVars, changed, shutdown, wait, subscribed, mode, ghosts>>
    <2>1. PICK c \in Consumers : arg = <<"kind", c>>
      BY <1>1, <1>9, OpShape
    <2>2. arg[2] = c
      BY <2>1
    <2>3. Makes(<<"kind", c>>)
      BY <1>0, <1>9, <2>1 DEF Makes
    <2> HIDE DEF arg
    <2>4. slot' = [slot EXCEPT ![TargetPipe[c]].kind = KindOf(c)]
      BY <1>9, <2>2
    <2> QED
      BY <1>9, <2>3, <2>4, SlotMade DEF Excused
  <1>10. CASE /\ arg[1] = "pause" /\ todo' = Tail(todo)
              /\ UNCHANGED <<items, devHash, request, changed, shutdown, slot, wait, subscribed,
                             mode, ghosts>>
    <2>1. Makes(<<"pause">>)
      BY <1>0, <1>1, <1>10, OpShape DEF Makes
    <2> QED
      BY <1>10, <2>1, PauseMade DEF Excused
  <1> QED
    BY <1>2, <1>3, <1>4, <1>5, <1>6, <1>7, <1>8, <1>9, <1>10 DEF GuiStep
-----------------------------------------------------------------------------
(***************************************************************************)
(* The theorems.                                                           *)
(***************************************************************************)
\* Every pipe begins flagged.
LEMMA InitDInv == Init => DInv
  <1> SUFFICES ASSUME Init PROVE DInv
    OBVIOUS
  <1>0. Len(Order) \in Nat /\ Len(Order) >= 1 /\ Depth \in Nat
    BY DarkroomAssumption, LenProperties, EmptySeq
  <1>1. SharedTypes
    <2>1. NoPlan \in Plans
      BY DEF NoPlan, Plans
    <2>2. 0 \in 0..Depth /\ "NONE" \in Kinds /\ {"SYNCH"} \subseteq Flags
      BY <1>0 DEF Kinds, Flags
    <2>3. /\ pipe \in [Pipes -> [synced : Int, hash : Int, plan : Plans]]
          /\ backbuf \in [Pipes -> [plan : Plans, hash : Int]]
      BY <2>1 DEF Init
    <2>4. slot \in [Pipes -> [kind : Kinds, module : 0..Depth]]
      BY <2>2 DEF Init, NULL
    <2>5. changed \in [Pipes -> SUBSET Flags] /\ shutdown \in [Pipes -> BOOLEAN]
      BY <2>2 DEF Init
    <2> QED
      BY <2>3, <2>4, <2>5, EmptyCall DEF Init, SharedTypes, Records
  <1>2. WorkerTypes
    BY <1>0 DEF Init, WorkerTypes, Stages, Records, NoRequest
  <1>3. CallsBacked
    BY DEF Init, CallsBacked
  <1>4. Bounds
    BY DEF Init, Bounds, NoRequest
  <1>5. \A p \in Pipes : Owed(p) /\ "SYNCH" \in changed[p]
    BY DEF Init, Owed
  <1>6. SyncedOK /\ RoiOK /\ FrameOK
    BY <1>5 DEF SyncedOK, RoiOK, FrameOK
  <1>7. PlanOK
    BY DEF Init, PlanOK, NoPlan
  <1>8. SwitchOK /\ RequestOK /\ StopOK
    BY DEF Init, SwitchOK, RequestOK, StopOK
  <1> QED
    BY <1>1, <1>2, <1>3, <1>4, <1>6, <1>7, <1>8 DEF DInv

\* The invariant is inductive.
LEMMA NextDInv == DInv /\ [Next]_vars => DInv'
  <1> SUFFICES ASSUME DInv, [Next]_vars PROVE DInv'
    OBVIOUS
  <1>1. CASE Worker
    BY <1>1, LatchKeeps, CheckKeeps, SyncKeeps, PlanKeeps, ResyncedKeeps, StaleKeeps, ResetKeeps,
       LoopKindKeeps, GetKindKeeps, GetModuleKeeps, ClearKeeps, ExactKeeps, ModuleKeeps, KeptKeeps,
       PublishKeeps, FinishKeeps, ProcessedKeeps, ContinueKeeps, FlagKeeps DEF Worker
  <1>2. CASE Evict
    BY <1>2, OthersKeep DEF Evict, devVars, guiVars, ghosts, Excused
  <1>3. CASE Gui
    <2>1. CASE Commit \/ Zoom \/ Pause \/ GuiStep
      BY <2>1, CommitKeeps, ZoomKeeps, PauseKeeps, GuiStepKeeps
    <2>2. CASE Ready
      <3>1. UNCHANGED <<items, devHash, request, changed, shutdown, slot, pipe, backbuf, w, todo, Excused>>
        BY <2>2 DEF Ready, devVars, ghosts, Excused
      <3> QED
        BY <3>1, OthersKeep
    <2>3. ASSUME NEW c \in Consumers, Poll(c) PROVE DInv'
      BY <2>3, PollKeeps
    <2>4. ASSUME NEW c \in Consumers, Cancel(c) PROVE DInv'
      BY <2>4, OthersKeep DEF Cancel, devVars, Excused
    <2> QED
      BY <1>3, <2>1, <2>2, <2>3, <2>4 DEF Gui
  <1>4. CASE UNCHANGED vars
    BY <1>4, OthersKeep DEF vars, Excused
  <1> QED
    BY <1>1, <1>2, <1>3, <1>4 DEF Next

\* Theorem: every reachable state of the darkroom's loop satisfies the inductive invariant: each
\* difference between the history, the viewport, the plan and the frame of a pipe is owed by a
\* flag, by a call in progress or by where the worker is (dt_dev_darkroom_pipeline, _change_pipe).
THEOREM DarkroomInvariant == Spec => []DInv
  BY InitDInv, NextDInv, PTL DEF Spec

\* Theorem: a pipe that has come to rest shows the newest history in the newest region, whatever
\* the interleaving of edits, viewport moves, polls and pauses with the loop, unless a module of its
\* last run failed (pixelpipe_hb.c:1203, develop.c:779), or its run met a switch whose flag had been
\* consumed or that came without one (dev_pixelpipe.c:213, layers.c:466).
THEOREM RestIsNewest == Spec => []SettledIsNewest
  <1>1. DInv => SettledIsNewest
    <2> SUFFICES ASSUME DInv, NEW p \in Pipes, Settled(p), p \notin Excused PROVE Shown(p)
      BY DEF SettledIsNewest, Excused
    <2>1. todo = <<>> /\ w.pc = "latch" /\ changed[p] = {} /\ pipe[p].hash = devHash
      BY DEF Settled, Idle, WorkerAt
    <2>2. \A f : ~Has(todo, p, f)
      BY <2>1 DEF Has
    <2>3. ~Owed(p) /\ ~Coming(p) /\ ~InRun(p) /\ ~Resyncing(p)
      BY <2>1, <2>2 DEF Owed, Coming, InRun, Resyncing
    <2>4. pipe[p].synced = items
      BY <2>1, <2>2 DEF DInv, SyncedOK
    <2>5. pipe[p].plan.hist = items
      BY <2>3, <2>4 DEF DInv, PlanOK
    <2>6. pipe[p].plan.roi = Roi(p, request)
      BY <2>3 DEF DInv, RoiOK
    <2>7. pipe[p].plan \in Plans /\ items \in Nat
      BY DEF DInv, SharedTypes
    <2>8. pipe[p].plan = [hist |-> items, roi |-> Roi(p, request)] /\ pipe[p].plan # NoPlan
      <3>1. pipe[p].plan = [hist |-> items, roi |-> Roi(p, request)]
        BY <2>5, <2>6, <2>7 DEF Plans
      <3>2. NoPlan.hist = -1
        BY DEF NoPlan
      <3> QED
        BY <2>5, <2>7, <3>1, <3>2
    <2>9. backbuf[p] = Frame(p)
      BY <2>3 DEF DInv, FrameOK
    <2>10. backbuf[p].plan = pipe[p].plan /\ backbuf[p].hash = devHash
      BY <2>1, <2>9 DEF Frame
    <2> QED
      BY <2>8, <2>10 DEF Shown, BackbufValid
  <1> QED
    BY <1>1, DarkroomInvariant, PTL
=============================================================================
