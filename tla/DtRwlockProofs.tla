--------------------------- MODULE DtRwlockProofs ---------------------------
(***************************************************************************)
(* The lock of dtpthread.h excludes, for any number of threads, as long as *)
(* no thread nests or only one thread ever writes.                         *)
(***************************************************************************)
EXTENDS DtRwlock, TLAPS, SequenceTheorems

\* What the callers must respect: with two writers that nest, the exclusion fails.
SafeUse == MaxNesting = 1 \/ \A t, u \in Writers : t = u

\* The write side of the pthread lock excludes the read side, and only writers hold it.
WriteSideOK ==
    /\ wrHolder # NULL => wrHolder \in Writers /\ \A u \in Threads : rdHolds[u] = 0
    /\ writer # NULL => writer \in Writers

\* Where a thread is in a call agrees with what it holds.
CallOK ==
    \A t \in Threads :
        /\ pc[t] \in {"setWriter", "setDepth"} => wrHolder = t
        /\ pc[t] # "idle" => owed[t] = <<>>
        /\ wrHolder = t => pc[t] \in {"idle", "setWriter", "setDepth"}

\* The writer field names the thread that writes, or one that is busy setting or
\* clearing it.
RecordOK ==
    \A t \in Threads :
        /\ Writing(t) => writer = t
        /\ pc[t] = "setDepth" => writer = t
        /\ writer = t /\ pc[t] = "idle" => Writing(t)
        /\ writer = t => pc[t] # "setWriter"
        /\ pc[t] # "idle" => t \in Writers

\* The depth counts the locks of the writing thread.
DepthOK ==
    /\ MaxNesting = 1 => writer_depth <= 1
    /\ MaxNesting # 1 => \A t \in Threads : Writing(t) => writer_depth = Len(owed[t])
    /\ \A t \in Threads : Len(owed[t]) <= MaxNesting

IInv == TypeOK /\ WriteSideOK /\ CallOK /\ RecordOK /\ DepthOK /\ HoldsMatchOwed

\* What adding to and taking from the list of owed unlocks does.
LEMMA OweLemma ==
    ASSUME NEW S, NEW s \in Seq(S), NEW m \in S
    PROVE  /\ Append(s, m) \in Seq(S)
           /\ Len(Append(s, m)) = Len(s) + 1
           /\ Append(s, m) # <<>>
           /\ s # <<>> => Append(s, m)[1] = s[1]
           /\ s = <<>> => Append(s, m)[1] = m
  <1>1. /\ Append(s, m) \in Seq(S) /\ Append(s, m) # <<>>
        /\ Len(Append(s, m)) = Len(s) + 1
        /\ \A i \in 1..Len(s) : Append(s, m)[i] = s[i]
        /\ Append(s, m)[Len(s) + 1] = m
    BY AppendProperties
  <1>2. Len(s) \in Nat /\ (s # <<>> => Len(s) > 0) /\ (s = <<>> => Len(s) = 0)
    BY EmptySeq, LenProperties
  <1>3. s # <<>> => Append(s, m)[1] = s[1]
    BY <1>1, <1>2
  <1>4. s = <<>> => Append(s, m)[1] = m
    BY <1>1, <1>2
  <1> QED
    BY <1>1, <1>3, <1>4

\* What a thread owes after an unlock: the first lock stays the first.
LEMMA PayLemma ==
    ASSUME NEW S, NEW s \in Seq(S), s # <<>>
    PROVE  /\ SubSeq(s, 1, Len(s) - 1) \in Seq(S)
           /\ Len(SubSeq(s, 1, Len(s) - 1)) = Len(s) - 1
           /\ SubSeq(s, 1, Len(s) - 1) # <<>> => SubSeq(s, 1, Len(s) - 1)[1] = s[1]
           /\ SubSeq(s, 1, Len(s) - 1) = <<>> <=> Len(s) = 1
           /\ Len(s) \in Nat \ {0}
  <1> DEFINE n == Len(s) - 1
             p == SubSeq(s, 1, n)
  <1>1. Len(s) \in Nat \ {0} /\ \A i \in 1..Len(s) : s[i] \in S
    BY EmptySeq, LenProperties
  <1>2. n \in Nat /\ \A i \in 1..n : s[i] \in S
    BY <1>1
  <1> HIDE DEF n
  <1>3. /\ p \in Seq(S)
        /\ Len(p) = IF 1 <= n THEN n - 1 + 1 ELSE 0
        /\ \A i \in 1..(n - 1 + 1) : p[i] = s[1 + i - 1]
    BY <1>2, SubSeqProperties
  <1> HIDE DEF p
  <1>4. Len(p) = n /\ (n >= 1 => p[1] = s[1])
    BY <1>2, <1>3
  <1>5. p = <<>> <=> n = 0
    BY <1>2, <1>3, <1>4, EmptySeq
  <1> QED
    BY <1>1, <1>2, <1>3, <1>4, <1>5 DEF n, p

\* The initial state satisfies the invariant.
LEMMA InitInv == Init => IInv
  <1> SUFFICES ASSUME Init PROVE IInv
    OBVIOUS
  <1> USE RwlockAssumption
  <1>1. \A t \in Threads : owed[t] = <<>> /\ Len(owed[t]) = 0 /\ ~Writing(t)
    BY EmptySeq DEF Init, Writing
  <1> QED
    BY <1>1, EmptySeq DEF Init, IInv, TypeOK, WriteSideOK, CallOK, RecordOK, DepthOK, HoldsMatchOwed

\* The writing thread locks again.
LEMMA LockAgainStep ==
    ASSUME SafeUse, IInv, NEW t \in Threads, LockAgain(t)
    PROVE  IInv'
  <1> USE RwlockAssumption
  <1>1. /\ owed' \in [Threads -> Seq({"r", "w"})]
        /\ \A u \in Threads \ {t} : owed'[u] = owed[u]
        /\ Len(owed'[t]) = Len(owed[t]) + 1
        /\ owed'[t] # <<>>
        /\ (Writing(t))' <=> Writing(t)
    <2>1. PICK m \in {"r", "w"} : owed' = [owed EXCEPT ![t] = Append(@, m)]
      BY DEF LockAgain, Owe
    <2>2. owed \in [Threads -> Seq({"r", "w"})] /\ owed[t] # <<>>
      BY DEF IInv, TypeOK, RecordOK, LockAgain, MayLock, IsRecordedWriter, Writing
    <2> QED
      BY <2>1, <2>2, OweLemma DEF Writing
  <1>2. \A u \in Threads \ {t} : (Writing(u))' <=> Writing(u)
    BY <1>1 DEF Writing
  <1>3. \A u \in Threads : Len(owed[u]) \in Nat
    BY DEF IInv, TypeOK
  <1>4. /\ writer \in Threads \cup {NULL} /\ writer_depth \in Nat
        /\ wrHolder \in Threads \cup {NULL} /\ rdHolds \in [Threads -> Nat]
        /\ pc \in [Threads -> {"idle", "setWriter", "setDepth", "zeroDepth", "clearWriter"}]
        /\ WriteSideOK /\ CallOK /\ RecordOK /\ DepthOK /\ HoldsMatchOwed
    BY DEF IInv, TypeOK
  <1>11. Len(owed[t]) >= 1
    BY <1>4, EmptySeq DEF IInv, TypeOK, RecordOK, LockAgain, MayLock, IsRecordedWriter, Writing
  <1>5. TypeOK'
    BY <1>1, <1>2, <1>3, <1>4, <1>11 DEF TypeOK, WriteSideOK, CallOK, RecordOK, HoldsMatchOwed, LockAgain, MayLock, IsRecordedWriter, SafeUse
  <1>6. WriteSideOK'
    BY <1>1, <1>2, <1>3, <1>4, <1>11 DEF WriteSideOK, CallOK, RecordOK, HoldsMatchOwed, LockAgain, MayLock, IsRecordedWriter, SafeUse
  <1>7. CallOK'
    BY <1>1, <1>2, <1>3, <1>4, <1>11 DEF WriteSideOK, CallOK, RecordOK, HoldsMatchOwed, LockAgain, MayLock, IsRecordedWriter, SafeUse
  <1>8. RecordOK'
    BY <1>1, <1>2, <1>3, <1>4, <1>11 DEF WriteSideOK, CallOK, RecordOK, HoldsMatchOwed, LockAgain, MayLock, IsRecordedWriter, SafeUse
  <1>9. DepthOK'
    <2>1. MaxNesting = 1 => writer_depth' <= 1
      BY <1>1, <1>2, <1>3, <1>4, <1>11 DEF CallOK, RecordOK, DepthOK, HoldsMatchOwed, LockAgain, MayLock, IsRecordedWriter, SafeUse
    <2>2. ASSUME NEW u \in Threads PROVE Len(owed'[u]) <= MaxNesting
      <3>1. CASE u = t
        BY <1>1, <1>3, <1>4, <3>1 DEF DepthOK, LockAgain, MayLock
      <3>2. CASE u # t
        BY <1>1, <1>4, <3>2 DEF DepthOK
      <3> QED
        BY <3>1, <3>2
    <2>3. ASSUME MaxNesting # 1, NEW u \in Threads, (Writing(u))'
          PROVE  writer_depth' = Len(owed'[u])
      <3>1. CASE u = t
        BY <1>1, <1>2, <1>3, <1>4, <1>11, <2>3, <3>1 DEF CallOK, RecordOK, DepthOK, HoldsMatchOwed, LockAgain, MayLock, IsRecordedWriter, SafeUse
      <3>2. CASE u # t
        <4>1. Writing(u) /\ owed'[u] = owed[u]
          BY <1>1, <1>2, <2>3, <3>2
        <4> QED
          BY <1>1, <1>2, <1>3, <1>4, <1>11, <2>3, <3>2, <4>1 DEF CallOK, RecordOK, DepthOK, HoldsMatchOwed, LockAgain, MayLock, IsRecordedWriter, SafeUse
      <3> QED
        BY <3>1, <3>2
    <2> QED
      BY <2>1, <2>2, <2>3 DEF DepthOK
  <1>10. HoldsMatchOwed'
    BY <1>1, <1>2, <1>3, <1>4, <1>11 DEF WriteSideOK, CallOK, RecordOK, DepthOK, HoldsMatchOwed, LockAgain, MayLock, IsRecordedWriter, SafeUse
  <1> QED
    BY <1>5, <1>6, <1>7, <1>8, <1>9, <1>10 DEF IInv

\* A reader gets the lock.
LEMMA RdLockStep ==
    ASSUME SafeUse, IInv, NEW t \in Threads, RdLock(t)
    PROVE  IInv'
  <1> USE RwlockAssumption
  <1>1. /\ owed' \in [Threads -> Seq({"r", "w"})]
        /\ \A u \in Threads \ {t} : owed'[u] = owed[u]
        /\ Len(owed'[t]) = Len(owed[t]) + 1
        /\ owed'[t] # <<>>
        /\ (Writing(t))' <=> Writing(t)
    <2>1. PICK m \in {"r", "w"} : owed' = [owed EXCEPT ![t] = Append(@, m)] /\ m = "r"
      BY DEF RdLock, Owe
    <2>2. owed \in [Threads -> Seq({"r", "w"})]
      BY DEF IInv, TypeOK
    <2> QED
      BY <2>1, <2>2, OweLemma DEF Writing
  <1>2. \A u \in Threads \ {t} : (Writing(u))' <=> Writing(u)
    BY <1>1 DEF Writing
  <1>3. \A u \in Threads : Len(owed[u]) \in Nat
    BY DEF IInv, TypeOK
  <1>4. /\ writer \in Threads \cup {NULL} /\ writer_depth \in Nat
        /\ wrHolder \in Threads \cup {NULL} /\ rdHolds \in [Threads -> Nat]
        /\ pc \in [Threads -> {"idle", "setWriter", "setDepth", "zeroDepth", "clearWriter"}]
        /\ WriteSideOK /\ CallOK /\ RecordOK /\ DepthOK /\ HoldsMatchOwed
    BY DEF IInv, TypeOK
  <1>5. TypeOK'
    BY <1>1, <1>2, <1>3, <1>4 DEF TypeOK, WriteSideOK, CallOK, RecordOK, HoldsMatchOwed, RdLock, MayLock, IsRecordedWriter, SafeUse
  <1>6. WriteSideOK'
    BY <1>1, <1>2, <1>3, <1>4 DEF WriteSideOK, CallOK, RecordOK, HoldsMatchOwed, RdLock, MayLock, IsRecordedWriter, SafeUse
  <1>7. CallOK'
    BY <1>1, <1>2, <1>3, <1>4 DEF WriteSideOK, CallOK, RecordOK, HoldsMatchOwed, RdLock, MayLock, IsRecordedWriter, SafeUse
  <1>8. RecordOK'
    BY <1>1, <1>2, <1>3, <1>4 DEF WriteSideOK, CallOK, RecordOK, HoldsMatchOwed, RdLock, MayLock, IsRecordedWriter, SafeUse
  <1>9. DepthOK'
    <2>1. MaxNesting = 1 => writer_depth' <= 1
      BY <1>1, <1>2, <1>3, <1>4 DEF CallOK, RecordOK, DepthOK, HoldsMatchOwed, RdLock, MayLock, IsRecordedWriter, SafeUse
    <2>2. ASSUME NEW u \in Threads PROVE Len(owed'[u]) <= MaxNesting
      <3>1. CASE u = t
        BY <1>1, <1>3, <1>4, <3>1 DEF DepthOK, RdLock, MayLock
      <3>2. CASE u # t
        BY <1>1, <1>4, <3>2 DEF DepthOK
      <3> QED
        BY <3>1, <3>2
    <2>3. ASSUME MaxNesting # 1, NEW u \in Threads, (Writing(u))'
          PROVE  writer_depth' = Len(owed'[u])
      <3>1. CASE u = t
        BY <1>1, <1>2, <1>3, <1>4, <2>3, <3>1 DEF CallOK, RecordOK, DepthOK, HoldsMatchOwed, RdLock, MayLock, IsRecordedWriter, SafeUse
      <3>2. CASE u # t
        <4>1. Writing(u) /\ owed'[u] = owed[u]
          BY <1>1, <1>2, <2>3, <3>2
        <4> QED
          BY <1>1, <1>2, <1>3, <1>4, <2>3, <3>2, <4>1 DEF CallOK, RecordOK, DepthOK, HoldsMatchOwed, RdLock, MayLock, IsRecordedWriter, SafeUse
      <3> QED
        BY <3>1, <3>2
    <2> QED
      BY <2>1, <2>2, <2>3 DEF DepthOK
  <1>10. HoldsMatchOwed'
    BY <1>1, <1>2, <1>3, <1>4 DEF WriteSideOK, CallOK, RecordOK, DepthOK, HoldsMatchOwed, RdLock, MayLock, IsRecordedWriter, SafeUse
  <1> QED
    BY <1>5, <1>6, <1>7, <1>8, <1>9, <1>10 DEF IInv

\* A writer gets the pthread lock.
LEMMA WrLockStep ==
    ASSUME SafeUse, IInv, NEW t \in Threads, WrLock(t)
    PROVE  IInv'
  <1> USE RwlockAssumption
  <1>1. \A u \in Threads : (Writing(u))' <=> Writing(u)
    BY DEF WrLock, Writing
  <1> QED
    BY <1>1 DEF IInv, TypeOK, WriteSideOK, CallOK, RecordOK, DepthOK, HoldsMatchOwed, WrLock, MayLock, IsRecordedWriter, SafeUse

\* It records itself as the writer.
LEMMA SetWriterStep ==
    ASSUME SafeUse, IInv, NEW t \in Threads, SetWriter(t)
    PROVE  IInv'
  <1> USE RwlockAssumption
  <1>1. \A u \in Threads : (Writing(u))' <=> Writing(u)
    BY DEF SetWriter, Writing
  <1> QED
    BY <1>1 DEF IInv, TypeOK, WriteSideOK, CallOK, RecordOK, DepthOK, HoldsMatchOwed, SetWriter, SafeUse

\* It sets the depth and returns to its caller.
LEMMA SetDepthStep ==
    ASSUME SafeUse, IInv, NEW t \in Threads, SetDepth(t)
    PROVE  IInv'
  <1> USE RwlockAssumption
  <1>1. /\ owed' \in [Threads -> Seq({"r", "w"})]
        /\ \A u \in Threads \ {t} : owed'[u] = owed[u]
        /\ Len(owed'[t]) = Len(owed[t]) + 1
        /\ owed'[t] # <<>>
        /\ (Writing(t))' <=> TRUE
    <2>1. PICK m \in {"r", "w"} : owed' = [owed EXCEPT ![t] = Append(@, m)] /\ m = "w"
      BY DEF SetDepth, Owe
    <2>2. owed \in [Threads -> Seq({"r", "w"})] /\ owed[t] = <<>>
      BY DEF IInv, TypeOK, CallOK, SetDepth
    <2> QED
      BY <2>1, <2>2, OweLemma DEF Writing
  <1>2. \A u \in Threads \ {t} : (Writing(u))' <=> Writing(u)
    BY <1>1 DEF Writing
  <1>3. \A u \in Threads : Len(owed[u]) \in Nat
    BY DEF IInv, TypeOK
  <1>4. /\ writer \in Threads \cup {NULL} /\ writer_depth \in Nat
        /\ wrHolder \in Threads \cup {NULL} /\ rdHolds \in [Threads -> Nat]
        /\ pc \in [Threads -> {"idle", "setWriter", "setDepth", "zeroDepth", "clearWriter"}]
        /\ WriteSideOK /\ CallOK /\ RecordOK /\ DepthOK /\ HoldsMatchOwed
    BY DEF IInv, TypeOK
  <1>11. Len(owed[t]) = 0
    BY <1>4, EmptySeq DEF CallOK, SetDepth
  <1>5. TypeOK'
    BY <1>1, <1>2, <1>3, EmptySeq, <1>4, <1>11 DEF TypeOK, WriteSideOK, CallOK, RecordOK, HoldsMatchOwed, SetDepth, SafeUse
  <1>6. WriteSideOK'
    BY <1>1, <1>2, <1>3, EmptySeq, <1>4, <1>11 DEF WriteSideOK, CallOK, RecordOK, HoldsMatchOwed, SetDepth, SafeUse
  <1>7. CallOK'
    BY <1>1, <1>2, <1>3, EmptySeq, <1>4, <1>11 DEF WriteSideOK, CallOK, RecordOK, HoldsMatchOwed, SetDepth, SafeUse
  <1>8. RecordOK'
    BY <1>1, <1>2, <1>3, EmptySeq, <1>4, <1>11 DEF WriteSideOK, CallOK, RecordOK, HoldsMatchOwed, SetDepth, SafeUse
  <1>9. DepthOK'
    <2>1. MaxNesting = 1 => writer_depth' <= 1
      BY <1>1, <1>2, <1>3, EmptySeq, <1>4, <1>11 DEF CallOK, RecordOK, DepthOK, HoldsMatchOwed, SetDepth, SafeUse
    <2>2. ASSUME NEW u \in Threads PROVE Len(owed'[u]) <= MaxNesting
      <3>1. CASE u = t
        <4>1. MaxNesting \in Nat /\ MaxNesting >= 1
          BY RwlockAssumption
        <4>2. Len(owed'[t]) = 1
          BY <1>1, <1>11
        <4> QED
          BY <3>1, <4>1, <4>2
      <3>2. CASE u # t
        BY <1>1, <1>4, <3>2 DEF DepthOK
      <3> QED
        BY <3>1, <3>2
    <2>3. ASSUME MaxNesting # 1, NEW u \in Threads, (Writing(u))'
          PROVE  writer_depth' = Len(owed'[u])
      <3>1. CASE u = t
        BY <1>1, <1>2, <1>3, EmptySeq, <1>4, <1>11, <2>3, <3>1 DEF CallOK, RecordOK, DepthOK, HoldsMatchOwed, SetDepth, SafeUse
      <3>2. CASE u # t
        <4>1. Writing(u) /\ owed'[u] = owed[u]
          BY <1>1, <1>2, <2>3, <3>2
        <4> QED
          BY <1>1, <1>2, <1>3, EmptySeq, <1>4, <1>11, <2>3, <3>2, <4>1 DEF CallOK, RecordOK, DepthOK, HoldsMatchOwed, SetDepth, SafeUse
      <3> QED
        BY <3>1, <3>2
    <2> QED
      BY <2>1, <2>2, <2>3 DEF DepthOK
  <1>10. HoldsMatchOwed'
    BY <1>1, <1>2, <1>3, EmptySeq, <1>4, <1>11 DEF WriteSideOK, CallOK, RecordOK, DepthOK, HoldsMatchOwed, SetDepth, SafeUse
  <1> QED
    BY <1>5, <1>6, <1>7, <1>8, <1>9, <1>10 DEF IInv

\* The unlock of an inner level.
LEMMA UnlockInnerStep ==
    ASSUME SafeUse, IInv, NEW t \in Threads, UnlockInner(t)
    PROVE  IInv'
  <1> USE RwlockAssumption
  <1>1. /\ owed' \in [Threads -> Seq({"r", "w"})]
        /\ \A u \in Threads \ {t} : owed'[u] = owed[u]
        /\ Len(owed'[t]) = Len(owed[t]) - 1
        /\ Len(owed[t]) \in Nat \ {0}
        /\ owed'[t] = <<>> <=> Len(owed[t]) = 1
        /\ (Writing(t))' <=> Writing(t) /\ Len(owed[t]) > 1
    <2>1. owed' = [owed EXCEPT ![t] = SubSeq(@, 1, Len(@) - 1)] /\ owed[t] # <<>>
      BY DEF UnlockInner, MayUnlock, Pay
    <2>2. owed \in [Threads -> Seq({"r", "w"})]
      BY DEF IInv, TypeOK
    <2> QED
      BY <2>1, <2>2, PayLemma DEF Writing
  <1>2. \A u \in Threads \ {t} : (Writing(u))' <=> Writing(u)
    BY <1>1 DEF Writing
  <1>3. \A u \in Threads : Len(owed[u]) \in Nat
    BY DEF IInv, TypeOK
  <1>4. /\ writer \in Threads \cup {NULL} /\ writer_depth \in Nat
        /\ wrHolder \in Threads \cup {NULL} /\ rdHolds \in [Threads -> Nat]
        /\ pc \in [Threads -> {"idle", "setWriter", "setDepth", "zeroDepth", "clearWriter"}]
        /\ WriteSideOK /\ CallOK /\ RecordOK /\ DepthOK /\ HoldsMatchOwed
    BY DEF IInv, TypeOK
  <1>11. Writing(t) /\ Len(owed[t]) > 1
    BY <1>3, <1>4 DEF RecordOK, DepthOK, UnlockInner, MayUnlock, IsNested
  <1>5. TypeOK'
    BY <1>1, <1>2, <1>3, <1>4, <1>11 DEF TypeOK, WriteSideOK, CallOK, RecordOK, HoldsMatchOwed, UnlockInner, MayUnlock, IsNested, SafeUse
  <1>6. WriteSideOK'
    BY <1>1, <1>2, <1>3, <1>4, <1>11 DEF WriteSideOK, CallOK, RecordOK, HoldsMatchOwed, UnlockInner, MayUnlock, IsNested, SafeUse
  <1>7. CallOK'
    BY <1>1, <1>2, <1>3, <1>4, <1>11 DEF WriteSideOK, CallOK, RecordOK, HoldsMatchOwed, UnlockInner, MayUnlock, IsNested, SafeUse
  <1>8. RecordOK'
    BY <1>1, <1>2, <1>3, <1>4, <1>11 DEF WriteSideOK, CallOK, RecordOK, HoldsMatchOwed, UnlockInner, MayUnlock, IsNested, SafeUse
  <1>9. DepthOK'
    <2>1. MaxNesting = 1 => writer_depth' <= 1
      BY <1>1, <1>2, <1>3, <1>4, <1>11 DEF CallOK, RecordOK, DepthOK, HoldsMatchOwed, UnlockInner, MayUnlock, IsNested, SafeUse
    <2>2. ASSUME NEW u \in Threads PROVE Len(owed'[u]) <= MaxNesting
      <3>1. CASE u = t
        BY <1>1, <1>3, <1>4, <3>1 DEF DepthOK
      <3>2. CASE u # t
        BY <1>1, <1>4, <3>2 DEF DepthOK
      <3> QED
        BY <3>1, <3>2
    <2>3. ASSUME MaxNesting # 1, NEW u \in Threads, (Writing(u))'
          PROVE  writer_depth' = Len(owed'[u])
      <3>1. CASE u = t
        BY <1>1, <1>2, <1>3, <1>4, <1>11, <2>3, <3>1 DEF CallOK, RecordOK, DepthOK, HoldsMatchOwed, UnlockInner, MayUnlock, IsNested, SafeUse
      <3>2. CASE u # t
        <4>1. Writing(u) /\ owed'[u] = owed[u]
          BY <1>1, <1>2, <2>3, <3>2
        <4> QED
          BY <1>1, <1>2, <1>3, <1>4, <1>11, <2>3, <3>2, <4>1 DEF CallOK, RecordOK, DepthOK, HoldsMatchOwed, UnlockInner, MayUnlock, IsNested, SafeUse
      <3> QED
        BY <3>1, <3>2
    <2> QED
      BY <2>1, <2>2, <2>3 DEF DepthOK
  <1>10. HoldsMatchOwed'
    BY <1>1, <1>2, <1>3, <1>4, <1>11 DEF WriteSideOK, CallOK, RecordOK, DepthOK, HoldsMatchOwed, UnlockInner, MayUnlock, IsNested, SafeUse
  <1> QED
    BY <1>5, <1>6, <1>7, <1>8, <1>9, <1>10 DEF IInv

\* The unlock of the outermost level.
LEMMA UnlockOuterStep ==
    ASSUME SafeUse, IInv, NEW t \in Threads, UnlockOuter(t)
    PROVE  IInv'
  <1> USE RwlockAssumption
  <1>1. /\ owed' \in [Threads -> Seq({"r", "w"})]
        /\ \A u \in Threads \ {t} : owed'[u] = owed[u]
        /\ Len(owed'[t]) = Len(owed[t]) - 1
        /\ Len(owed[t]) \in Nat \ {0}
        /\ owed'[t] = <<>> <=> Len(owed[t]) = 1
        /\ (Writing(t))' <=> Writing(t) /\ Len(owed[t]) > 1
    <2>1. owed' = [owed EXCEPT ![t] = SubSeq(@, 1, Len(@) - 1)] /\ owed[t] # <<>>
      BY DEF UnlockOuter, MayUnlock, Pay
    <2>2. owed \in [Threads -> Seq({"r", "w"})]
      BY DEF IInv, TypeOK
    <2> QED
      BY <2>1, <2>2, PayLemma DEF Writing
  <1>2. \A u \in Threads \ {t} : (Writing(u))' <=> Writing(u)
    BY <1>1 DEF Writing
  <1>3. \A u \in Threads : Len(owed[u]) \in Nat
    BY DEF IInv, TypeOK
  <1>4. /\ writer \in Threads \cup {NULL} /\ writer_depth \in Nat
        /\ wrHolder \in Threads \cup {NULL} /\ rdHolds \in [Threads -> Nat]
        /\ pc \in [Threads -> {"idle", "setWriter", "setDepth", "zeroDepth", "clearWriter"}]
        /\ WriteSideOK /\ CallOK /\ RecordOK /\ DepthOK /\ HoldsMatchOwed
    BY DEF IInv, TypeOK
  <1>11. Writing(t) \/ writer = t => Len(owed[t]) = 1 /\ Writing(t) /\ writer = t
    BY <1>1, <1>3, <1>4 DEF RecordOK, DepthOK, UnlockOuter, MayUnlock, IsNested
  <1>5. TypeOK'
    BY <1>1, <1>2, <1>3, <1>4, <1>11 DEF TypeOK, WriteSideOK, CallOK, RecordOK, HoldsMatchOwed, UnlockOuter, MayUnlock, IsNested, SafeUse
  <1>6. WriteSideOK'
    BY <1>1, <1>2, <1>3, <1>4, <1>11 DEF WriteSideOK, CallOK, RecordOK, HoldsMatchOwed, UnlockOuter, MayUnlock, IsNested, SafeUse
  <1>7. CallOK'
    BY <1>1, <1>2, <1>3, <1>4, <1>11 DEF WriteSideOK, CallOK, RecordOK, HoldsMatchOwed, UnlockOuter, MayUnlock, IsNested, SafeUse
  <1>8. RecordOK'
    BY <1>1, <1>2, <1>3, <1>4, <1>11 DEF WriteSideOK, CallOK, RecordOK, HoldsMatchOwed, UnlockOuter, MayUnlock, IsNested, SafeUse
  <1>9. DepthOK'
    <2>1. MaxNesting = 1 => writer_depth' <= 1
      BY <1>1, <1>2, <1>3, <1>4, <1>11 DEF CallOK, RecordOK, DepthOK, HoldsMatchOwed, UnlockOuter, MayUnlock, IsNested, SafeUse
    <2>2. ASSUME NEW u \in Threads PROVE Len(owed'[u]) <= MaxNesting
      <3>1. CASE u = t
        BY <1>1, <1>3, <1>4, <3>1 DEF DepthOK
      <3>2. CASE u # t
        BY <1>1, <1>4, <3>2 DEF DepthOK
      <3> QED
        BY <3>1, <3>2
    <2>3. ASSUME MaxNesting # 1, NEW u \in Threads, (Writing(u))'
          PROVE  writer_depth' = Len(owed'[u])
      <3>1. CASE u = t
        BY <1>1, <1>2, <1>3, <1>4, <1>11, <2>3, <3>1 DEF CallOK, RecordOK, DepthOK, HoldsMatchOwed, UnlockOuter, MayUnlock, IsNested, SafeUse
      <3>2. CASE u # t
        <4>1. Writing(u) /\ owed'[u] = owed[u]
          BY <1>1, <1>2, <2>3, <3>2
        <4> QED
          BY <1>1, <1>2, <1>3, <1>4, <1>11, <2>3, <3>2, <4>1 DEF CallOK, RecordOK, DepthOK, HoldsMatchOwed, UnlockOuter, MayUnlock, IsNested, SafeUse
      <3> QED
        BY <3>1, <3>2
    <2> QED
      BY <2>1, <2>2, <2>3 DEF DepthOK
  <1>10. HoldsMatchOwed'
    BY <1>1, <1>2, <1>3, <1>4, <1>11 DEF WriteSideOK, CallOK, RecordOK, DepthOK, HoldsMatchOwed, UnlockOuter, MayUnlock, IsNested, SafeUse
  <1> QED
    BY <1>5, <1>6, <1>7, <1>8, <1>9, <1>10 DEF IInv

\* The depth is reset after the pthread lock was released.
LEMMA ZeroDepthStep ==
    ASSUME SafeUse, IInv, NEW t \in Threads, ZeroDepth(t)
    PROVE  IInv'
  <1> USE RwlockAssumption
  <1>1. \A u \in Threads : (Writing(u))' <=> Writing(u)
    BY DEF ZeroDepth, Writing
  <1> QED
    BY <1>1 DEF IInv, TypeOK, WriteSideOK, CallOK, RecordOK, DepthOK, HoldsMatchOwed, ZeroDepth, SafeUse

\* The record of the writer is cleared.
LEMMA ClearWriterStep ==
    ASSUME SafeUse, IInv, NEW t \in Threads, ClearWriter(t)
    PROVE  IInv'
  <1> USE RwlockAssumption
  <1>1. \A u \in Threads : (Writing(u))' <=> Writing(u)
    BY DEF ClearWriter, Writing
  <1> QED
    BY <1>1 DEF IInv, TypeOK, WriteSideOK, CallOK, RecordOK, DepthOK, HoldsMatchOwed, ClearWriter, SafeUse

\* Every step keeps the invariant.
LEMMA NextInv ==
    ASSUME SafeUse, IInv, [Next]_vars
    PROVE  IInv'
  <1>1. CASE UNCHANGED vars
    BY <1>1 DEF vars, IInv, TypeOK, WriteSideOK, CallOK, RecordOK, DepthOK, HoldsMatchOwed, Writing
  <1>2. ASSUME NEW t \in Threads, Step(t) PROVE IInv'
    BY <1>2, LockAgainStep, RdLockStep, WrLockStep, SetWriterStep, SetDepthStep,
       UnlockInnerStep, UnlockOuterStep, ZeroDepthStep, ClearWriterStep DEF Step
  <1> QED
    BY <1>1, <1>2 DEF Next

\* dt_pthread_rwlock_t excludes, for any number of threads, when no thread locks twice
\* or only one thread writes: a writing thread is alone until its last unlock.
THEOREM SafeUseExcludes ==
    ASSUME SafeUse
    PROVE  Spec => []Exclusion
  <1>1. Init => IInv
    BY InitInv
  <1>2. IInv /\ [Next]_vars => IInv'
    BY NextInv
  <1>3. IInv => Exclusion
    <2> SUFFICES ASSUME IInv, NEW t \in Threads, NEW u \in Threads, t # u, Writing(t)
                 PROVE  owed[u] = <<>>
      BY DEF Exclusion
    <2>1. wrHolder = t /\ rdHolds[u] = 0
      BY RwlockAssumption DEF IInv, HoldsMatchOwed, WriteSideOK, TypeOK
    <2>2. ~Writing(u)
      BY <2>1 DEF IInv, HoldsMatchOwed
    <2>3. Len(owed[u]) = 0 /\ owed[u] \in Seq({"r", "w"})
      BY <2>1, <2>2 DEF IInv, HoldsMatchOwed, TypeOK
    <2> QED
      BY <2>3, EmptySeq
  <1> QED
    BY <1>1, <1>2, <1>3, PTL DEF Spec

\* Under the same condition the lock's bookkeeping is right: a thread holds the pthread
\* lock exactly while it owes an unlock, so no unlock is lost or done twice.
THEOREM SafeUseBalances ==
    ASSUME SafeUse
    PROVE  Spec => []HoldsMatchOwed
  <1>1. Init => IInv
    BY InitInv
  <1>2. IInv /\ [Next]_vars => IInv'
    BY NextInv
  <1>3. IInv => HoldsMatchOwed
    BY DEF IInv
  <1> QED
    BY <1>1, <1>2, <1>3, PTL DEF Spec
============================================================================
