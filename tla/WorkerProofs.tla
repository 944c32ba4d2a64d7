---------------------------- MODULE WorkerProofs ----------------------------
(***************************************************************************)
(* What every worker relies on, for any number of threads, buffers, sizes  *)
(* and descriptors: the read-write lock is sound (a writer has it alone,   *)
(* and no wake-up is lost), a packet buffer is in one place at a time and  *)
(* none is lost, a walk of the poll set serves every descriptor once       *)
(* although the handlers change the set, and the lines of a client reach   *)
(* its handler whole, in order and once.                                   *)
(***************************************************************************)
EXTENDS RWLock, PbufPools, PollSet, ClientInput, FiniteSetTheorems,
        WellFoundedInduction, TLAPS

-----------------------------------------------------------------------------
(***************************************************************************)
(* The read-write lock.                                                    *)
(***************************************************************************)
(* The threads that p puts at one of the places of S. *)
Placed(p, S) == {t \in Thread : p[t] \in S}

(* Threads are finitely many, wherever they are, and none is counted as 0. *)
LEMMA PlacedFinite ==
    ASSUME NEW p, NEW S
    PROVE  /\ IsFiniteSet(Placed(p, S))
           /\ Cardinality(Placed(p, S)) \in Nat
           /\ Cardinality(Placed(p, S)) = 0 <=> \A t \in Thread : p[t] \notin S
<1>1. Placed(p, S) \in SUBSET Thread
  BY ZenonT(30) DEF Placed
<1>2. IsFiniteSet(Placed(p, S))
  BY ZenonT(30), <1>1, ThreadAssumption, FS_Subset
<1>3. Cardinality(Placed(p, S)) \in Nat
  BY ZenonT(30), <1>2, FS_CardinalityType
<1>4. Cardinality(Placed(p, S)) = 0 <=> Placed(p, S) = {}
  BY ZenonT(30), <1>2, FS_EmptySet
<1>5. Placed(p, S) = {} <=> \A t \in Thread : p[t] \notin S
  BY ZenonT(30) DEF Placed
<1>6. QED
  BY ZenonT(30), <1>2, <1>3, <1>4, <1>5

Count(p, S) == Cardinality(Placed(p, S))

(* The count n of the threads in S after one of them moved from u to v. *)
Recount(n, u, v, S) ==
    IF v \in S /\ u \notin S THEN n + 1 ELSE IF v \notin S /\ u \in S THEN n - 1 ELSE n

Moved(p, t, v) == [p EXCEPT ![t] = v]

(* What the move of one thread does to the count. *)
LEMMA Move ==
    \A p \in [Thread -> PCs] : \A t \in Thread : \A v, S :
      Count(Moved(p, t, v), S) = Recount(Count(p, S), p[t], v, S)
<1> SUFFICES ASSUME NEW p \in [Thread -> PCs], NEW t \in Thread, NEW v, NEW S
             PROVE  Count(Moved(p, t, v), S) = Recount(Count(p, S), p[t], v, S)
  BY ZenonT(30)
<1> DEFINE q == Moved(p, t, v)
<1>1. IsFiniteSet(Placed(p, S)) /\ Cardinality(Placed(p, S)) \in Nat
  BY ZenonT(30), PlacedFinite
<1>2. t \in Placed(p, S) <=> p[t] \in S
  BY ZenonT(30) DEF Placed
<1>3. ASSUME v \in S, p[t] \notin S
      PROVE  Count(q, S) = Count(p, S) + 1
  <2>1. Placed(q, S) = Placed(p, S) \cup {t}
    BY ZenonT(30), <1>3 DEF Placed, Moved
  <2>2. Cardinality(Placed(p, S) \cup {t}) = IF t \in Placed(p, S) THEN Cardinality(Placed(p, S))
                                             ELSE Cardinality(Placed(p, S)) + 1
    BY ZenonT(30), <1>1, FS_AddElement
  <2>3. QED
    BY ZenonT(30), <1>2, <1>3, <2>1, <2>2 DEF Count
<1>4. ASSUME v \notin S, p[t] \in S
      PROVE  Count(q, S) = Count(p, S) - 1
  <2>1. Placed(q, S) = Placed(p, S) \ {t}
    BY ZenonT(30), <1>4 DEF Placed, Moved
  <2>2. Cardinality(Placed(p, S) \ {t}) = IF t \in Placed(p, S) THEN Cardinality(Placed(p, S)) - 1
                                          ELSE Cardinality(Placed(p, S))
    BY ZenonT(30), <1>1, FS_RemoveElement
  <2>3. QED
    BY ZenonT(30), <1>2, <1>4, <2>1, <2>2 DEF Count
<1>5. ASSUME v \in S <=> p[t] \in S
      PROVE  Count(q, S) = Count(p, S)
  <2>1. Placed(q, S) = Placed(p, S)
    BY ZenonT(30), <1>5 DEF Placed, Moved
  <2>2. QED
    BY ZenonT(30), <2>1 DEF Count
<1>6. QED
  BY ZenonT(30), <1>3, <1>4, <1>5 DEF Recount

(* The three groups of threads that the lock counts. *)
Readers == {"reading"}
WaitingReaders == {"rsleep", "rwoken"}
WaitingWriters == {"wsleep", "wwoken"}

(* Who may be where, thread by thread. *)
Places ==
    /\ \A t \in Thread : pc[t] = "writing" => w_active
    /\ w_active => \E t \in Thread : pc[t] = "writing"
    /\ \A t, u \in Thread : pc[t] = "writing" /\ pc[u] \in {"reading", "writing"} => t = u
    /\ \A t \in Thread : pc[t] = "rsleep" => w_active

(* A writer that sleeps on a lock that nobody has is not alone. *)
Awake ==
    (\A t \in Thread : pc[t] \notin {"reading", "writing"}) /\ (\E t \in Thread : pc[t] = "wsleep")
      => \E t \in Thread : pc[t] \in {"rwoken", "wwoken"}

(* The inductive invariant.  The counters are needed because the code      *)
(* decides by them whom it wakes.                                          *)
LockInv == LockTypeOK /\ Places /\ Awake

(* The counters tell whether there is somebody to count. *)
LEMMA CountsTell ==
    ASSUME LockTypeOK
    PROVE  /\ r_active \in Nat /\ r_wait \in Nat /\ w_wait \in Nat
           /\ r_active = 0 <=> \A t \in Thread : pc[t] # "reading"
           /\ r_wait = 0 <=> \A t \in Thread : pc[t] \notin WaitingReaders
           /\ w_wait = 0 <=> \A t \in Thread : pc[t] \notin WaitingWriters
<1>1. /\ r_active = Cardinality(Placed(pc, Readers))
      /\ r_wait = Cardinality(Placed(pc, WaitingReaders))
      /\ w_wait = Cardinality(Placed(pc, WaitingWriters))
  BY ZenonT(30) DEF LockTypeOK, At, Placed, Readers, WaitingReaders, WaitingWriters
<1>2. /\ r_active \in Nat
      /\ r_active = 0 <=> \A t \in Thread : pc[t] \notin Readers
  BY ZenonT(30), <1>1, PlacedFinite
<1>3. /\ r_wait \in Nat
      /\ r_wait = 0 <=> \A t \in Thread : pc[t] \notin WaitingReaders
  BY ZenonT(30), <1>1, PlacedFinite
<1>4. /\ w_wait \in Nat
      /\ w_wait = 0 <=> \A t \in Thread : pc[t] \notin WaitingWriters
  BY ZenonT(30), <1>1, PlacedFinite
<1>5. QED
  BY ZenonT(30), <1>2, <1>3, <1>4 DEF Readers

(* A step that moves one thread to v, and that counts it right, keeps the  *)
(* counters right.                                                         *)
LEMMA MoveCounts ==
    ASSUME LockTypeOK, NEW t \in Thread, NEW v \in PCs,
           pc' = Moved(pc, t, v),
           w_active' \in BOOLEAN, valid' \in BOOLEAN,
           r_active' = Recount(r_active, pc[t], v, Readers),
           r_wait' = Recount(r_wait, pc[t], v, WaitingReaders),
           w_wait' = Recount(w_wait, pc[t], v, WaitingWriters)
    PROVE  LockTypeOK'
<1>1. pc \in [Thread -> PCs] /\ pc' \in [Thread -> PCs]
  BY ZenonT(30) DEF LockTypeOK, Moved
<1>2. /\ r_active = Count(pc, Readers)
      /\ r_wait = Count(pc, WaitingReaders)
      /\ w_wait = Count(pc, WaitingWriters)
  BY ZenonT(30) DEF LockTypeOK, At, Placed, Readers, WaitingReaders, WaitingWriters, Count
<1>3. Count(Moved(pc, t, v), Readers) = Recount(Count(pc, Readers), pc[t], v, Readers)
  BY SMTT(30), <1>1, Move
<1>4. Count(Moved(pc, t, v), WaitingReaders) = Recount(Count(pc, WaitingReaders), pc[t], v, WaitingReaders)
  BY SMTT(30), <1>1, Move
<1>5. Count(Moved(pc, t, v), WaitingWriters) = Recount(Count(pc, WaitingWriters), pc[t], v, WaitingWriters)
  BY SMTT(30), <1>1, Move
<1>6. /\ r_active' = Count(pc', Readers)
      /\ r_wait' = Count(pc', WaitingReaders)
      /\ w_wait' = Count(pc', WaitingWriters)
  BY ZenonT(30), <1>2, <1>3, <1>4, <1>5
<1>7. QED
  BY ZenonT(30), <1>1, <1>6 DEF LockTypeOK, At, Placed, Readers, WaitingReaders, WaitingWriters, Count

(* Initially nobody uses the lock. *)
LEMMA LockInvInit == LockInit => LockInv
<1> SUFFICES ASSUME LockInit PROVE LockInv
  BY ZenonT(30)
<1>1. \A t \in Thread : pc[t] = "idle"
  BY ZenonT(30) DEF LockInit
<1>2. Places /\ Awake
  BY ZenonT(30), <1>1 DEF Places, Awake, LockInit
<1>3. /\ Cardinality(Placed(pc, Readers)) = 0
      /\ Cardinality(Placed(pc, WaitingReaders)) = 0
      /\ Cardinality(Placed(pc, WaitingWriters)) = 0
  BY ZenonT(30), <1>1, PlacedFinite DEF Readers, WaitingReaders, WaitingWriters
<1>4. pc \in [Thread -> PCs] /\ w_active \in BOOLEAN /\ valid \in BOOLEAN
  BY ZenonT(30) DEF LockInit, PCs
<1>5. LockTypeOK
  BY ZenonT(30), <1>3, <1>4 DEF LockTypeOK, LockInit, At, Placed, Readers, WaitingReaders, WaitingWriters
<1>6. QED
  BY ZenonT(30), <1>2, <1>5 DEF LockInv

(* Waking threads moves them inside the group of those that wait. *)
LEMMA WakeCounts ==
    ASSUME NEW p \in [Thread -> PCs], SignalWrite(p) \/ BroadcastRead(p)
    PROVE  /\ pc' \in [Thread -> PCs]
           /\ Placed(pc', Readers) = Placed(p, Readers)
           /\ Placed(pc', WaitingReaders) = Placed(p, WaitingReaders)
           /\ Placed(pc', WaitingWriters) = Placed(p, WaitingWriters)
<1>1. CASE SignalWrite(p)
  <2>1. pc' \in [Thread -> PCs]
    BY ZenonT(30), <1>1 DEF SignalWrite, PCs
  <2>2. \A u \in Thread : pc'[u] = p[u] \/ (p[u] = "wsleep" /\ pc'[u] = "wwoken")
    BY ZenonT(30), <1>1 DEF SignalWrite
  <2>3. QED
    BY ZenonT(30), <2>1, <2>2 DEF Placed, Readers, WaitingReaders, WaitingWriters
<1>2. CASE BroadcastRead(p)
  <2>1. pc' \in [Thread -> PCs]
    BY ZenonT(30), <1>2 DEF BroadcastRead, PCs
  <2>2. \A u \in Thread : pc'[u] = p[u] \/ (p[u] = "rsleep" /\ pc'[u] = "rwoken")
    BY ZenonT(30), <1>2 DEF BroadcastRead
  <2>3. QED
    BY ZenonT(30), <2>1, <2>2 DEF Placed, Readers, WaitingReaders, WaitingWriters
<1>3. QED
  BY ZenonT(30), <1>1, <1>2

(* Every action on the lock moves the thread that takes it, and perhaps    *)
(* wakes others.  The counters follow.                                     *)
LEMMA TypeNext ==
    ASSUME LockTypeOK, NEW t \in Thread, Ask(t) \/ GoOn(t) \/ Destroy(t) \/ Spurious(t)
    PROVE  LockTypeOK'
<1> USE DEF PCs, Readers, WaitingReaders, WaitingWriters, Recount, ReadLock, WriteLock, Moved
<1>1. pc \in [Thread -> PCs] /\ w_active \in BOOLEAN /\ valid \in BOOLEAN
  BY ZenonT(30) DEF LockTypeOK
<1>2. ASSUME RdLock(t) \/ TryRdLock(t) \/ RdWoken(t) PROVE LockTypeOK'
  <2>1. \E v \in {"reading", "rsleep"} :
          /\ pc' = Moved(pc, t, v)
          /\ r_active' = Recount(r_active, pc[t], v, Readers)
          /\ r_wait' = Recount(r_wait, pc[t], v, WaitingReaders)
          /\ w_wait' = Recount(w_wait, pc[t], v, WaitingWriters)
    BY ZenonT(30), <1>2 DEF RdLock, TryRdLock, RdWoken
  <2>2. w_active' = w_active /\ valid' = valid
    BY ZenonT(30), <1>2 DEF RdLock, TryRdLock, RdWoken
  <2>3. QED
    BY ZenonT(30), <1>1, <2>1, <2>2, MoveCounts
<1>3. ASSUME WrLock(t) \/ TryWrLock(t) \/ WrWoken(t) PROVE LockTypeOK'
  <2>1. \E v \in {"writing", "wsleep"} :
          /\ pc' = Moved(pc, t, v)
          /\ r_active' = Recount(r_active, pc[t], v, Readers)
          /\ r_wait' = Recount(r_wait, pc[t], v, WaitingReaders)
          /\ w_wait' = Recount(w_wait, pc[t], v, WaitingWriters)
    BY ZenonT(30), <1>3 DEF WrLock, TryWrLock, WrWoken
  <2>2. w_active' \in BOOLEAN /\ valid' = valid
    BY ZenonT(30), <1>1, <1>3 DEF WrLock, TryWrLock, WrWoken
  <2>3. QED
    BY ZenonT(30), <1>1, <2>1, <2>2, MoveCounts
<1>4. ASSUME Destroy(t) PROVE LockTypeOK'
  BY ZenonT(30), <1>4 DEF Destroy, LockTypeOK, At
<1>5. ASSUME Spurious(t) PROVE LockTypeOK'
  <2>1. \E v \in {"rwoken", "wwoken"} :
          /\ pc' = Moved(pc, t, v)
          /\ r_active' = Recount(r_active, pc[t], v, Readers)
          /\ r_wait' = Recount(r_wait, pc[t], v, WaitingReaders)
          /\ w_wait' = Recount(w_wait, pc[t], v, WaitingWriters)
    BY ZenonT(30), <1>5 DEF Spurious
  <2>2. w_active' = w_active /\ valid' = valid
    BY ZenonT(30), <1>5 DEF Spurious
  <2>3. QED
    BY ZenonT(30), <1>1, <2>1, <2>2, MoveCounts
<1>6. ASSUME RdUnlock(t) \/ WrUnlock(t) PROVE LockTypeOK'
  <2> DEFINE p == Moved(pc, t, "idle")
  <2>1. p \in [Thread -> PCs]
    BY ZenonT(30), <1>1 DEF Moved
  <2>2. pc' = p \/ SignalWrite(p) \/ BroadcastRead(p)
    BY ZenonT(30), <1>6 DEF RdUnlock, WrUnlock, Moved
  <2>3. /\ pc' \in [Thread -> PCs]
        /\ Placed(pc', Readers) = Placed(p, Readers)
        /\ Placed(pc', WaitingReaders) = Placed(p, WaitingReaders)
        /\ Placed(pc', WaitingWriters) = Placed(p, WaitingWriters)
    <3>1. CASE pc' = p
      BY ZenonT(30), <2>1, <3>1
    <3>2. CASE SignalWrite(p) \/ BroadcastRead(p)
      BY ZenonT(30), <2>1, <3>2, WakeCounts
    <3>3. QED
      BY ZenonT(30), <2>2, <3>1, <3>2
  <2>4. /\ r_active' = Recount(r_active, pc[t], "idle", Readers)
        /\ r_wait' = Recount(r_wait, pc[t], "idle", WaitingReaders)
        /\ w_wait' = Recount(w_wait, pc[t], "idle", WaitingWriters)
        /\ w_active' \in BOOLEAN /\ valid' \in BOOLEAN
    BY ZenonT(30), <1>1, <1>6 DEF RdUnlock, WrUnlock
  <2>5. /\ r_active = Count(pc, Readers)
        /\ r_wait = Count(pc, WaitingReaders)
        /\ w_wait = Count(pc, WaitingWriters)
    BY ZenonT(30) DEF LockTypeOK, At, Placed, Count
  <2> HIDE DEF Readers, WaitingReaders, WaitingWriters, Recount, Moved
  <2>6. Count(p, Readers) = Recount(Count(pc, Readers), pc[t], "idle", Readers)
    BY ZenonT(30), <1>1, Move
  <2>7. Count(p, WaitingReaders) = Recount(Count(pc, WaitingReaders), pc[t], "idle", WaitingReaders)
    BY ZenonT(30), <1>1, Move
  <2>8. Count(p, WaitingWriters) = Recount(Count(pc, WaitingWriters), pc[t], "idle", WaitingWriters)
    BY ZenonT(30), <1>1, Move
  <2>9. /\ r_active' = Cardinality(Placed(pc', Readers))
        /\ r_wait' = Cardinality(Placed(pc', WaitingReaders))
        /\ w_wait' = Cardinality(Placed(pc', WaitingWriters))
    BY ZenonT(30), <2>3, <2>4, <2>5, <2>6, <2>7, <2>8 DEF Count
  <2>10. QED
    BY ZenonT(30), <2>3, <2>4, <2>9 DEF LockTypeOK, At, Placed, Readers, WaitingReaders, WaitingWriters
<1>7. QED
  BY ZenonT(30), <1>2, <1>3, <1>4, <1>5, <1>6 DEF Ask, GoOn

(* What an unlock does to the places of the threads, and whom it wakes. *)
LEMMA UnlockPlaces ==
    ASSUME LockInv, NEW t \in Thread, RdUnlock(t) \/ WrUnlock(t)
    PROVE  Places' /\ Awake'
<1>1. pc \in [Thread -> PCs] /\ w_active \in BOOLEAN
  BY ZenonT(30) DEF LockInv, LockTypeOK
<1>2. /\ r_active \in Nat /\ r_wait \in Nat /\ w_wait \in Nat
      /\ r_active = 0 <=> \A u \in Thread : pc[u] # "reading"
      /\ r_wait = 0 <=> \A u \in Thread : pc[u] \notin {"rsleep", "rwoken"}
      /\ w_wait = 0 <=> \A u \in Thread : pc[u] \notin {"wsleep", "wwoken"}
  BY ZenonT(30), CountsTell DEF LockInv, WaitingReaders, WaitingWriters
<1> DEFINE p == [pc EXCEPT ![t] = "idle"]
<1>3. p \in [Thread -> PCs] /\ p[t] = "idle" /\ \A u \in Thread : u # t => p[u] = pc[u]
  BY ZenonT(30), <1>1 DEF PCs
<1>4. CASE RdUnlock(t)
  <2>1. pc[t] = "reading" /\ w_active' = w_active
    BY ZenonT(30), <1>4 DEF RdUnlock
  <2>2. ~w_active
    BY ZenonT(30), <2>1 DEF LockInv, Places
  <2>3. \A u \in Thread : pc[u] # "writing" /\ pc[u] # "rsleep"
    BY ZenonT(30), <2>2 DEF LockInv, Places
  <2>4. pc' = p \/ SignalWrite(p)
    BY ZenonT(30), <1>4 DEF RdUnlock
  <2>5. \A u \in Thread : pc'[u] = p[u] \/ (p[u] = "wsleep" /\ pc'[u] = "wwoken")
    BY ZenonT(30), <1>3, <2>4 DEF SignalWrite
  <2>6. Places'
    BY ZenonT(30), <1>3, <2>1, <2>2, <2>3, <2>5 DEF Places
  <2>7. CASE r_active = 1 /\ w_wait > 0
    <3>1. SignalWrite(p)
      BY ZenonT(30), <1>4, <2>7 DEF RdUnlock
    <3>2. (\A u \in Thread : pc'[u] # "wsleep") \/ \E u \in Thread : pc'[u] = "wwoken"
      BY ZenonT(30), <1>3, <3>1 DEF SignalWrite
    <3>3. QED
      BY ZenonT(30), <2>6, <3>2 DEF Awake
  <2>8. CASE r_active # 1 /\ r_active > 0
    <3>1. r_active' # 0
      BY SMTT(30), <1>2, <1>4, <2>8 DEF RdUnlock
    <3>2. LockTypeOK'
      BY ZenonT(30), <1>4, TypeNext DEF LockInv, GoOn
    <3>3. ~ \A u \in Thread : pc'[u] # "reading"
      <4>1. r_active' = Cardinality(Placed(pc', Readers))
        BY ZenonT(30), <3>2 DEF LockTypeOK, At, Placed, Readers
      <4>2. QED
        BY ZenonT(30), <3>1, <4>1, PlacedFinite DEF Readers
    <3>4. QED
      BY ZenonT(30), <2>6, <3>3 DEF Awake
  <2>9. CASE w_wait = 0
    <3>1. \A u \in Thread : pc'[u] # "wsleep"
      BY ZenonT(30), <1>2, <1>3, <2>5, <2>9
    <3>2. QED
      BY ZenonT(30), <2>6, <3>1 DEF Awake
  <2>10. r_active > 0
    BY SMTT(30), <1>2, <2>1
  <2>11. QED
    BY SMTT(30), <1>2, <2>7, <2>8, <2>9, <2>10
<1>5. CASE WrUnlock(t)
  <2>1. pc[t] = "writing" /\ w_active' = FALSE
    BY ZenonT(30), <1>5 DEF WrUnlock
  <2>2. \A u \in Thread : pc[u] \in {"reading", "writing"} => u = t
    BY ZenonT(30), <2>1 DEF LockInv, Places
  <2>3. CASE r_wait > 0
    <3>1. \A u \in Thread : pc'[u] = IF p[u] = "rsleep" THEN "rwoken" ELSE p[u]
      BY ZenonT(30), <1>5, <2>3 DEF WrUnlock, BroadcastRead
    <3>2. Places'
      BY ZenonT(30), <1>3, <2>1, <2>2, <3>1 DEF Places
    <3>3. PICK u \in Thread : pc[u] \in {"rsleep", "rwoken"}
      BY SMTT(30), <1>2, <2>3
    <3>4. pc'[u] = "rwoken"
      BY ZenonT(30), <1>3, <2>1, <3>1, <3>3
    <3>5. QED
      BY ZenonT(30), <3>2, <3>4 DEF Awake
  <2>4. CASE r_wait = 0
    <3>1. \A u \in Thread : pc[u] # "rsleep"
      BY ZenonT(30), <1>2, <2>4
    <3>2. pc' = p \/ SignalWrite(p)
      BY SMTT(30), <1>5, <2>4 DEF WrUnlock
    <3>3. \A u \in Thread : pc'[u] = p[u] \/ (p[u] = "wsleep" /\ pc'[u] = "wwoken")
      BY ZenonT(30), <1>3, <3>2 DEF SignalWrite
    <3>4. Places'
      BY ZenonT(30), <1>3, <2>1, <2>2, <3>1, <3>3 DEF Places
    <3>5. (\A u \in Thread : pc'[u] # "wsleep") \/ \E u \in Thread : pc'[u] = "wwoken"
      <4>1. CASE w_wait > 0
        <5>1. SignalWrite(p)
          BY SMTT(30), <1>5, <2>4, <4>1 DEF WrUnlock
        <5>2. QED
          BY ZenonT(30), <1>3, <5>1 DEF SignalWrite
      <4>2. CASE w_wait = 0
        BY ZenonT(30), <1>2, <1>3, <3>3, <4>2
      <4>3. QED
        BY SMTT(30), <1>2, <4>1, <4>2
    <3>6. QED
      BY ZenonT(30), <3>4, <3>5 DEF Awake
  <2>5. QED
    BY SMTT(30), <1>2, <2>3, <2>4
<1>6. QED
  BY ZenonT(30), <1>4, <1>5

(* What the other actions do to the places. *)
LEMMA MovePlaces ==
    ASSUME LockInv, NEW t \in Thread,
           Ask(t) \/ RdWoken(t) \/ WrWoken(t) \/ Destroy(t) \/ Spurious(t)
    PROVE  Places' /\ Awake'
<1>1. pc \in [Thread -> PCs] /\ w_active \in BOOLEAN
  BY ZenonT(30) DEF LockInv, LockTypeOK
<1>2. /\ r_active \in Nat
      /\ r_active = 0 <=> \A u \in Thread : pc[u] # "reading"
  BY ZenonT(30), CountsTell DEF LockInv
<1>3. CASE RdLock(t) \/ TryRdLock(t) \/ RdWoken(t)
  <2>1. w_active' = w_active
    BY ZenonT(30), <1>3 DEF RdLock, TryRdLock, RdWoken
  <2>2. CASE w_active
    <3>1. pc' = [pc EXCEPT ![t] = "rsleep"] /\ pc[t] \in {"idle", "rwoken"}
      BY ZenonT(30), <1>3, <2>2 DEF RdLock, TryRdLock, RdWoken, ReadBlocked
    <3>2. \A u \in Thread : pc'[u] = IF u = t THEN "rsleep" ELSE pc[u]
      BY ZenonT(30), <1>1, <3>1
    <3>3. Places'
      BY SMTT(30), <2>1, <2>2, <3>1, <3>2 DEF LockInv, Places
    <3>4. QED
      BY ZenonT(30), <2>1, <2>2, <3>3 DEF Places, Awake
  <2>3. CASE ~w_active
    <3>1. pc' = [pc EXCEPT ![t] = "reading"] /\ pc[t] \in {"idle", "rwoken"}
      BY ZenonT(30), <1>3, <2>3 DEF RdLock, TryRdLock, RdWoken, ReadBlocked, ReadLock
    <3>2. \A u \in Thread : pc'[u] = IF u = t THEN "reading" ELSE pc[u]
      BY ZenonT(30), <1>1, <3>1
    <3>3. Places'
      BY SMTT(30), <2>1, <2>3, <3>1, <3>2 DEF LockInv, Places
    <3>4. QED
      BY ZenonT(30), <3>2, <3>3 DEF Awake
  <2>4. QED
    BY ZenonT(30), <1>1, <2>2, <2>3
<1>4. CASE WrLock(t) \/ TryWrLock(t) \/ WrWoken(t)
  <2>1. CASE WriteBlocked
    <3>1. pc' = [pc EXCEPT ![t] = "wsleep"] /\ pc[t] \in {"idle", "wwoken"} /\ w_active' = w_active
      BY ZenonT(30), <1>4, <2>1 DEF WrLock, TryWrLock, WrWoken
    <3>2. \A u \in Thread : pc'[u] = IF u = t THEN "wsleep" ELSE pc[u]
      BY ZenonT(30), <1>1, <3>1
    <3>3. Places'
      BY SMTT(30), <3>1, <3>2 DEF LockInv, Places
    <3>4. \E u \in Thread : pc[u] \in {"reading", "writing"}
      BY SMTT(30), <1>2, <2>1 DEF WriteBlocked, LockInv, Places
    <3>5. QED
      BY ZenonT(30), <3>1, <3>2, <3>3, <3>4 DEF Awake
  <2>2. CASE ~WriteBlocked
    <3>1. pc' = [pc EXCEPT ![t] = "writing"] /\ w_active' = TRUE
      BY ZenonT(30), <1>4, <2>2 DEF WrLock, TryWrLock, WrWoken, WriteLock
    <3>2. \A u \in Thread : pc'[u] = IF u = t THEN "writing" ELSE pc[u]
      BY ZenonT(30), <1>1, <3>1
    <3>3. \A u \in Thread : pc[u] \notin {"reading", "writing"}
      BY SMTT(30), <1>2, <2>2 DEF WriteBlocked, LockInv, Places
    <3>4. Places'
      BY ZenonT(30), <3>1, <3>2, <3>3 DEF Places
    <3>5. QED
      BY ZenonT(30), <3>2, <3>4 DEF Awake
  <2>3. QED
    BY ZenonT(30), <2>1, <2>2
<1>5. CASE Destroy(t)
  BY ZenonT(30), <1>5 DEF Destroy, LockInv, Places, Awake
<1>6. CASE Spurious(t)
  <2>1. PICK v \in {"rwoken", "wwoken"} :
          pc' = [pc EXCEPT ![t] = v] /\ pc[t] \in {"rsleep", "wsleep"} /\ w_active' = w_active
    BY ZenonT(30), <1>6 DEF Spurious
  <2>2. \A u \in Thread : pc'[u] = IF u = t THEN v ELSE pc[u]
    BY ZenonT(30), <1>1, <2>1
  <2>3. Places'
    BY SMTT(30), <2>1, <2>2 DEF LockInv, Places
  <2>4. QED
    BY ZenonT(30), <2>2, <2>3 DEF Awake
<1>7. QED
  BY ZenonT(30), <1>3, <1>4, <1>5, <1>6 DEF Ask

(* The invariant is inductive. *)
LEMMA LockInvNext == LockInv /\ [LockNext]_lockVars => LockInv'
<1> SUFFICES ASSUME LockInv, [LockNext]_lockVars PROVE LockInv'
  BY ZenonT(30)
<1>1. ASSUME NEW t \in Thread, Ask(t) \/ GoOn(t) \/ Destroy(t) \/ Spurious(t)
      PROVE  LockInv'
  <2>1. LockTypeOK'
    BY ZenonT(30), <1>1, TypeNext DEF LockInv
  <2>2. Places' /\ Awake'
    BY ZenonT(30), <1>1, UnlockPlaces, MovePlaces DEF GoOn
  <2>3. QED
    BY ZenonT(30), <2>1, <2>2 DEF LockInv
<1>2. CASE UNCHANGED lockVars
  BY ZenonT(30), <1>2 DEF lockVars, LockInv, LockTypeOK, Places, Awake, At
<1>3. QED
  BY ZenonT(30), <1>1, <1>2 DEF LockNext

(* The counters of rwlock.c count the threads that have the lock and those *)
(* that wait for it, for any finite number of threads.                     *)
THEOREM CountersExact == LockSpec => []LockTypeOK
<1>1. LockInv => LockTypeOK
  BY ZenonT(30) DEF LockInv
<1>2. QED
  BY <1>1, LockInvInit, LockInvNext, PTL DEF LockSpec

(* A thread that rwl_wrlock lets in is alone: none reads or writes beside  *)
(* it.                                                                     *)
THEOREM WriterExcludes == LockSpec => []WriterAlone
<1>1. LockInv => WriterAlone
  BY ZenonT(30) DEF LockInv, Places, WriterAlone, At
<1>2. QED
  BY <1>1, LockInvInit, LockInvNext, PTL DEF LockSpec

(* When nobody has the lock and somebody sleeps for it, somebody was woken *)
(* by rwl_rdunlock or rwl_wrunlock and has yet to look.                    *)
THEOREM WakeupsKept == LockSpec => []NoLostWakeup
<1>1. LockInv => NoLostWakeup
  BY ZenonT(30) DEF LockInv, Places, Awake, NoLostWakeup, At
<1>2. QED
  BY <1>1, LockInvInit, LockInvNext, PTL DEF LockSpec

-----------------------------------------------------------------------------
(***************************************************************************)
(* The packet buffers.  The invariants of PbufPools are inductive together,*)
(* with the fact that a worker parses one packet at a time.                *)
(***************************************************************************)
(* A worker fills at most one buffer at a time. *)
OneParsed == \A w \in Worker : \A p, q \in parsing[w] : p = q

PoolsInv ==
  /\ PoolsTypeOK /\ OneParsed
  /\ RightList /\ OnePlace /\ NoneLost /\ PacketFits /\ MarkedIsFree

(* OnePlace and RightList as seen from one buffer: what holds of a buffer  *)
(* in a worker's pool, of one that a worker fills and of one in an arena.  *)
PooledAlone ==
  \A w, v \in Worker : \A k, j \in Class : \A p \in local[w][k] :
    /\ p \notin queued /\ p \notin pbuf_cells[j] /\ p \notin parsing[v]
    /\ p \in local[v][j] => v = w /\ j = k

ParsedAlone ==
  \A w, v \in Worker : \A p \in parsing[w] :
    /\ p \notin queued /\ \A j \in Class : p \notin pbuf_cells[j]
    /\ p \in parsing[v] => v = w

FreeAlone ==
  \A k, j \in Class : \A p \in pbuf_cells[k] : p \notin queued /\ (p \in pbuf_cells[j] => j = k)

(* The view from one buffer follows from the invariant. *)
LEMMA Apart == PoolsInv => PooledAlone /\ ParsedAlone /\ FreeAlone
<1> SUFFICES ASSUME PoolsInv PROVE PooledAlone /\ ParsedAlone /\ FreeAlone
  BY ZenonT(30)
<1>1. \A k, j \in Class : \A p \in pbuf_cells[k] :
        p \notin queued /\ (p \in pbuf_cells[j] => j = k)
  BY SMTT(30) DEF PoolsInv, RightList, OnePlace
<1>2. \A w, v \in Worker : \A p \in parsing[w] :
        /\ p \notin queued /\ \A j \in Class : p \notin pbuf_cells[j]
        /\ p \in parsing[v] => v = w
  <2>1. ASSUME NEW w \in Worker, NEW v \in Worker, NEW p \in parsing[w]
        PROVE  p \notin queued /\ (p \in parsing[v] => v = w)
    <3>1. parsing[w] \cap queued = {}
      BY ZenonT(30) DEF PoolsInv, OnePlace
    <3>2. Class # {}
      BY ZenonT(30) DEF Class
    <3>3. v # w => parsing[v] \cap parsing[w] = {}
      BY ZenonT(30), <3>2 DEF PoolsInv, OnePlace
    <3>4. QED
      BY ZenonT(30), <2>1, <3>1, <3>3
  <2>2. ASSUME NEW w \in Worker, NEW p \in parsing[w], NEW j \in Class
        PROVE  p \notin pbuf_cells[j]
    BY ZenonT(30), <2>2 DEF PoolsInv, OnePlace
  <2>3. QED
    BY ZenonT(30), <2>1, <2>2
<1>3. ASSUME NEW w \in Worker, NEW v \in Worker, NEW k \in Class, NEW j \in Class, NEW p \in local[w][k]
      PROVE  /\ p \notin queued /\ p \notin pbuf_cells[j] /\ p \notin parsing[v]
             /\ p \in local[v][j] => v = w /\ j = k
  <2>1. Size(p) = k
    BY ZenonT(30) DEF PoolsInv, RightList
  <2>2. (p \in pbuf_cells[j] => Size(p) = j) /\ (p \in local[v][j] => Size(p) = j)
    BY ZenonT(30) DEF PoolsInv, RightList
  <2>3. /\ local[w][k] \cap queued = {} /\ local[w][k] \cap pbuf_cells[k] = {}
        /\ parsing[v] \cap local[w][k] = {}
        /\ v # w => local[v][k] \cap local[w][k] = {}
    BY ZenonT(30) DEF PoolsInv, OnePlace
  <2>4. QED
    BY ZenonT(30), <2>1, <2>2, <2>3
<1>4. QED
  BY ZenonT(30), <1>1, <1>2, <1>3 DEF PooledAlone, ParsedAlone, FreeAlone

(* The three sizes are different, and a packet fits the one it is given. *)
LEMMA ClassFits ==
    ASSUME NEW len \in Lens, len <= PACKETLEN_MAX_LARGE
    PROVE  ClassFor(len) \in Class /\ len <= ClassFor(len) /\ len \in Nat
BY ZenonT(30), PoolsAssumption DEF ClassFor, Class

(* pbuf_init *)
LEMMA PoolsInvInit == PoolsInit => PoolsInv
<1> SUFFICES ASSUME PoolsInit PROVE PoolsInv
  BY ZenonT(30)
<1>1. PoolsTypeOK
  BY ZenonT(30) DEF PoolsInit, PoolsTypeOK
<1>2. OneParsed /\ RightList /\ OnePlace /\ PacketFits /\ MarkedIsFree
  BY ZenonT(30) DEF PoolsInit, OneParsed, RightList, OnePlace, PacketFits, MarkedIsFree
<1>3. NoneLost
  BY ZenonT(30), SizeAssumption DEF PoolsInit, NoneLost
<1>4. QED
  BY ZenonT(30), <1>1, <1>2, <1>3 DEF PoolsInv

(* pbuf_get from the pool of the worker. *)
LEMMA GetLocalKeeps ==
    ASSUME PoolsInv, NEW w \in Worker, NEW len \in Lens, GetLocal(w, len)
    PROVE  PoolsInv'
<1> DEFINE k == ClassFor(len)
<1>1. k \in Class /\ len <= k /\ len \in Nat
  BY ZenonT(30), ClassFits DEF GetLocal, MayGet
<1>2. PoolsTypeOK
  BY ZenonT(30) DEF PoolsInv
<1>3. parsing[w] = {}
  BY ZenonT(30) DEF GetLocal, MayGet
<1>4. PICK p \in local[w][k] :
        /\ local' = [local EXCEPT ![w][k] = @ \ {p}]
        /\ parsing' = [parsing EXCEPT ![w] = {p}]
        /\ buf_len' = [buf_len EXCEPT ![p] = k]
        /\ is_free' = [is_free EXCEPT ![p] = FALSE]
        /\ need' = [need EXCEPT ![p] = len]
        /\ pbuf_cells' = pbuf_cells /\ queued' = queued
  BY ZenonT(30) DEF GetLocal, Cleared
<1> HIDE DEF k
<1>5. p \in Buf /\ Size(p) = k
  BY SMTT(30), <1>1, <1>2 DEF PoolsTypeOK, PoolsInv, RightList
<1>6. \A v \in Worker : \A j \in Class :
        local'[v][j] = IF v = w /\ j = k THEN local[v][j] \ {p} ELSE local[v][j]
  BY ZenonT(30), <1>1, <1>2, <1>4 DEF PoolsTypeOK
<1>7. \A v \in Worker : parsing'[v] = IF v = w THEN {p} ELSE parsing[v]
  BY ZenonT(30), <1>2, <1>4 DEF PoolsTypeOK
<1>8. PoolsTypeOK'
  BY SMTT(30), <1>1, <1>2, <1>4, <1>5 DEF PoolsTypeOK
<1>9. OneParsed'
  BY ZenonT(30), <1>7 DEF OneParsed, PoolsInv
<1>10. \A q \in Buf : /\ buf_len'[q] = IF q = p THEN k ELSE buf_len[q]
                      /\ need'[q] = IF q = p THEN len ELSE need[q]
                      /\ is_free'[q] = IF q = p THEN FALSE ELSE is_free[q]
  BY ZenonT(30), <1>2, <1>4, <1>5 DEF PoolsTypeOK
<1>11. RightList'
  BY SMTT(30), <1>2, <1>4, <1>5, <1>6, <1>10 DEF PoolsTypeOK, PoolsInv, RightList
<1>12. OnePlace'
  <2> DEFINE Seen(v, h, u, j, x) == /\ x \notin queued' /\ x \notin pbuf_cells'[j] /\ x \notin parsing'[u]
                                    /\ x \in local'[u][j] => u = v /\ j = h
  <2>5. ASSUME NEW v \in Worker, NEW h \in Class, NEW u \in Worker, NEW j \in Class, NEW x \in local'[v][h]
        PROVE  Seen(v, h, u, j, x)
    <3>1. x \in local[v][h] /\ x # p
      <4>1. x \in local[v][h] /\ (v = w /\ h = k => x # p)
        BY ZenonT(30), <1>6
      <4>2. x = p => v = w /\ h = k
        BY SMTT(30), Apart, <1>1, <4>1 DEF PooledAlone
      <4>3. QED
        BY ZenonT(30), <4>1, <4>2
    <3>2. queued' = queued /\ pbuf_cells' = pbuf_cells
      BY ZenonT(30), <1>4
    <3>3. x \notin parsing'[u]
      BY SMTT(30), Apart, <1>7, <3>1 DEF PooledAlone
    <3>4. x \in local'[u][j] => x \in local[u][j]
      BY ZenonT(30), <1>6
    <3>5. QED
      BY SMTT(30), Apart, <3>1, <3>2, <3>3, <3>4 DEF PooledAlone
  <2>1. PooledAlone'
    BY ZenonT(30), <2>5 DEF PooledAlone
  <2>2. ParsedAlone'
    BY SMTT(30), Apart, <1>1, <1>4, <1>6, <1>7 DEF PooledAlone, ParsedAlone, FreeAlone
  <2>3. FreeAlone'
    BY ZenonT(30), Apart, <1>1, <1>4, <1>6, <1>7 DEF PooledAlone, ParsedAlone, FreeAlone
  <2>4. QED
    BY SMTT(30), <2>1, <2>2, <2>3 DEF OnePlace, PooledAlone, ParsedAlone, FreeAlone
<1>13. NoneLost'
  BY SMTT(30), <1>1, <1>4, <1>6, <1>7, <1>3 DEF NoneLost, PoolsInv
<1>14. PacketFits'
  BY SMTT(30), <1>1, <1>2, <1>4, <1>5, <1>7, <1>10 DEF PoolsTypeOK, PacketFits, PoolsInv
<1>15. MarkedIsFree'
  BY ZenonT(30), <1>4, <1>10 DEF MarkedIsFree, PoolsInv
<1>16. QED
  BY ZenonT(30), <1>8, <1>9, <1>11, <1>12, <1>13, <1>14, <1>15 DEF PoolsInv

(* pbuf_get from the arena. *)
LEMMA GetBunchKeeps ==
    ASSUME PoolsInv, NEW w \in Worker, NEW len \in Lens, GetBunch(w, len)
    PROVE  PoolsInv'
<1> DEFINE k == ClassFor(len)
<1>1. k \in Class /\ len <= k /\ len \in Nat
  BY ZenonT(30), ClassFits DEF GetBunch, MayGet
<1>2. PoolsTypeOK
  BY ZenonT(30) DEF PoolsInv
<1>3. parsing[w] = {} /\ local[w][k] = {}
  BY ZenonT(30) DEF GetBunch, MayGet
<1>4. PICK taken \in SUBSET pbuf_cells[k] : \E p \in taken :
        /\ pbuf_cells' = [pbuf_cells EXCEPT ![k] = @ \ taken]
        /\ local' = [local EXCEPT ![w][k] = taken \ {p}]
        /\ parsing' = [parsing EXCEPT ![w] = {p}]
        /\ need' = [need EXCEPT ![p] = len]
        /\ buf_len' = [q \in Buf |-> IF q \in taken THEN k ELSE buf_len[q]]
        /\ is_free' = [q \in Buf |-> is_free[q] /\ q \notin taken]
        /\ queued' = queued
  BY ZenonT(30) DEF GetBunch, Cleared, Rest, Unmarked
<1>5. PICK p \in taken :
        /\ pbuf_cells' = [pbuf_cells EXCEPT ![k] = @ \ taken]
        /\ local' = [local EXCEPT ![w][k] = taken \ {p}]
        /\ parsing' = [parsing EXCEPT ![w] = {p}]
        /\ need' = [need EXCEPT ![p] = len]
        /\ buf_len' = [q \in Buf |-> IF q \in taken THEN k ELSE buf_len[q]]
        /\ is_free' = [q \in Buf |-> is_free[q] /\ q \notin taken]
        /\ queued' = queued
  BY ZenonT(30), <1>4
<1> HIDE DEF k
<1>6. taken \subseteq Buf /\ p \in Buf /\ \A q \in taken : Size(q) = k
  BY ZenonT(30), <1>1, <1>2 DEF PoolsTypeOK, PoolsInv, RightList
<1>7. \A v \in Worker : \A j \in Class :
        local'[v][j] = IF v = w /\ j = k THEN taken \ {p} ELSE local[v][j]
  BY ZenonT(30), <1>1, <1>2, <1>5 DEF PoolsTypeOK
<1>8. \A v \in Worker : parsing'[v] = IF v = w THEN {p} ELSE parsing[v]
  BY ZenonT(30), <1>2, <1>5 DEF PoolsTypeOK
<1>9. \A j \in Class : pbuf_cells'[j] = IF j = k THEN pbuf_cells[j] \ taken ELSE pbuf_cells[j]
  BY ZenonT(30), <1>1, <1>2, <1>5 DEF PoolsTypeOK
<1>10. \A q \in Buf : need'[q] = IF q = p THEN len ELSE need[q]
  BY ZenonT(30), <1>2, <1>5, <1>6 DEF PoolsTypeOK
<1>11. PoolsTypeOK'
  BY ZenonT(30), <1>1, <1>2, <1>5, <1>6 DEF PoolsTypeOK
<1>12. OneParsed'
  BY ZenonT(30), <1>8 DEF OneParsed, PoolsInv
<1>13. RightList'
  BY SMTT(30), <1>2, <1>5, <1>6, <1>7, <1>9 DEF PoolsTypeOK, PoolsInv, RightList
<1>14. \A q \in taken : /\ q \notin queued
                        /\ \A v \in Worker : q \notin parsing[v] /\ \A j \in Class : q \notin local[v][j]
                        /\ \A j \in Class : q \in pbuf_cells[j] => j = k
  BY ZenonT(30), Apart, <1>1 DEF PooledAlone, ParsedAlone, FreeAlone
<1>15. OnePlace'
  <2> DEFINE Seen(v, h, u, j, x) == /\ x \notin queued' /\ x \notin pbuf_cells'[j] /\ x \notin parsing'[u]
                                    /\ x \in local'[u][j] => u = v /\ j = h
  <2>5. queued' = queued
    BY ZenonT(30), <1>5
  <2>6. ASSUME NEW v \in Worker, NEW h \in Class, NEW u \in Worker, NEW j \in Class, NEW x \in local'[v][h]
        PROVE  Seen(v, h, u, j, x)
    <3>1. CASE v = w /\ h = k
      <4>1. x \in taken /\ x # p
        BY ZenonT(30), <1>7, <3>1
      <4>2. x \notin pbuf_cells'[j] /\ x \notin parsing'[u]
        <5>1. x \in pbuf_cells'[j] => x \in pbuf_cells[j] /\ j # k
          BY ZenonT(30), <1>9, <4>1
        <5>2. x \in parsing'[u] => x = p \/ x \in parsing[u]
          BY ZenonT(30), <1>8
        <5>3. QED
          BY ZenonT(30), <1>14, <4>1, <5>1, <5>2
      <4>3. x \in local'[u][j] => u = v /\ j = h
        BY ZenonT(30), <1>7, <1>14, <3>1, <4>1
      <4>4. QED
        BY ZenonT(30), <1>14, <2>5, <4>1, <4>2, <4>3
    <3>2. CASE ~(v = w /\ h = k)
      <4>1. x \in local[v][h]
        BY ZenonT(30), <1>7, <3>2
      <4>2. x \notin taken
        BY ZenonT(30), <1>14, <4>1
      <4>3. x \notin pbuf_cells'[j] /\ x \notin parsing'[u]
        <5>1. x \in pbuf_cells'[j] => x \in pbuf_cells[j]
          BY ZenonT(30), <1>9
        <5>2. x \in parsing'[u] => x = p \/ x \in parsing[u]
          BY ZenonT(30), <1>8
        <5>3. QED
          BY SMTT(30), Apart, <4>1, <4>2, <5>1, <5>2 DEF PooledAlone
      <4>4. x \in local'[u][j] => u = v /\ j = h
        BY SMTT(30), Apart, <1>7, <4>1, <4>2 DEF PooledAlone
      <4>5. QED
        BY ZenonT(30), Apart, <2>5, <4>1, <4>3, <4>4 DEF PooledAlone
    <3>3. QED
      BY ZenonT(30), <3>1, <3>2
  <2>1. PooledAlone'
    BY ZenonT(30), <2>6 DEF PooledAlone
  <2>2. ParsedAlone'
    <3>1. ASSUME NEW v \in Worker, NEW u \in Worker, NEW x \in parsing'[v]
          PROVE  x \notin queued' /\ (\A j \in Class : x \notin pbuf_cells'[j]) /\ (x \in parsing'[u] => u = v)
      <4>5. \A j \in Class : x \in pbuf_cells'[j] => x \in pbuf_cells[j] /\ (j = k => x \notin taken)
        BY ZenonT(30), <1>9
      <4>6. x \in parsing'[u] => (u = w /\ x = p) \/ (u # w /\ x \in parsing[u])
        BY ZenonT(30), <1>8
      <4>1. CASE v = w
        <5>1. x = p
          BY ZenonT(30), <1>8, <4>1
        <5>2. QED
          BY ZenonT(30), <1>14, <2>5, <4>1, <4>5, <4>6, <5>1
      <4>2. CASE v # w
        <5>1. x \in parsing[v]
          BY ZenonT(30), <1>8, <4>2
        <5>2. x \notin taken
          BY ZenonT(30), <1>14, <5>1
        <5>3. QED
          BY ZenonT(30), Apart, <2>5, <4>5, <4>6, <5>1, <5>2 DEF ParsedAlone
      <4>3. QED
        BY ZenonT(30), <4>1, <4>2
    <3>2. QED
      BY ZenonT(30), <3>1 DEF ParsedAlone
  <2>3. FreeAlone'
    BY SMTT(30), Apart, <1>1, <1>5, <1>7, <1>8, <1>9, <1>14 DEF PooledAlone, ParsedAlone, FreeAlone
  <2>4. QED
    BY SMTT(30), <2>1, <2>2, <2>3 DEF OnePlace, PooledAlone, ParsedAlone, FreeAlone
<1>16. NoneLost'
  BY SMTT(30), <1>1, <1>3, <1>5, <1>7, <1>8, <1>9 DEF NoneLost, PoolsInv
<1>17. PacketFits'
  BY SMTT(30), <1>1, <1>2, <1>5, <1>6, <1>8, <1>10, <1>14 DEF PoolsTypeOK, PacketFits, PoolsInv
<1>18. MarkedIsFree'
  <2>1. ASSUME NEW q \in Buf, is_free'[q] PROVE q \in pbuf_cells'[Size(q)]
    <3>1. is_free'[q] = (is_free[q] /\ q \notin taken)
      BY ZenonT(30), <1>5
    <3>2. q \notin taken /\ q \in pbuf_cells[Size(q)]
      BY <2>1, <3>1, Zenon DEF MarkedIsFree, PoolsInv
    <3>3. QED
      BY ZenonT(30), <1>9, <3>2, SizeAssumption
  <2>2. QED
    BY ZenonT(30), <2>1 DEF MarkedIsFree
<1>19. QED
  BY ZenonT(30), <1>11, <1>12, <1>13, <1>15, <1>16, <1>17, <1>18 DEF PoolsInv

(* The packet goes to the dupecheck thread, or is dropped. *)
LEMMA DoneKeeps ==
    ASSUME PoolsInv, NEW w \in Worker, Accepted(w) \/ Dropped(w)
    PROVE  PoolsInv'
<1>1. PoolsTypeOK
  BY ZenonT(30) DEF PoolsInv
<1>2. PICK p \in parsing[w] : TRUE
  BY ZenonT(30) DEF Accepted, Dropped
<1>3. p \in Buf /\ parsing[w] = {p}
  BY SMTT(30), <1>1 DEF PoolsInv, PoolsTypeOK, OneParsed
<1>4. PICK s \in Class : s = Size(p) /\ buf_len[p] = s
  BY ZenonT(30), <1>3, SizeAssumption DEF PoolsInv, PacketFits
<1>5. /\ pbuf_cells' = pbuf_cells /\ buf_len' = buf_len /\ is_free' = is_free /\ need' = need
      /\ parsing' = [parsing EXCEPT ![w] = {}]
  BY ZenonT(30) DEF Accepted, Dropped
<1>6. \A v \in Worker : parsing'[v] = IF v = w THEN {} ELSE parsing[v]
  BY ZenonT(30), <1>1, <1>5 DEF PoolsTypeOK
<1>7. OneParsed'
  BY ZenonT(30), <1>6 DEF OneParsed, PoolsInv
<1>8. MarkedIsFree'
  BY ZenonT(30), <1>5 DEF MarkedIsFree, PoolsInv
<1>9. CASE Accepted(w)
  <2>1. local' = local /\ queued' = queued \cup {p}
    BY ZenonT(30), <1>3, <1>9 DEF Accepted
  <2>2. PoolsTypeOK'
    BY ZenonT(30), <1>1, <1>3, <1>5, <2>1 DEF PoolsTypeOK
  <2>3. RightList'
    BY ZenonT(30), <1>5, <2>1 DEF RightList, PoolsInv
  <2>4. OnePlace'
    <3>1. PooledAlone'
      BY SMTT(30), Apart, <1>3, <1>5, <1>6, <2>1 DEF PooledAlone, ParsedAlone, FreeAlone
    <3>2. ParsedAlone'
      BY SMTT(30), Apart, <1>3, <1>5, <1>6, <2>1 DEF PooledAlone, ParsedAlone, FreeAlone
    <3>3. FreeAlone'
      BY ZenonT(30), Apart, <1>3, <1>5, <1>6, <2>1 DEF PooledAlone, ParsedAlone, FreeAlone
    <3>4. QED
      BY SMTT(30), <3>1, <3>2, <3>3 DEF OnePlace, PooledAlone, ParsedAlone, FreeAlone
  <2>5. NoneLost'
    BY ZenonT(30), <1>3, <1>5, <1>6, <2>1 DEF NoneLost, PoolsInv
  <2>6. PacketFits'
    BY SMTT(30), <1>3, <1>5, <1>6, <2>1 DEF PacketFits, PoolsInv
  <2>7. QED
    BY ZenonT(30), <1>7, <1>8, <2>2, <2>3, <2>4, <2>5, <2>6 DEF PoolsInv
<1>10. CASE Dropped(w)
  <2>1. queued' = queued
    BY ZenonT(30), <1>10 DEF Dropped
  <2>2. PICK q \in parsing[w] :
          local' = [local EXCEPT ![w] = [k \in Class |-> IF k = buf_len[q] THEN @[k] \cup {q} ELSE @[k]]]
    BY ZenonT(30), <1>10 DEF Dropped
  <2>3. \A v \in Worker : \A k \in Class :
          local'[v][k] = IF v = w /\ k = s THEN local[v][k] \cup {p} ELSE local[v][k]
    BY ZenonT(30), <1>1, <1>3, <1>4, <2>2 DEF PoolsTypeOK
  <2>4. local' \in [Worker -> [Class -> SUBSET Buf]]
    BY SMTT(30), <1>1, <1>3, <2>2 DEF PoolsTypeOK
  <2>5. PoolsTypeOK'
    BY ZenonT(30), <1>1, <1>5, <2>1, <2>4 DEF PoolsTypeOK
  <2>6. RightList'
    <3>1. ASSUME NEW v \in Worker, NEW k \in Class, NEW x \in local'[v][k]
          PROVE  Size(x) = k /\ buf_len[x] = k
      <4>1. x \in local[v][k] \/ (x = p /\ k = s)
        BY ZenonT(30), <2>3
      <4>2. QED
        BY ZenonT(30), <1>4, <4>1 DEF RightList, PoolsInv
    <3>2. QED
      BY ZenonT(30), <1>5, <3>1 DEF RightList, PoolsInv
  <2>7. OnePlace'
    <3>5. ASSUME NEW v \in Worker, NEW h \in Class, NEW u \in Worker, NEW j \in Class, NEW x \in local'[v][h]
          PROVE  /\ x \notin queued /\ x \notin pbuf_cells[j] /\ x \notin parsing'[u]
                 /\ x \in local'[u][j] => u = v /\ j = h
      <4>1. CASE x = p
        <5>1. v = w /\ h = s
          BY ZenonT(30), Apart, <1>3, <2>3, <4>1 DEF PooledAlone
        <5>2. x \in local'[u][j] => u = w /\ j = s
          BY ZenonT(30), Apart, <1>3, <2>3, <4>1 DEF PooledAlone
        <5>3. QED
          BY ZenonT(30), Apart, <1>3, <1>6, <4>1, <5>1, <5>2 DEF ParsedAlone
      <4>2. CASE x # p
        <5>1. x \in local[v][h] /\ (x \in local'[u][j] => x \in local[u][j])
          BY ZenonT(30), <2>3, <4>2
        <5>2. QED
          BY SMTT(30), Apart, <1>6, <5>1 DEF PooledAlone
      <4>3. QED
        BY ZenonT(30), <4>1, <4>2
    <3>1. PooledAlone'
      BY SMTT(30), <1>5, <2>1, <3>5 DEF PooledAlone
    <3>2. ParsedAlone'
      BY SMTT(30), Apart, <1>3, <1>4, <1>5, <1>6, <2>1, <2>3 DEF PooledAlone, ParsedAlone, FreeAlone
    <3>3. FreeAlone'
      BY ZenonT(30), Apart, <1>3, <1>4, <1>5, <1>6, <2>1, <2>3 DEF PooledAlone, ParsedAlone, FreeAlone
    <3>4. QED
      BY SMTT(30), <3>1, <3>2, <3>3 DEF OnePlace, PooledAlone, ParsedAlone, FreeAlone
  <2>8. NoneLost'
    <3>1. p \in local'[w][s]
      BY ZenonT(30), <2>3
    <3>2. \A v \in Worker : \A k \in Class : local[v][k] \subseteq local'[v][k]
      BY ZenonT(30), <2>3
    <3>3. \A v \in Worker : \A x \in parsing[v] : x = p \/ x \in parsing'[v]
      BY SMTT(30), <1>3, <1>6
    <3>4. QED
      BY SMTT(30), <1>5, <2>1, <3>1, <3>2, <3>3 DEF NoneLost, PoolsInv
  <2>9. PacketFits'
    BY SMTT(30), <1>5, <1>6, <2>1 DEF PacketFits, PoolsInv
  <2>10. QED
    BY ZenonT(30), <1>7, <1>8, <2>5, <2>6, <2>7, <2>8, <2>9 DEF PoolsInv
<1>11. QED
  BY ZenonT(30), <1>9, <1>10

(* global_pbuf_purger *)
LEMMA PurgeKeeps ==
    ASSUME PoolsInv, NEW S \in SUBSET Buf, Purge(S)
    PROVE  PoolsInv'
<1>1. PoolsTypeOK
  BY ZenonT(30) DEF PoolsInv
<1>2. /\ S \subseteq queued /\ queued' = queued \ S
      /\ local' = local /\ parsing' = parsing /\ buf_len' = buf_len /\ need' = need
  BY ZenonT(30) DEF Purge
<1>3. \A p \in S : p \in queued /\ Size(p) \in Class /\ buf_len[p] = Size(p)
  BY ZenonT(30), <1>2, SizeAssumption DEF PoolsInv, PacketFits
<1>4. \A k \in Class : \A p : p \in pbuf_cells'[k] <=> p \in pbuf_cells[k] \/ (p \in S /\ buf_len[p] = k)
  BY ZenonT(30) DEF Purge
<1>5. pbuf_cells' \in [Class -> SUBSET Buf] /\ is_free' \in [Buf -> BOOLEAN]
  BY ZenonT(30), <1>1 DEF Purge, PoolsTypeOK
<1>6. PoolsTypeOK'
  BY ZenonT(30), <1>1, <1>2, <1>5 DEF PoolsTypeOK
<1>7. OneParsed'
  BY ZenonT(30), <1>2 DEF OneParsed, PoolsInv
<1>8. RightList'
  BY SMTT(30), <1>2, <1>3, <1>4 DEF RightList, PoolsInv
<1>9. OnePlace'
  <2>1. PooledAlone'
    <3>1. ASSUME NEW v \in Worker, NEW h \in Class, NEW u \in Worker, NEW j \in Class, NEW x \in local[v][h]
          PROVE  /\ x \notin queued' /\ x \notin pbuf_cells'[j] /\ x \notin parsing[u]
                 /\ x \in local[u][j] => u = v /\ j = h
      BY SMTT(30), Apart, <1>2, <1>3, <1>4 DEF PooledAlone
    <3>2. QED
      BY SMTT(30), <1>2, <3>1 DEF PooledAlone
  <2>2. ParsedAlone'
    BY SMTT(30), Apart, <1>2, <1>3, <1>4 DEF ParsedAlone
  <2>3. FreeAlone'
    BY SMTT(30), Apart, <1>2, <1>3, <1>4 DEF FreeAlone
  <2>4. QED
    BY SMTT(30), <2>1, <2>2, <2>3 DEF OnePlace, PooledAlone, ParsedAlone, FreeAlone
<1>10. NoneLost'
  <2>1. \A p \in queued : p \in queued' \/ \E k \in Class : p \in pbuf_cells'[k]
    BY ZenonT(30), <1>2, <1>3, <1>4
  <2>2. \A k \in Class : \A p \in pbuf_cells[k] : p \in pbuf_cells'[k]
    BY ZenonT(30), <1>4
  <2>3. QED
    BY ZenonT(30), <1>2, <2>1, <2>2 DEF NoneLost, PoolsInv
<1>11. PacketFits'
  BY ZenonT(30), <1>2 DEF PacketFits, PoolsInv
<1>12. MarkedIsFree'
  <2>1. ASSUME NEW q \in Buf, is_free'[q] PROVE q \in pbuf_cells'[Size(q)]
    <3>1. is_free'[q] = (is_free[q] \/ q \in S)
      BY ZenonT(30) DEF Purge
    <3>2. q \in S \/ q \in pbuf_cells[Size(q)]
      BY <2>1, <3>1, Zenon DEF MarkedIsFree, PoolsInv
    <3>3. QED
      BY ZenonT(30), <1>3, <1>4, <3>2, SizeAssumption
  <2>2. QED
    BY ZenonT(30), <2>1 DEF MarkedIsFree
<1>13. QED
  BY ZenonT(30), <1>6, <1>7, <1>8, <1>9, <1>10, <1>11, <1>12 DEF PoolsInv

(* worker_free_buffers *)
LEMMA WorkerExitKeeps ==
    ASSUME PoolsInv, NEW w \in Worker, WorkerExit(w)
    PROVE  PoolsInv'
<1>1. PoolsTypeOK
  BY ZenonT(30) DEF PoolsInv
<1>2. /\ queued' = queued /\ parsing' = parsing /\ buf_len' = buf_len /\ need' = need
      /\ is_free' = is_free
  BY ZenonT(30) DEF WorkerExit
<1>3. \A k \in Class : \A p \in local[w][k] : Size(p) = k /\ buf_len[p] = k
  BY ZenonT(30) DEF PoolsInv, RightList
<1>4. \A k \in Class : \A p : p \in pbuf_cells'[k] <=> p \in pbuf_cells[k] \/ p \in local[w][k]
  <2>1. \A k \in Class : \A p : p \in pbuf_cells'[k] <=>
          p \in pbuf_cells[k] \/ (buf_len[p] = k /\ \E j \in Class : p \in local[w][j])
    BY ZenonT(30) DEF WorkerExit
  <2>2. QED
    BY SMTT(30), <1>3, <2>1
<1>5. \A v \in Worker : \A k \in Class : \A p : p \in local'[v][k] <=> v # w /\ p \in local[v][k]
  BY ZenonT(30), <1>1 DEF WorkerExit, PoolsTypeOK
<1>6. local' \in [Worker -> [Class -> SUBSET Buf]]
  BY ZenonT(30), <1>1 DEF WorkerExit, PoolsTypeOK
<1>7. pbuf_cells' \in [Class -> SUBSET Buf]
  <2>1. \A k \in Class : local[w][k] \subseteq Buf /\ pbuf_cells[k] \subseteq Buf
    BY SMTT(30), <1>1 DEF PoolsTypeOK
  <2>2. \A k \in Class : pbuf_cells'[k] \subseteq Buf
    BY ZenonT(30), <1>4, <2>1
  <2>3. pbuf_cells' = [k \in Class |-> pbuf_cells'[k]]
    BY ZenonT(30) DEF WorkerExit
  <2>4. QED
    BY ZenonT(30), <2>2, <2>3
<1>8. PoolsTypeOK'
  BY ZenonT(30), <1>1, <1>2, <1>6, <1>7 DEF PoolsTypeOK
<1>9. OneParsed'
  BY ZenonT(30), <1>2 DEF OneParsed, PoolsInv
<1>10. RightList'
  BY ZenonT(30), <1>2, <1>3, <1>4, <1>5 DEF RightList, PoolsInv
<1>11. OnePlace'
  <2>1. PooledAlone'
    <3>1. ASSUME NEW v \in Worker, NEW h \in Class, NEW u \in Worker, NEW j \in Class, NEW x \in local'[v][h]
          PROVE  /\ x \notin queued /\ x \notin pbuf_cells'[j] /\ x \notin parsing[u]
                 /\ x \in local'[u][j] => u = v /\ j = h
      <4>1. v # w /\ x \in local[v][h]
        BY ZenonT(30), <1>5
      <4>2. x \in pbuf_cells'[j] => x \in pbuf_cells[j] \/ x \in local[w][j]
        BY ZenonT(30), <1>4
      <4>3. x \in local'[u][j] => x \in local[u][j]
        BY ZenonT(30), <1>5
      <4>4. QED
        BY SMTT(30), Apart, <4>1, <4>2, <4>3 DEF PooledAlone
    <3>2. QED
      BY SMTT(30), <1>2, <3>1 DEF PooledAlone
  <2>2. ParsedAlone'
    BY ZenonT(30), Apart, <1>2, <1>4 DEF ParsedAlone, PooledAlone
  <2>3. FreeAlone'
    <3>1. ASSUME NEW h \in Class, NEW j \in Class, NEW x \in pbuf_cells'[h]
          PROVE  x \notin queued /\ (x \in pbuf_cells'[j] => j = h)
      BY SMTT(30), Apart, <1>4 DEF FreeAlone, PooledAlone
    <3>2. QED
      BY ZenonT(30), <1>2, <3>1 DEF FreeAlone
  <2>4. QED
    BY SMTT(30), <2>1, <2>2, <2>3 DEF OnePlace, PooledAlone, ParsedAlone, FreeAlone
<1>12. NoneLost'
  <2>1. \A k \in Class : \A p \in pbuf_cells[k] : p \in pbuf_cells'[k]
    BY ZenonT(30), <1>4
  <2>2. \A v \in Worker : \A k \in Class : \A p \in local[v][k] : p \in local'[v][k] \/ p \in pbuf_cells'[k]
    BY ZenonT(30), <1>4, <1>5
  <2>3. QED
    BY ZenonT(30), <1>2, <2>1, <2>2 DEF NoneLost, PoolsInv
<1>13. PacketFits'
  BY ZenonT(30), <1>2 DEF PacketFits, PoolsInv
<1>14. MarkedIsFree'
  BY ZenonT(30), <1>2, <1>4, SizeAssumption DEF MarkedIsFree, PoolsInv
<1>15. QED
  BY ZenonT(30), <1>8, <1>9, <1>10, <1>11, <1>12, <1>13, <1>14 DEF PoolsInv

(* The invariant is inductive. *)
LEMMA PoolsInvNext == PoolsInv /\ [PoolsNext]_poolVars => PoolsInv'
<1> SUFFICES ASSUME PoolsInv, [PoolsNext]_poolVars PROVE PoolsInv'
  BY ZenonT(30)
<1>1. ASSUME NEW w \in Worker, NEW len \in Lens, GetLocal(w, len) \/ GetBunch(w, len)
      PROVE  PoolsInv'
  BY ZenonT(30), <1>1, GetLocalKeeps, GetBunchKeeps
<1>2. ASSUME NEW w \in Worker, Accepted(w) \/ Dropped(w) \/ WorkerExit(w)
      PROVE  PoolsInv'
  BY ZenonT(30), <1>2, DoneKeeps, WorkerExitKeeps
<1>3. ASSUME NEW S \in SUBSET Buf, Purge(S)
      PROVE  PoolsInv'
  BY ZenonT(30), <1>3, PurgeKeeps
<1>4. CASE UNCHANGED poolVars
  BY SMTT(30), <1>4 DEF poolVars, PoolsInv, PoolsTypeOK, OneParsed, RightList, OnePlace, NoneLost,
              PacketFits, MarkedIsFree
<1>5. QED
  BY ZenonT(30), <1>1, <1>2, <1>3, <1>4 DEF PoolsNext

(* PoolsSound, for any workers, buffers and sizes: pbuf_free,              *)
(* pbuf_free_many and worker_free_buffers, which sort by the length they   *)
(* find in a buffer, put it on a list of its own size; a buffer that       *)
(* pbuf_get returns is in no pool, arena or queue and in no other worker's *)
(* hands, has room for the packet and carries no free mark; and none is    *)
(* lost when packets are dropped or purged and when workers end.           *)
THEOREM PoolsAreSound == PoolsSpec => []PoolsSound
<1>1. PoolsInv => PoolsSound
  BY ZenonT(30) DEF PoolsInv, PoolsSound
<1>2. QED
  BY <1>1, PoolsInvInit, PoolsInvNext, PTL DEF PoolsSpec

-----------------------------------------------------------------------------
(***************************************************************************)
(* The poll set.  A listed descriptor knows its entry of the array; what   *)
(* the walk has still to visit is listed, with the events that poll        *)
(* reported, and the handlers of all the others have been called.          *)
(***************************************************************************)
PollEntry == [fd : Fd, out : BOOLEAN, revents : SUBSET Event]

PollTypes ==
    /\ fds \in Seq(Fd) /\ pollfd \in Seq(PollEntry) /\ pollfd_n \in [Fd -> Nat]
    /\ polling \in BOOLEAN /\ walk \in Seq(Fd) /\ ready \in [Fd -> SUBSET Event]
    /\ called \in Seq(Fd \X SUBSET Event)

Once(q) == \A j, k \in DOMAIN q : q[j] = q[k] => j = k

Tied == \A f \in Listed : pollfd_n[f] \in DOMAIN pollfd /\ pollfd[pollfd_n[f]].fd = f

CallsOf(visits) == {<<f, ready[f]>> : f \in {g \in Fd \ visits : ready[g] # {}}}

WalkInv ==
    /\ Once(walk) /\ Members(walk) \subseteq Listed
    /\ \A f \in Members(walk) : pollfd[pollfd_n[f]].revents = ready[f]
    /\ Members(called) = CallsOf(Members(walk)) /\ Once(called)

PollIInv == PollTypes /\ Once(fds) /\ Tied /\ (polling => WalkInv)

(* A function on an initial segment is a sequence. *)
LEMMA FunctionSeq ==
    ASSUME NEW S, NEW m \in Nat, NEW f \in [1..m -> S]
    PROVE  f \in Seq(S) /\ Len(f) = m /\ DOMAIN f = 1..m
  BY SMTT(30)

(* And the other way round. *)
LEMMA SeqFunction ==
    ASSUME NEW S, NEW q \in Seq(S)
    PROVE  q \in [DOMAIN q -> S]
  BY SMTT(30)

(* What is left of a sequence without its n-th element. *)
LEMMA WithoutOne ==
    ASSUME NEW S, NEW q \in Seq(S), NEW n \in DOMAIN q
    PROVE  LET d == Without(q, n)
           IN  /\ d \in Seq(S) /\ Len(d) = Len(q) - 1
               /\ \A k \in DOMAIN d : d[k] = q[IF k < n THEN k ELSE k + 1]
               /\ DOMAIN d = 1..Len(q) - 1 /\ DOMAIN q = 1..Len(q) /\ Len(q) \in Nat
<1>1. DOMAIN q = 1..Len(q) /\ Len(q) \in Nat \ {0} /\ n \in 1..Len(q)
  BY SMTT(30)
<1>2. \A k \in 1..Len(q) - 1 : (IF k < n THEN k ELSE k + 1) \in 1..Len(q)
  BY <1>1, SMTT(30)
<1>3. \A k \in 1..Len(q) : q[k] \in S
  BY <1>1, SMTT(30)
<1>4. Without(q, n) \in [1..Len(q) - 1 -> S]
  BY <1>2, <1>3, ZenonT(30) DEF Without
<1>5. \A k \in 1..Len(q) - 1 : Without(q, n)[k] = q[IF k < n THEN k ELSE k + 1]
  BY ZenonT(30) DEF Without
<1>6. Without(q, n) \in Seq(S) /\ Len(Without(q, n)) = Len(q) - 1 /\ DOMAIN Without(q, n) = 1..Len(q) - 1
  <2>1. Len(q) - 1 \in Nat
    BY <1>1, SMTT(30)
  <2> QED
    BY <1>4, <2>1, FunctionSeq, ZenonT(30)
<1>7. Len(q) \in Nat
  BY <1>1, SMTT(30)
<1> QED
  BY <1>1, <1>5, <1>6, <1>7, ZenonT(30)

(* In a sequence without repetitions it takes one member out. *)
LEMMA WithoutMembers ==
    ASSUME NEW S, NEW q \in Seq(S), NEW n \in DOMAIN q, Once(q)
    PROVE  Once(Without(q, n)) /\ Members(Without(q, n)) = Members(q) \ {q[n]}
<1> DEFINE d == Without(q, n)
           at(k) == IF k < n THEN k ELSE k + 1
<1>1. /\ \A k \in DOMAIN d : d[k] = q[at(k)]
      /\ DOMAIN d = 1..Len(q) - 1 /\ DOMAIN q = 1..Len(q) /\ Len(q) \in Nat
  BY WithoutOne, ZenonT(30)
<1>2. n \in 1..Len(q)
  BY <1>1, ZenonT(30)
<1>3. \A k \in 1..Len(q) - 1 : at(k) \in 1..Len(q) /\ at(k) # n
  BY <1>1, <1>2, SMTT(30)
<1>4. \A j, k \in 1..Len(q) - 1 : at(j) = at(k) => j = k
  BY <1>1, <1>2, SMTT(30)
<1>5. \A k \in 1..Len(q) : k # n => \E j \in 1..Len(q) - 1 : at(j) = k
  <2> SUFFICES ASSUME NEW k \in 1..Len(q), k # n PROVE \E j \in 1..Len(q) - 1 : at(j) = k
    BY ZenonT(30)
  <2>1. CASE k < n
    <3>1. k \in 1..Len(q) - 1 /\ at(k) = k
      BY <1>1, <1>2, <2>1, SMTT(30)
    <3> QED
      BY <3>1, ZenonT(30)
  <2>2. CASE ~(k < n)
    <3>1. k - 1 \in 1..Len(q) - 1 /\ at(k - 1) = k
      BY <1>1, <1>2, <2>2, SMTT(30)
    <3> QED
      BY <3>1, ZenonT(30)
  <2> QED
    BY <2>1, <2>2, ZenonT(30)
<1> HIDE DEF d, at
<1>6. Once(d)
  BY <1>1, <1>3, <1>4, ZenonT(30) DEF Once
<1>7. Members(d) \subseteq Members(q) \ {q[n]}
  <2> SUFFICES ASSUME NEW k \in 1..Len(q) - 1 PROVE d[k] \in Members(q) \ {q[n]}
    BY <1>1, ZenonT(30) DEF Members
  <2>1. d[k] = q[at(k)] /\ at(k) \in DOMAIN q /\ at(k) # n /\ n \in DOMAIN q
    BY <1>1, <1>2, <1>3, ZenonT(30)
  <2>2. q[at(k)] # q[n]
    BY <2>1, ZenonT(30) DEF Once
  <2> QED
    BY <2>1, <2>2, ZenonT(30) DEF Members
<1>8. Members(q) \ {q[n]} \subseteq Members(d)
  <2> SUFFICES ASSUME NEW k \in 1..Len(q), q[k] # q[n] PROVE q[k] \in Members(d)
    BY <1>1, ZenonT(30) DEF Members
  <2>1. PICK j \in 1..Len(q) - 1 : at(j) = k
    BY <1>5, ZenonT(30)
  <2> QED
    BY <1>1, <2>1, ZenonT(30) DEF Members
<1> QED
  BY <1>6, <1>7, <1>8, ZenonT(30) DEF d

(* The tail of such a sequence has lost its head. *)
LEMMA TailMembers ==
    ASSUME NEW S, NEW q \in Seq(S), q # <<>>, Once(q)
    PROVE  /\ Head(q) \in Members(q) /\ Head(q) \in S /\ Tail(q) \in Seq(S)
           /\ Once(Tail(q)) /\ Members(Tail(q)) = Members(q) \ {Head(q)}
<1>1. /\ Len(q) \in Nat \ {0} /\ DOMAIN q = 1..Len(q) /\ Head(q) = q[1] /\ 1 \in DOMAIN q
      /\ Head(q) \in S /\ Tail(q) \in Seq(S)
  BY SMTT(30)
<1>2. DOMAIN Tail(q) = 1..Len(q) - 1 /\ \A k \in 1..Len(q) - 1 : Tail(q)[k] = q[k + 1]
  BY <1>1, SMTT(30)
<1>3. \A k \in 1..Len(q) - 1 : k + 1 \in 1..Len(q) /\ k + 1 # 1 /\ (k < 1 <=> FALSE)
  BY <1>1, SMTT(30)
<1>4. Without(q, 1) = Tail(q)
  <2>1. Without(q, 1) = [k \in 1..Len(q) - 1 |-> q[k + 1]]
    BY <1>3, ZenonT(30) DEF Without
  <2>2. Tail(q) = [k \in 1..Len(q) - 1 |-> q[k + 1]]
    <3>1. Tail(q) \in [1..Len(q) - 1 -> S]
      BY <1>1, <1>2, SeqFunction, ZenonT(30)
    <3> QED
      BY <1>2, <3>1, ZenonT(30)
  <2> QED
    BY <2>1, <2>2, ZenonT(30)
<1>5. Once(Without(q, 1)) /\ Members(Without(q, 1)) = Members(q) \ {q[1]}
  BY <1>1, WithoutMembers, ZenonT(30)
<1>6. q[1] \in Members(q)
  BY <1>1, ZenonT(30) DEF Members
<1> QED
  BY <1>1, <1>4, <1>5, <1>6, ZenonT(30)

(* The set after a step that leaves all descriptors of S in it. *)
SetKept(S) ==
    /\ fds' \in Seq(Fd) /\ pollfd' \in Seq(PollEntry) /\ pollfd_n' \in [Fd -> Nat]
    /\ Once(fds') /\ Tied' /\ S \subseteq Listed'
    /\ \A g \in S : pollfd'[pollfd_n'[g]].revents = pollfd[pollfd_n[g]].revents

(* A listed descriptor is a descriptor. *)
LEMMA ListedFd ==
    ASSUME PollTypes
    PROVE  Listed \subseteq Fd
<1>1. \A k \in DOMAIN fds : fds[k] \in Fd
  <2>1. fds \in [DOMAIN fds -> Fd]
    BY SeqFunction, ZenonT(30) DEF PollTypes
  <2> QED
    BY <2>1, ZenonT(30)
<1> QED
  BY <1>1, ZenonT(30) DEF Listed, Members

(* xpoll_remove: the others keep their entries, where they move to. *)
LEMMA RemoveKeeps ==
    ASSUME PollTypes, Once(fds), Tied, NEW f \in Listed, RemoveFromSet(f)
    PROVE  SetKept(Listed \ {f})
<1> DEFINE n == pollfd_n[f]
           j == CHOOSE k \in DOMAIN fds : fds[k] = f
<1>0. /\ pollfd' = Without(pollfd, n) /\ fds' = Without(fds, j)
      /\ pollfd_n' = [g \in Fd |-> IF g \in Listed /\ pollfd_n[g] > n THEN pollfd_n[g] - 1 ELSE pollfd_n[g]]
  BY ZenonT(30) DEF RemoveFromSet
<1>1. fds \in Seq(Fd) /\ pollfd \in Seq(PollEntry) /\ Listed \subseteq Fd /\ \A g \in Fd : pollfd_n[g] \in Nat
  BY ListedFd, ZenonT(30) DEF PollTypes
<1>2. j \in DOMAIN fds /\ fds[j] = f
  BY ZenonT(30) DEF Listed, Members
<1>3. n \in DOMAIN pollfd /\ pollfd[n].fd = f
  BY ZenonT(30) DEF Tied
<1> HIDE DEF j, n
<1>4. fds' \in Seq(Fd) /\ Once(fds') /\ Listed' = Listed \ {f}
  <2>1. Without(fds, j) \in Seq(Fd)
    BY <1>1, <1>2, WithoutOne, ZenonT(30)
  <2>2. Once(Without(fds, j)) /\ Members(Without(fds, j)) = Members(fds) \ {fds[j]}
    BY <1>1, <1>2, WithoutMembers, ZenonT(30)
  <2> QED
    BY <1>0, <1>2, <2>1, <2>2, ZenonT(30) DEF Listed
<1>5. /\ pollfd' \in Seq(PollEntry) /\ \A k \in DOMAIN pollfd' : pollfd'[k] = pollfd[IF k < n THEN k ELSE k + 1]
      /\ DOMAIN pollfd' = 1..Len(pollfd) - 1 /\ DOMAIN pollfd = 1..Len(pollfd) /\ Len(pollfd) \in Nat
  <2>1. LET d == Without(pollfd, n)
        IN  /\ d \in Seq(PollEntry) /\ \A k \in DOMAIN d : d[k] = pollfd[IF k < n THEN k ELSE k + 1]
            /\ DOMAIN d = 1..Len(pollfd) - 1 /\ DOMAIN pollfd = 1..Len(pollfd) /\ Len(pollfd) \in Nat
    BY <1>1, <1>3, WithoutOne, ZenonT(30)
  <2> QED
    BY <1>0, <2>1, ZenonT(30)
<1>6. ASSUME NEW g \in Listed \ {f}
      PROVE  pollfd_n'[g] \in DOMAIN pollfd' /\ pollfd'[pollfd_n'[g]] = pollfd[pollfd_n[g]]
  <2> DEFINE m == pollfd_n[g]
             k == IF m > n THEN m - 1 ELSE m
  <2>1. m \in DOMAIN pollfd /\ pollfd[m].fd = g /\ g \in Fd /\ m # n
    BY <1>1, <1>3, ZenonT(30) DEF Tied
  <2>2. pollfd_n'[g] = k
    BY <1>0, <2>1, ZenonT(30)
  <2> HIDE DEF m
  <2>3. k \in 1..Len(pollfd) - 1 /\ (IF k < n THEN k ELSE k + 1) = m
    BY <1>3, <1>5, <2>1, SMTT(30)
  <2> HIDE DEF k
  <2>4. pollfd'[k] = pollfd[m]
    BY <1>5, <2>3, ZenonT(30)
  <2> QED
    BY <1>5, <2>2, <2>3, <2>4, ZenonT(30) DEF m
<1>7. pollfd_n' \in [Fd -> Nat]
  <2>1. n \in Nat
    BY <1>3, <1>5, SMTT(30)
  <2>2. \A g \in Fd : pollfd_n[g] > n => pollfd_n[g] - 1 \in Nat
    BY <1>1, <2>1, SMTT(30)
  <2> QED
    BY <1>0, <1>1, <2>2, ZenonT(30)
<1>8. Tied'
  <2>1. \A g \in Listed \ {f} : pollfd[pollfd_n[g]].fd = g
    BY ZenonT(30) DEF Tied
  <2> QED
    BY <1>4, <1>6, <2>1, ZenonT(30) DEF Tied
<1> QED
  BY <1>4, <1>5, <1>6, <1>7, <1>8, ZenonT(30) DEF SetKept

(* xpoll_outgoing changes what is polled for, not what poll has reported. *)
LEMMA OutgoingKeeps ==
    ASSUME PollTypes, Once(fds), Tied, NEW f \in Listed, NEW have \in BOOLEAN, Outgoing(f, have)
    PROVE  SetKept(Listed)
<1> DEFINE n == pollfd_n[f]
           e == [pollfd[n] EXCEPT !.out = have]
<1>1. UNCHANGED <<fds, pollfd_n>> /\ pollfd' = [pollfd EXCEPT ![n] = e]
  BY ZenonT(30) DEF Outgoing
<1>2. fds \in Seq(Fd) /\ pollfd \in Seq(PollEntry) /\ pollfd_n \in [Fd -> Nat] /\ n \in DOMAIN pollfd
  BY ZenonT(30) DEF PollTypes, Tied
<1>3. pollfd[n] \in PollEntry
  <2> HIDE DEF n
  <2> QED
    BY <1>2, SMTT(30)
<1>4. e \in PollEntry /\ e.fd = pollfd[n].fd /\ e.revents = pollfd[n].revents
  BY <1>3, ZenonT(30) DEF PollEntry
<1> HIDE DEF e, n
<1>5. /\ pollfd' \in Seq(PollEntry) /\ DOMAIN pollfd' = DOMAIN pollfd /\ pollfd'[n] = e
      /\ \A k \in DOMAIN pollfd : k # n => pollfd'[k] = pollfd[k]
  BY <1>1, <1>2, <1>4, SMTT(30)
<1>6. Listed' = Listed
  BY <1>1, ZenonT(30) DEF Listed
<1>7. \A k \in DOMAIN pollfd : pollfd'[k].fd = pollfd[k].fd /\ pollfd'[k].revents = pollfd[k].revents
  BY <1>4, <1>5, ZenonT(30)
<1>8. Tied'
  BY <1>1, <1>5, <1>6, <1>7, ZenonT(30) DEF Tied
<1>9. \A g \in Listed : pollfd'[pollfd_n'[g]].revents = pollfd[pollfd_n[g]].revents
  BY <1>1, <1>7, ZenonT(30) DEF Tied
<1> QED
  BY <1>1, <1>2, <1>5, <1>6, <1>8, <1>9, ZenonT(30) DEF SetKept

(* A sequence without repetitions, and something new. *)
LEMMA AppendMembers ==
    ASSUME NEW S, NEW q \in Seq(S), Once(q), NEW e \in S, e \notin Members(q)
    PROVE  Append(q, e) \in Seq(S) /\ Once(Append(q, e)) /\ Members(Append(q, e)) = Members(q) \cup {e}
<1> DEFINE d == Append(q, e)
           n == Len(q) + 1
<1>1. /\ d \in Seq(S) /\ DOMAIN d = DOMAIN q \cup {n} /\ n \notin DOMAIN q /\ d[n] = e
      /\ \A k \in DOMAIN q : d[k] = q[k]
  BY SMTT(30)
<1>2. \A k \in DOMAIN q : q[k] # e
  BY ZenonT(30) DEF Members
<1> HIDE DEF d, n
<1>3. Once(d)
  BY <1>1, <1>2, ZenonT(30) DEF Once
<1>4. Members(d) = Members(q) \cup {e}
  BY <1>1, ZenonT(30) DEF Members
<1> QED
  BY <1>1, <1>3, <1>4, ZenonT(30) DEF d

(* One step of the walk, with the handler called if something happened. *)
LEMMA VisitKeeps ==
    ASSUME PollIInv, polling, walk # <<>>, SetKept(Listed \ {Head(walk)}), walk' = Tail(walk),
           UNCHANGED <<polling, ready>>,
           IF ready[Head(walk)] = {} THEN called' = called
           ELSE called' = Append(called, <<Head(walk), ready[Head(walk)]>>)
    PROVE  PollIInv'
<1> DEFINE f == Head(walk)
<1>0. PollTypes /\ WalkInv
  BY ZenonT(30) DEF PollIInv
<1>1. /\ walk \in Seq(Fd) /\ called \in Seq(Fd \X SUBSET Event) /\ ready \in [Fd -> SUBSET Event]
      /\ Once(walk) /\ Once(called) /\ Members(walk) \subseteq Listed
      /\ Members(called) = CallsOf(Members(walk))
  BY <1>0, ZenonT(30) DEF PollTypes, WalkInv
<1>2. /\ f \in Members(walk) /\ f \in Fd /\ Tail(walk) \in Seq(Fd) /\ Once(Tail(walk))
      /\ Members(Tail(walk)) = Members(walk) \ {f}
  BY <1>1, TailMembers, ZenonT(30)
<1> HIDE DEF f
<1>3. \A g \in Members(walk) \ {f} : g \in Listed' /\ pollfd'[pollfd_n'[g]].revents = ready[g]
  <2>1. \A g \in Members(walk) : pollfd[pollfd_n[g]].revents = ready[g]
    BY <1>0, ZenonT(30) DEF WalkInv
  <2> QED
    BY <1>1, <2>1, ZenonT(30) DEF SetKept, f
<1>4. called' \in Seq(Fd \X SUBSET Event) /\ Once(called') /\ Members(called') = CallsOf(Members(walk) \ {f})
  <2>1. CASE ready[f] = {}
    <3>1. called' = called
      BY <2>1, ZenonT(30) DEF f
    <3>2. CallsOf(Members(walk) \ {f}) = CallsOf(Members(walk))
      BY <2>1, ZenonT(30) DEF CallsOf
    <3> QED
      BY <1>1, <3>1, <3>2, ZenonT(30)
  <2>2. CASE ready[f] # {}
    <3> DEFINE e == <<f, ready[f]>>
    <3>1. called' = Append(called, e)
      BY <2>2, ZenonT(30) DEF f
    <3>2. e \in Fd \X SUBSET Event
      BY <1>1, <1>2, ZenonT(30)
    <3>3. e \notin CallsOf(Members(walk))
      BY <1>2, ZenonT(30) DEF CallsOf
    <3>4. CallsOf(Members(walk) \ {f}) = CallsOf(Members(walk)) \cup {e}
      <4> DEFINE A == {g \in Fd \ (Members(walk) \ {f}) : ready[g] # {}}
                 B == {g \in Fd \ Members(walk) : ready[g] # {}}
      <4>1. A = B \cup {f}
        BY <1>2, <2>2, ZenonT(30)
      <4>2. CallsOf(Members(walk) \ {f}) = {<<g, ready[g]>> : g \in A} /\ CallsOf(Members(walk)) = {<<g, ready[g]>> : g \in B}
        BY ZenonT(30) DEF CallsOf
      <4> HIDE DEF A, B
      <4> QED
        BY <4>1, <4>2, ZenonT(30)
    <3> DEFINE T == Fd \X SUBSET Event
    <3>5. called \in Seq(T) /\ Once(called) /\ e \in T /\ e \notin Members(called)
      BY <1>1, <3>2, <3>3, ZenonT(30)
    <3> HIDE DEF e, T
    <3>6. /\ Append(called, e) \in Seq(T) /\ Once(Append(called, e))
          /\ Members(Append(called, e)) = Members(called) \cup {e}
      BY <3>5, AppendMembers, ZenonT(30)
    <3> QED
      BY <1>1, <3>1, <3>4, <3>6, ZenonT(30) DEF T
  <2> QED
    BY <2>1, <2>2, ZenonT(30)
<1>5. WalkInv'
  <2>1. \A S : CallsOf(S)' = CallsOf(S)
    BY ZenonT(30) DEF CallsOf
  <2> QED
    BY <1>2, <1>3, <1>4, <2>1, ZenonT(30) DEF WalkInv
<1>6. PollTypes'
  BY <1>0, <1>2, <1>4, ZenonT(30) DEF PollTypes, SetKept
<1> QED
  BY <1>5, <1>6, ZenonT(30) DEF PollIInv, SetKept

(* Between walks the set may change as it likes. *)
LEMMA IdleKeeps ==
    ASSUME PollIInv, ~polling, UNCHANGED walkVars, SetKept({})
    PROVE  PollIInv'
<1>1. UNCHANGED <<polling, walk, ready, called>>
  BY ZenonT(30) DEF walkVars
<1>2. PollTypes'
  BY <1>1, ZenonT(30) DEF PollIInv, PollTypes, SetKept
<1> QED
  BY <1>1, <1>2, ZenonT(30) DEF PollIInv, SetKept

(* xpoll_add: the new descriptor is the last of the array and the first of the list. *)
LEMMA AddKeeps ==
    ASSUME PollIInv, NEW f \in Fd, Add(f)
    PROVE  PollIInv'
<1> DEFINE n == Len(pollfd) + 1
           e == [fd |-> f, out |-> FALSE, revents |-> {}]
<1>0. /\ ~polling /\ UNCHANGED walkVars /\ f \notin Listed
      /\ fds' = <<f>> \o fds /\ pollfd' = Append(pollfd, e) /\ pollfd_n' = [pollfd_n EXCEPT ![f] = n]
  BY ZenonT(30) DEF Add
<1>1. fds \in Seq(Fd) /\ pollfd \in Seq(PollEntry) /\ pollfd_n \in [Fd -> Nat] /\ Once(fds) /\ Tied /\ Listed \subseteq Fd
  BY ListedFd, ZenonT(30) DEF PollIInv, PollTypes
<1>2. e \in PollEntry /\ e.fd = f
  BY ZenonT(30) DEF PollEntry
<1> HIDE DEF e
<1>3. /\ pollfd' \in Seq(PollEntry) /\ DOMAIN pollfd' = DOMAIN pollfd \cup {n} /\ pollfd'[n] = e /\ n \in Nat
      /\ \A k \in DOMAIN pollfd : pollfd'[k] = pollfd[k]
  BY <1>0, <1>1, <1>2, SMTT(30)
<1> HIDE DEF n
<1>4. pollfd_n' \in [Fd -> Nat] /\ pollfd_n'[f] = n /\ \A g \in Fd : g # f => pollfd_n'[g] = pollfd_n[g]
  BY <1>0, <1>1, <1>3, ZenonT(30)
<1>5. fds' \in Seq(Fd) /\ Once(fds') /\ Listed' = Listed \cup {f}
  <2>1. /\ fds' \in Seq(Fd) /\ Len(fds) \in Nat /\ DOMAIN fds = 1..Len(fds) /\ DOMAIN fds' = 1..Len(fds) + 1
        /\ fds'[1] = f
    BY <1>0, <1>1, SMTT(30)
  <2>2. \A k \in 1..Len(fds) + 1 : k # 1 => fds'[k] = fds[k - 1]
    BY <1>0, <1>1, <2>1, SMTT(30)
  <2>3. \A k \in 1..Len(fds) + 1 : k # 1 => k - 1 \in 1..Len(fds)
    BY <2>1, SMTT(30)
  <2>4. \A k \in 1..Len(fds) : k + 1 \in 1..Len(fds) + 1 /\ k + 1 # 1 /\ k + 1 - 1 = k
    BY <2>1, SMTT(30)
  <2>5. \A j, k \in 1..Len(fds) + 1 : j - 1 = k - 1 => j = k
    BY <2>1, SMTT(30)
  <2>6. 1 \in 1..Len(fds) + 1
    BY <2>1, SMTT(30)
  <2>7. \A k \in 1..Len(fds) : fds[k] # f
    BY <1>0, <2>1, ZenonT(30) DEF Listed, Members
  <2>8. Once(fds')
    <3> SUFFICES ASSUME NEW j \in 1..Len(fds) + 1, NEW k \in 1..Len(fds) + 1, fds'[j] = fds'[k] PROVE j = k
      BY <2>1, ZenonT(30) DEF Once
    <3>1. CASE j = 1 \/ k = 1
      BY <2>1, <2>2, <2>3, <2>7, <3>1, ZenonT(30)
    <3>2. CASE j # 1 /\ k # 1
      BY <1>1, <2>1, <2>2, <2>3, <2>5, <3>2, ZenonT(30) DEF Once
    <3> QED
      BY <3>1, <3>2, ZenonT(30)
  <2>9. Listed' \subseteq Listed \cup {f}
    BY <2>1, <2>2, <2>3, ZenonT(30) DEF Listed, Members
  <2>10. f \in Listed'
    BY <2>1, <2>6, ZenonT(30) DEF Listed, Members
  <2>11. Listed \subseteq Listed'
    <3> SUFFICES ASSUME NEW k \in 1..Len(fds) PROVE fds[k] \in Listed'
      BY <2>1, ZenonT(30) DEF Listed, Members
    <3>1. fds'[k + 1] = fds[k] /\ k + 1 \in DOMAIN fds'
      BY <2>1, <2>2, <2>4, SMTT(30)
    <3> QED
      BY <3>1, ZenonT(30) DEF Listed, Members
  <2> QED
    BY <2>1, <2>8, <2>9, <2>10, <2>11, ZenonT(30)
<1>6. Tied'
  <2>1. pollfd_n'[f] \in DOMAIN pollfd' /\ pollfd'[pollfd_n'[f]].fd = f
    BY <1>2, <1>3, <1>4, ZenonT(30)
  <2>2. ASSUME NEW g \in Listed PROVE pollfd_n'[g] \in DOMAIN pollfd' /\ pollfd'[pollfd_n'[g]].fd = g
    <3>1. pollfd_n'[g] = pollfd_n[g] /\ pollfd_n[g] \in DOMAIN pollfd /\ pollfd[pollfd_n[g]].fd = g
      BY <1>0, <1>1, <1>4, ZenonT(30) DEF Tied
    <3> QED
      BY <1>3, <3>1, ZenonT(30)
  <2> QED
    BY <1>5, <2>1, <2>2, ZenonT(30) DEF Tied
<1>7. SetKept({})
  BY <1>3, <1>4, <1>5, <1>6, ZenonT(30) DEF SetKept
<1> QED
  BY <1>0, <1>7, IdleKeeps, ZenonT(30)

(* poll fills in the revents of every entry, and the walk begins. *)
LEMMA PollKeeps ==
    ASSUME PollIInv, Poll
    PROVE  PollIInv'
<1>1. PICK r \in [Fd -> SUBSET Event] :
        /\ \A f \in Fd \ Listed : r[f] = {}
        /\ pollfd' = [k \in 1..Len(pollfd) |-> [pollfd[k] EXCEPT !.revents = r[pollfd[k].fd]]]
        /\ ready' = r
  BY ZenonT(30) DEF Poll
<1>2. polling' = TRUE /\ walk' = fds /\ called' = <<>> /\ UNCHANGED <<fds, pollfd_n>>
  BY ZenonT(30) DEF Poll
<1>3. fds \in Seq(Fd) /\ pollfd \in Seq(PollEntry) /\ pollfd_n \in [Fd -> Nat] /\ Once(fds) /\ Tied /\ Listed \subseteq Fd
  BY ListedFd, ZenonT(30) DEF PollIInv, PollTypes
<1>4. Len(pollfd) \in Nat /\ DOMAIN pollfd = 1..Len(pollfd)
  BY <1>3, SMTT(30)
<1>5. \A k \in 1..Len(pollfd) : pollfd[k] \in PollEntry
  BY <1>3, <1>4, SeqFunction, ZenonT(30)
<1>6. ASSUME NEW k \in 1..Len(pollfd)
      PROVE  /\ pollfd'[k] \in PollEntry /\ pollfd'[k].fd = pollfd[k].fd
             /\ pollfd'[k].revents = r[pollfd[k].fd]
  <2> DEFINE e == pollfd[k]
             v == r[e.fd]
  <2>1. e \in PollEntry
    BY <1>5, ZenonT(30)
  <2>2. pollfd'[k] = [e EXCEPT !.revents = v]
    BY <1>1, ZenonT(30)
  <2>3. v \in SUBSET Event
    BY <2>1, ZenonT(30) DEF PollEntry
  <2> HIDE DEF e, v
  <2>4. LET d == [e EXCEPT !.revents = v] IN d \in PollEntry /\ d.fd = e.fd /\ d.revents = v
    BY <2>1, <2>3, ZenonT(30) DEF PollEntry
  <2> QED
    BY <2>2, <2>4, ZenonT(30) DEF e, v
<1>7. pollfd' \in Seq(PollEntry) /\ DOMAIN pollfd' = DOMAIN pollfd
  <2>1. pollfd' \in [1..Len(pollfd) -> PollEntry]
    BY <1>1, <1>6, ZenonT(30)
  <2> QED
    BY <1>4, <2>1, FunctionSeq, ZenonT(30)
<1>8. Listed' = Listed /\ Members(walk') = Listed
  BY <1>2, ZenonT(30) DEF Listed
<1>9. Tied'
  BY <1>2, <1>3, <1>4, <1>6, <1>7, <1>8, ZenonT(30) DEF Tied
<1>10. \A f \in Listed : pollfd'[pollfd_n'[f]].revents = ready'[f]
  BY <1>1, <1>2, <1>3, <1>4, <1>6, ZenonT(30) DEF Tied
<1>11. called' \in Seq(Fd \X SUBSET Event) /\ DOMAIN called' = {}
  BY <1>2, SMTT(30)
<1>12. Members(called') = {} /\ Once(called')
  BY <1>11, ZenonT(30) DEF Members, Once
<1>13. CallsOf(Listed)' = {}
  BY <1>1, <1>8, ZenonT(30) DEF CallsOf
<1>14. WalkInv'
  BY <1>2, <1>3, <1>8, <1>10, <1>12, <1>13, ZenonT(30) DEF WalkInv, CallsOf
<1>15. PollTypes'
  BY <1>1, <1>2, <1>3, <1>7, <1>11, ZenonT(30) DEF PollTypes
<1> QED
  BY <1>2, <1>3, <1>9, <1>14, <1>15, ZenonT(30) DEF PollIInv

(* What the walk visits next is listed, with the events poll reported. *)
LEMMA VisitedListed ==
    ASSUME PollIInv, polling, walk # <<>>
    PROVE  /\ Head(walk) \in Listed /\ pollfd[pollfd_n[Head(walk)]].revents = ready[Head(walk)]
           /\ PollTypes /\ Once(fds) /\ Tied
<1>1. PollTypes /\ Once(fds) /\ Tied /\ WalkInv
  BY ZenonT(30) DEF PollIInv
<1>2. walk \in Seq(Fd) /\ Once(walk)
  BY <1>1, ZenonT(30) DEF PollTypes, WalkInv
<1>3. Head(walk) \in Members(walk)
  BY <1>2, TailMembers, ZenonT(30)
<1> QED
  BY <1>1, <1>3, ZenonT(30) DEF WalkInv

(* A set that has not changed has kept everything. *)
LEMMA SetAsItWas ==
    ASSUME PollTypes, Once(fds), Tied, UNCHANGED setVars
    PROVE  SetKept(Listed)
<1>1. UNCHANGED <<fds, pollfd, pollfd_n>>
  BY ZenonT(30) DEF setVars
<1> QED
  BY <1>1, ZenonT(30) DEF SetKept, PollTypes, Tied, Listed

(* Keeping more is keeping less. *)
LEMMA KeptLess ==
    ASSUME NEW S, NEW T \in SUBSET S, SetKept(S)
    PROVE  SetKept(T)
  BY ZenonT(30) DEF SetKept

(* A descriptor without events is passed over. *)
LEMMA PassOverKeeps ==
    ASSUME PollIInv, PassOver
    PROVE  PollIInv'
<1>1. /\ polling /\ walk # <<>> /\ pollfd[pollfd_n[Head(walk)]].revents = {}
      /\ UNCHANGED setVars /\ UNCHANGED <<polling, ready>> /\ called' = called /\ walk' = Tail(walk)
  BY ZenonT(30) DEF PassOver, NextVisit
<1>2. SetKept(Listed)
  BY <1>1, VisitedListed, SetAsItWas, ZenonT(30)
<1>3. SetKept(Listed \ {Head(walk)})
  BY <1>2, KeptLess, ZenonT(30)
<1>4. ready[Head(walk)] = {}
  BY <1>1, VisitedListed, ZenonT(30)
<1> QED
  BY <1>1, <1>3, <1>4, VisitKeeps, ZenonT(30)

(* A handler may take its own descriptor out, or change what it polls for. *)
LEMMA HandleKeeps ==
    ASSUME PollIInv, Handle
    PROVE  PollIInv'
<1> DEFINE f == Head(walk)
           ev == pollfd[pollfd_n[f]].revents
<1>1. /\ polling /\ walk # <<>> /\ ev # {} /\ called' = Append(called, <<f, ev>>)
      /\ RemoveFromSet(f) \/ \E have \in BOOLEAN : Outgoing(f, have)
      /\ UNCHANGED <<polling, ready>> /\ walk' = Tail(walk)
  BY ZenonT(30) DEF Handle, NextVisit
<1>2. f \in Listed /\ ev = ready[f] /\ PollTypes /\ Once(fds) /\ Tied
  BY <1>1, VisitedListed, ZenonT(30)
<1>3. SetKept(Listed \ {f})
  <2>1. CASE RemoveFromSet(f)
    BY <1>2, <2>1, RemoveKeeps, ZenonT(30)
  <2>2. CASE \E have \in BOOLEAN : Outgoing(f, have)
    <3>1. SetKept(Listed)
      BY <1>2, <2>2, OutgoingKeeps, ZenonT(30)
    <3> QED
      BY <3>1, KeptLess, ZenonT(30)
  <2> QED
    BY <1>1, <2>1, <2>2, ZenonT(30)
<1>4. ready[f] # {} /\ called' = Append(called, <<f, ready[f]>>)
  BY <1>1, <1>2, ZenonT(30)
<1> QED
  BY <1>1, <1>3, <1>4, VisitKeeps, ZenonT(30)

(* A client closed between two walks. *)
LEMMA TakeOutKeeps ==
    ASSUME PollIInv, NEW f \in Fd, TakeOut(f)
    PROVE  PollIInv'
<1>1. ~polling /\ f \in Listed /\ RemoveFromSet(f) /\ UNCHANGED walkVars
  BY ZenonT(30) DEF TakeOut
<1>2. SetKept(Listed \ {f})
  BY <1>1, RemoveKeeps, ZenonT(30) DEF PollIInv
<1>3. SetKept({})
  BY <1>2, ZenonT(30) DEF SetKept
<1> QED
  BY <1>1, <1>3, IdleKeeps, ZenonT(30)

(* Output queued between two walks. *)
LEMMA WriteSomeKeeps ==
    ASSUME PollIInv, NEW f \in Fd, WriteSome(f)
    PROVE  PollIInv'
<1>1. ~polling /\ f \in Listed /\ (\E have \in BOOLEAN : Outgoing(f, have)) /\ UNCHANGED walkVars
  BY ZenonT(30) DEF WriteSome
<1>2. SetKept(Listed)
  BY <1>1, OutgoingKeeps, ZenonT(30) DEF PollIInv
<1>3. SetKept({})
  BY <1>2, ZenonT(30) DEF SetKept
<1> QED
  BY <1>1, <1>3, IdleKeeps, ZenonT(30)

(* The end of a walk forgets what it has called. *)
LEMMA WalkDoneKeeps ==
    ASSUME PollIInv, WalkDone
    PROVE  PollIInv'
<1>1. polling' = FALSE /\ ready' = NoEvents /\ called' = <<>> /\ UNCHANGED setVars /\ walk' = walk
  BY ZenonT(30) DEF WalkDone
<1>2. SetKept(Listed)
  BY <1>1, SetAsItWas, ZenonT(30) DEF PollIInv
<1>3. called' \in Seq(Fd \X SUBSET Event)
  BY <1>1, SMTT(30)
<1>4. ready' \in [Fd -> SUBSET Event]
  BY <1>1, ZenonT(30) DEF NoEvents
<1>5. PollTypes'
  BY <1>1, <1>2, <1>3, <1>4, ZenonT(30) DEF PollIInv, PollTypes, SetKept
<1> QED
  BY <1>1, <1>2, <1>5, ZenonT(30) DEF PollIInv, SetKept

(* An empty set, and no walk. *)
LEMMA PollInvInit ==
    ASSUME PollInit
    PROVE  PollIInv
<1>1. DOMAIN fds = {} /\ fds \in Seq(Fd) /\ pollfd \in Seq(PollEntry) /\ walk \in Seq(Fd) /\ called \in Seq(Fd \X SUBSET Event)
  BY SMTT(30) DEF PollInit
<1>2. Once(fds) /\ Listed = {}
  BY <1>1, ZenonT(30) DEF Once, Listed, Members
<1>3. pollfd_n \in [Fd -> Nat] /\ ready \in [Fd -> SUBSET Event]
  <2>1. 0 \in Nat
    BY SMT
  <2> QED
    BY <2>1, ZenonT(30) DEF PollInit, NoEvents
<1> QED
  BY <1>1, <1>2, <1>3, ZenonT(30) DEF PollInit, PollIInv, PollTypes, Tied

(* Every step keeps the invariant. *)
LEMMA PollInvNext ==
    ASSUME PollIInv, [PollNext]_pollVars
    PROVE  PollIInv'
<1>1. CASE \E f \in Fd : Add(f) \/ TakeOut(f) \/ WriteSome(f)
  BY <1>1, AddKeeps, TakeOutKeeps, WriteSomeKeeps, ZenonT(30)
<1>2. CASE Poll
  BY <1>2, PollKeeps, ZenonT(30)
<1>3. CASE PassOver
  BY <1>3, PassOverKeeps, ZenonT(30)
<1>4. CASE Handle
  BY <1>4, HandleKeeps, ZenonT(30)
<1>5. CASE WalkDone
  BY <1>5, WalkDoneKeeps, ZenonT(30)
<1>6. CASE UNCHANGED pollVars
  <2>1. UNCHANGED <<fds, pollfd, pollfd_n, polling, walk, ready, called>>
    BY <1>6, ZenonT(30) DEF pollVars, setVars, walkVars
  <2> QED
    BY <2>1, ZenonT(30) DEF PollIInv, PollTypes, Tied, Listed, WalkInv, CallsOf
<1> QED
  BY <1>1, <1>2, <1>3, <1>4, <1>5, <1>6, ZenonT(30) DEF PollNext

(* The list, the array and the indices stay tied together, and a walk owes *)
(* calls to exactly the descriptors it has still to visit.                 *)
THEOREM PollInvariant == PollSpec => []PollIInv
<1> QED
  BY PollInvInit, PollInvNext, PTL DEF PollSpec

(* For any set of descriptors: however handlers remove entries under the   *)
(* walk, at its end each descriptor with events has had its handler called *)
(* once, with its own events.                                              *)
THEOREM AlwaysHandledOnce == PollSpec => []EachHandledOnce
<1>1. PollIInv => EachHandledOnce
  <2> SUFFICES ASSUME PollIInv, polling, walk = <<>>
               PROVE  /\ Members(called) = {<<f, ready[f]>> : f \in {g \in Fd : ready[g] # {}}}
                      /\ \A j, k \in DOMAIN called : called[j] = called[k] => j = k
    BY ZenonT(30) DEF EachHandledOnce
  <2>1. Members(called) = CallsOf(Members(walk)) /\ Once(called)
    BY ZenonT(30) DEF PollIInv, WalkInv
  <2>2. Members(walk) = {}
    <3>1. DOMAIN walk = {}
      BY SMTT(30)
    <3> QED
      BY <3>1, ZenonT(30) DEF Members
  <2>3. CallsOf({}) = {<<f, ready[f]>> : f \in {g \in Fd : ready[g] # {}}}
    <3>1. {g \in Fd \ {} : ready[g] # {}} = {g \in Fd : ready[g] # {}}
      BY ZenonT(30)
    <3> QED
      BY <3>1, ZenonT(30) DEF CallsOf
  <2> QED
    BY <2>1, <2>2, <2>3, ZenonT(30) DEF Once
<1> QED
  BY <1>1, PollInvariant, PTL

-----------------------------------------------------------------------------
(***************************************************************************)
(* The input of a client.  LineStart counts the bytes of the stream before *)
(* the line that is being collected: ibuf holds the stream from there on,  *)
(* and the handlers have had the lines before it.                          *)
(***************************************************************************)
LineStart == got - ibuf_end + row_start

InputTypes ==
    /\ stream \in Seq({"c", "e"}) /\ got \in 0..Len(stream)
    /\ ibuf \in [0..ibuf_size - 1 -> Nat] /\ ibuf_end \in 0..ibuf_size - 1 /\ ibuf_end <= got
    /\ row_start \in 0..ibuf_end /\ i \in Nat /\ handed \in Seq(Seq(Nat))
    /\ ipc \in {"poll", "deframe"} /\ iopen \in BOOLEAN

InOrder == \A k \in 1..Len(handed) - 1 : handed[k][1] < handed[k + 1][1]

HandedLines == {handed[k] : k \in 1..Len(handed)}

Framed ==
    /\ \A k \in row_start..ibuf_end - 1 : ibuf[k] = got - ibuf_end + k + 1
    /\ LineStart = 0 \/ stream[LineStart] = "e"
    /\ HandedLines = CompleteLines(LineStart)
    /\ ipc = "poll" => row_start = 0 /\ \A k \in LineStart + 1..got : stream[k] = "c"
    /\ ipc = "deframe" => /\ i \in {row_start, row_start + 1}
                          /\ i > row_start /\ row_start < ibuf_end => stream[LineStart + 1] = "c"

InputIInv == ~again => InputTypes /\ InOrder /\ (iopen => Framed) /\ (~iopen => ipc = "poll")

(* A set of natural numbers has a least member. *)
LEMMA LeastNatural ==
    ASSUME NEW S \in SUBSET Nat, S # {}
    PROVE  \E n \in S : \A m \in S : n <= m
<1>1. PICK n \in S : \A m \in S : ~(<<m, n>> \in OpToRel(<, Nat))
  BY NatLessThanWellFounded, WFMin, ZenonT(30)
<1>2. ASSUME NEW m \in S PROVE n <= m
  <2>1. ~(m < n)
    BY <1>1 DEF OpToRel
  <2> QED
    BY <2>1, SMTT(30)
<1> QED
  BY <1>2, ZenonT(30)

(* From k on, the first place of S up to the bound n, or n. *)
LEMMA FirstPlace ==
    ASSUME NEW n \in Nat, NEW k \in 0..n, NEW S
    PROVE  \E j \in k..n : (j = n \/ j \in S) /\ \A m \in k..j - 1 : m \notin S
<1> DEFINE T == {j \in k..n : j = n \/ j \in S}
<1>1. T \in SUBSET Nat /\ n \in T
  BY SMTT(30)
<1>2. PICK j \in T : \A m \in T : j <= m
  BY <1>1, LeastNatural, ZenonT(30)
<1>3. j \in k..n /\ (j = n \/ j \in S)
  BY ZenonT(30)
<1>4. \A m \in k..j - 1 : m \in k..n /\ ~(j <= m)
  BY <1>3, SMTT(30)
<1>5. \A m \in k..j - 1 : m \notin S
  BY <1>2, <1>4, ZenonT(30)
<1> QED
  BY <1>3, <1>5, ZenonT(30)

(* FindEol finds the first end of line, or the end of the data. *)
LEMMA FindEolFinds ==
    ASSUME ibuf_end \in Nat, NEW k \in 0..ibuf_end
    PROVE  /\ FindEol(k) \in k..ibuf_end /\ (FindEol(k) = ibuf_end \/ IsEol(ibuf[FindEol(k)]))
           /\ \A m \in k..FindEol(k) - 1 : ~IsEol(ibuf[m])
<1> DEFINE S == {m \in k..ibuf_end : IsEol(ibuf[m])}
<1>1. PICK j \in k..ibuf_end : (j = ibuf_end \/ j \in S) /\ \A m \in k..j - 1 : m \notin S
  <2> HIDE DEF S
  <2> QED
    BY FirstPlace, ZenonT(30)
<1>2. \A m \in k..j - 1 : m \in k..ibuf_end
  BY SMTT(30)
<1>3. \E n \in k..ibuf_end : (n = ibuf_end \/ IsEol(ibuf[n])) /\ \A m \in k..n - 1 : ~IsEol(ibuf[m])
  BY <1>1, <1>2, ZenonT(30)
<1> QED
  BY <1>3, ZenonT(30) DEF FindEol

(* SkipEol finds the first byte that does not end a line, or the end of the data. *)
LEMMA SkipEolSkips ==
    ASSUME ibuf_end \in Nat, NEW k \in 0..ibuf_end
    PROVE  /\ SkipEol(k) \in k..ibuf_end /\ (SkipEol(k) = ibuf_end \/ ~IsEol(ibuf[SkipEol(k)]))
           /\ \A m \in k..SkipEol(k) - 1 : IsEol(ibuf[m])
<1> DEFINE S == {m \in k..ibuf_end : ~IsEol(ibuf[m])}
<1>1. PICK j \in k..ibuf_end : (j = ibuf_end \/ j \in S) /\ \A m \in k..j - 1 : m \notin S
  <2> HIDE DEF S
  <2> QED
    BY FirstPlace, ZenonT(30)
<1>2. \A m \in k..j - 1 : m \in k..ibuf_end
  BY SMTT(30)
<1>3. \E n \in k..ibuf_end : (n = ibuf_end \/ ~IsEol(ibuf[n])) /\ \A m \in k..n - 1 : IsEol(ibuf[m])
  BY <1>1, <1>2, ZenonT(30)
<1> QED
  BY <1>3, ZenonT(30) DEF SkipEol

(* The positions of the line from a up to the end of line at b. *)
Text(a, b) == [o \in 1..b - a |-> a + o - 1]

(* What a complete line is. *)
LEMMA LineOf ==
    ASSUME NEW n, NEW x
    PROVE  /\ x \in CompleteLines(n) => \E a, b \in 1..n : IsLine(a, b) /\ x = Text(a, b)
           /\ (\E a, b \in 1..n : IsLine(a, b) /\ x = Text(a, b)) => x \in CompleteLines(n)
<1>1. CompleteLines(n) = {Text(l[1], l[2]) : l \in {b \in (1..n) \X (1..n) : IsLine(b[1], b[2])}}
  BY ZenonT(30) DEF CompleteLines, Text
<1>2. ASSUME x \in CompleteLines(n) PROVE \E a, b \in 1..n : IsLine(a, b) /\ x = Text(a, b)
  <2>1. PICK l \in (1..n) \X (1..n) : IsLine(l[1], l[2]) /\ x = Text(l[1], l[2])
    BY <1>1, <1>2, ZenonT(30)
  <2>2. l[1] \in 1..n /\ l[2] \in 1..n
    BY SMTT(30)
  <2> QED
    BY <2>1, <2>2, ZenonT(30)
<1>3. ASSUME NEW a \in 1..n, NEW b \in 1..n, IsLine(a, b), x = Text(a, b) PROVE x \in CompleteLines(n)
  <2> DEFINE l == <<a, b>>
  <2>1. l \in (1..n) \X (1..n) /\ l[1] = a /\ l[2] = b
    BY SMTT(30)
  <2> HIDE DEF l
  <2> QED
    BY <1>1, <1>3, <2>1, ZenonT(30)
<1> QED
  BY <1>2, <1>3, ZenonT(30)

(* The first byte of a complete line has arrived. *)
LEMMA LineBegins ==
    ASSUME NEW n \in Nat, NEW x \in CompleteLines(n)
    PROVE  x[1] \in 1..n
<1>0. \E a, b \in 1..n : IsLine(a, b) /\ x = Text(a, b)
  BY LineOf, SMTT(30)
<1>1. PICK a \in 1..n, b \in 1..n : IsLine(a, b) /\ x = Text(a, b)
  BY <1>0, ZenonT(30)
<1>2. a < b
  BY <1>1, ZenonT(30) DEF IsLine
<1>3. 1 \in 1..b - a /\ a + 1 - 1 = a
  BY <1>2, SMTT(30)
<1>4. x[1] = a
  BY <1>1, <1>3, SMTT(30) DEF Text
<1> QED
  BY <1>4, ZenonT(30)

(* Before p a line has ended, the line up to q is the next one, and only   *)
(* ends of lines follow up to r.                                           *)
NextLine(p, q, r) ==
    /\ p < q /\ q <= r /\ (p = 0 \/ stream[p] = "e")
    /\ \A k \in p + 1..q - 1 : stream[k] = "c"
    /\ \A k \in q..r : stream[k] = "e"

(* Then it is the only new one. *)
LEMMA OneMoreLine ==
    ASSUME NEW p \in Nat, NEW q \in Nat, NEW r \in Nat, NextLine(p, q, r), NEW a \in 1..r, NEW b \in 1..r
    PROVE  IsLine(a, b) <=> (IsLine(a, b) /\ a \in 1..p /\ b \in 1..p) \/ (a = p + 1 /\ b = q /\ p + 1 < q)
<1>1. ASSUME IsLine(a, b), ~(a \in 1..p /\ b \in 1..p) PROVE a = p + 1 /\ b = q /\ p + 1 < q
  <2>1. /\ a < b /\ stream[b] = "e" /\ \A k \in a..b - 1 : stream[k] = "c"
        /\ a = 1 \/ stream[a - 1] = "e"
    BY <1>1, ZenonT(30) DEF IsLine
  <2>2. b > p
    BY <1>1, <2>1, SMTT(30)
  <2>3. b = q
    <3>1. ~(b < q)
      <4> SUFFICES ASSUME b < q PROVE FALSE
        OBVIOUS
      <4>1. b \in p + 1..q - 1
        BY <2>2, SMTT(30)
      <4> QED
        BY <2>1, <4>1, ZenonT(30) DEF NextLine
    <3>2. ~(b > q)
      <4> SUFFICES ASSUME b > q PROVE FALSE
        OBVIOUS
      <4>1. b - 1 \in q..r /\ b - 1 \in a..b - 1
        BY <2>1, SMTT(30)
      <4> QED
        BY <2>1, <4>1, ZenonT(30) DEF NextLine
    <3> QED
      BY <3>1, <3>2, SMTT(30)
  <2>4. a = p + 1
    <3>1. ~(a > p + 1)
      <4> SUFFICES ASSUME a > p + 1 PROVE FALSE
        OBVIOUS
      <4>1. a - 1 \in p + 1..q - 1 /\ a # 1
        BY <2>1, <2>3, SMTT(30)
      <4> QED
        BY <2>1, <4>1, ZenonT(30) DEF NextLine
    <3>2. ~(a <= p)
      <4> SUFFICES ASSUME a <= p PROVE FALSE
        OBVIOUS
      <4>1. p \in a..b - 1 /\ p # 0
        BY <2>2, SMTT(30)
      <4> QED
        BY <2>1, <4>1, ZenonT(30) DEF NextLine
    <3> QED
      BY <3>1, <3>2, SMTT(30)
  <2> QED
    BY <2>1, <2>3, <2>4, ZenonT(30)
<1>2. ASSUME a = p + 1, b = q, p + 1 < q PROVE IsLine(a, b)
  <2>1. a - 1 = p /\ q \in q..r /\ (p = 0 => a = 1)
    BY <1>2, SMTT(30) DEF NextLine
  <2> QED
    BY <1>2, <2>1, ZenonT(30) DEF IsLine, NextLine
<1> QED
  BY <1>1, <1>2, ZenonT(30)

(* So it is the one line that the bytes up to r add. *)
LEMMA MoreLines ==
    ASSUME NEW p \in Nat, NEW q \in Nat, NEW r \in Nat, NextLine(p, q, r)
    PROVE  CompleteLines(r) = CompleteLines(p) \cup (IF p + 1 < q THEN {Text(p + 1, q)} ELSE {})
<1>1. p < q /\ q <= r
  BY ZenonT(30) DEF NextLine
<1>2. 1..p \subseteq 1..r /\ p + 1 \in 1..r /\ q \in 1..r
  BY <1>1, SMTT(30)
<1>3. ASSUME NEW x \in CompleteLines(r)
      PROVE  x \in CompleteLines(p) \/ (p + 1 < q /\ x = Text(p + 1, q))
  <2>0. \E a, b \in 1..r : IsLine(a, b) /\ x = Text(a, b)
    BY LineOf, SMTT(30)
  <2>1. PICK a \in 1..r, b \in 1..r : IsLine(a, b) /\ x = Text(a, b)
    BY <2>0, ZenonT(30)
  <2>2. (a \in 1..p /\ b \in 1..p) \/ (a = p + 1 /\ b = q /\ p + 1 < q)
    BY <2>1, OneMoreLine, ZenonT(30)
  <2>3. CASE a \in 1..p /\ b \in 1..p
    BY <2>1, <2>3, LineOf, SMTT(30)
  <2> QED
    BY <2>1, <2>2, <2>3, ZenonT(30)
<1>4. ASSUME NEW x \in CompleteLines(p) PROVE x \in CompleteLines(r)
  <2>0. \E a, b \in 1..p : IsLine(a, b) /\ x = Text(a, b)
    BY LineOf, SMTT(30)
  <2>1. \E a, b \in 1..r : IsLine(a, b) /\ x = Text(a, b)
    BY <1>2, <2>0, ZenonT(30)
  <2> QED
    BY <2>1, LineOf, SMTT(30)
<1>5. ASSUME p + 1 < q PROVE Text(p + 1, q) \in CompleteLines(r)
  <2>1. IsLine(p + 1, q)
    BY <1>2, <1>5, OneMoreLine, ZenonT(30)
  <2> QED
    BY <1>2, <2>1, LineOf, SMTT(30)
<1> QED
  BY <1>3, <1>4, <1>5, ZenonT(30)

(* Bytes that end no line add none. *)
LEMMA NoMoreLines ==
    ASSUME NEW p \in Nat, NEW r \in Nat, p <= r, \A k \in p + 1..r : stream[k] = "c"
    PROVE  CompleteLines(r) = CompleteLines(p)
<1>1. 1..p \subseteq 1..r
  BY SMTT(30)
<1>2. ASSUME NEW x \in CompleteLines(r) PROVE x \in CompleteLines(p)
  <2>0. \E a, b \in 1..r : IsLine(a, b) /\ x = Text(a, b)
    BY LineOf, SMTT(30)
  <2>1. PICK a \in 1..r, b \in 1..r : IsLine(a, b) /\ x = Text(a, b)
    BY <2>0, ZenonT(30)
  <2>2. a < b /\ stream[b] = "e"
    BY <2>1, ZenonT(30) DEF IsLine
  <2>3. b \notin p + 1..r
    BY <2>2, ZenonT(30)
  <2>4. a \in 1..p /\ b \in 1..p
    BY <2>2, <2>3, SMTT(30)
  <2> QED
    BY <2>1, <2>4, LineOf, SMTT(30)
<1>3. ASSUME NEW x \in CompleteLines(p) PROVE x \in CompleteLines(r)
  <2>0. \E a, b \in 1..p : IsLine(a, b) /\ x = Text(a, b)
    BY LineOf, SMTT(30)
  <2>1. \E a, b \in 1..r : IsLine(a, b) /\ x = Text(a, b)
    BY <1>1, <2>0, ZenonT(30)
  <2> QED
    BY <2>1, LineOf, SMTT(30)
<1> QED
  BY <1>2, <1>3, ZenonT(30)

(* The numbers of the loop. *)
LEMMA InputNumbers ==
    ASSUME InputTypes
    PROVE  /\ got \in Nat /\ ibuf_end \in Nat /\ row_start \in Nat /\ i \in Nat /\ got - ibuf_end \in Nat
           /\ row_start <= ibuf_end /\ LineStart \in Nat /\ LineStart = (got - ibuf_end) + row_start
           /\ LineStart <= got /\ Len(stream) \in Nat /\ got <= Len(stream) /\ DOMAIN stream = 1..Len(stream)
           /\ ibuf_size \in Nat /\ ibuf_end < ibuf_size /\ \A k \in DOMAIN stream : stream[k] \in {"c", "e"}
  BY InputAssumption, SMTT(30) DEF InputTypes, LineStart

(* The bytes of ibuf from row_start on are those of the stream. *)
LEMMA CellByte ==
    ASSUME InputTypes, Framed, NEW k \in row_start..ibuf_end - 1
    PROVE  LET p == (got - ibuf_end) + k + 1
           IN  /\ ibuf[k] = p /\ p \in DOMAIN stream /\ (IsEol(ibuf[k]) => stream[p] = "e")
               /\ (~IsEol(ibuf[k]) => stream[p] = "c")
<1> DEFINE p == (got - ibuf_end) + k + 1
<1>1. ibuf[k] = p
  <2>1. ibuf[k] = got - ibuf_end + k + 1
    BY ZenonT(30) DEF Framed
  <2> QED
    BY <2>1, InputNumbers, SMTT(30)
<1>2. p # 0 /\ p \in 1..Len(stream)
  BY InputNumbers, SMTT(30)
<1>3. p \in DOMAIN stream /\ stream[p] \in {"c", "e"}
  BY <1>2, InputNumbers, ZenonT(30)
<1> HIDE DEF p
<1>4. IsEol(ibuf[k]) <=> stream[p] = "e"
  BY <1>1, <1>2, ZenonT(30) DEF IsEol, Nul
<1> QED
  BY <1>1, <1>3, <1>4, ZenonT(30) DEF p

(* Before the place where the loop stands no line ends. *)
LEMMA BytesBefore ==
    ASSUME InputTypes, Framed, ipc = "deframe", NEW j \in i..ibuf_end, \A m \in i..j - 1 : ~IsEol(ibuf[m])
    PROVE  /\ row_start <= i
           /\ \A k \in LineStart + 1..(got - ibuf_end) + j : stream[k] = "c"
<1> DEFINE b == got - ibuf_end
<1>1. /\ ibuf_end \in Nat /\ row_start \in Nat /\ i \in Nat /\ b \in Nat /\ LineStart = b + row_start
      /\ row_start <= ibuf_end
  BY InputNumbers, ZenonT(30)
<1>2. i \in {row_start, row_start + 1} /\ (i > row_start /\ row_start < ibuf_end => stream[LineStart + 1] = "c")
  BY ZenonT(30) DEF Framed
<1> HIDE DEF b
<1>3. ASSUME NEW k \in LineStart + 1..b + j PROVE stream[k] = "c"
  <2> DEFINE m == k - b - 1
  <2>1. m \in row_start..ibuf_end - 1 /\ m < j /\ b + m + 1 = k
    BY <1>1, <1>2, SMTT(30)
  <2>2. CASE m \in i..j - 1
    <3> HIDE DEF m
    <3>1. ~IsEol(ibuf[m])
      BY <2>2, ZenonT(30)
    <3> QED
      BY <2>1, <3>1, CellByte, ZenonT(30) DEF b
  <2>3. CASE m \notin i..j - 1
    <3>1. i > row_start /\ row_start < ibuf_end /\ LineStart + 1 = k
      BY <1>1, <1>2, <2>1, <2>3, SMTT(30)
    <3> QED
      BY <1>2, <3>1, ZenonT(30)
  <2> QED
    BY <2>2, <2>3, ZenonT(30)
<1> QED
  BY <1>1, <1>2, <1>3, SMTT(30) DEF b

(* The end of line that the loop finds ends the next line of the stream. *)
LEMMA LineFound ==
    ASSUME InputTypes, Framed, ipc = "deframe", i < ibuf_end, FindEol(i) < ibuf_end
    PROVE  LET b == got - ibuf_end
               j == FindEol(i)
               s == SkipEol(j + 1)
           IN  /\ j \in row_start..ibuf_end - 1 /\ s \in j + 1..ibuf_end
               /\ NextLine(LineStart, b + j + 1, b + s)
               /\ s < ibuf_end => stream[b + s + 1] = "c"
<1> DEFINE b == got - ibuf_end
           j == FindEol(i)
           s == SkipEol(j + 1)
<1>1. /\ ibuf_end \in Nat /\ row_start \in Nat /\ i \in Nat /\ b \in Nat /\ LineStart = b + row_start
      /\ row_start <= ibuf_end
  BY InputNumbers, ZenonT(30)
<1>2. i \in 0..ibuf_end
  BY <1>1, SMTT(30)
<1>3. j \in i..ibuf_end /\ (j = ibuf_end \/ IsEol(ibuf[j])) /\ \A m \in i..j - 1 : ~IsEol(ibuf[m])
  BY <1>1, <1>2, FindEolFinds, ZenonT(30)
<1>4. row_start <= i /\ \A k \in LineStart + 1..b + j : stream[k] = "c"
  BY <1>3, BytesBefore, ZenonT(30)
<1> HIDE DEF b, j
<1>5. j \in row_start..ibuf_end - 1 /\ j + 1 \in 0..ibuf_end
  BY <1>1, <1>3, <1>4, SMTT(30) DEF j
<1>6. s \in j + 1..ibuf_end /\ (s = ibuf_end \/ ~IsEol(ibuf[s])) /\ \A m \in j + 1..s - 1 : IsEol(ibuf[m])
  BY <1>1, <1>5, SkipEolSkips, ZenonT(30)
<1>7. IsEol(ibuf[j])
  <2>1. j # ibuf_end
    BY <1>1, <1>5, SMTT(30)
  <2> QED
    BY <1>3, <2>1, ZenonT(30)
<1> HIDE DEF s
<1>8. \A k \in b + j + 1..b + s : stream[k] = "e"
  <2> SUFFICES ASSUME NEW k \in b + j + 1..b + s PROVE stream[k] = "e"
    BY ZenonT(30)
  <2> DEFINE m == k - b - 1
  <2>1. m \in row_start..ibuf_end - 1 /\ m \in j..s - 1 /\ b + m + 1 = k /\ (m = j \/ m \in j + 1..s - 1)
    BY <1>1, <1>5, <1>6, SMTT(30)
  <2> HIDE DEF m
  <2>2. IsEol(ibuf[m])
    BY <1>6, <1>7, <2>1, ZenonT(30)
  <2> QED
    BY <2>1, <2>2, CellByte, ZenonT(30) DEF b
<1>9. NextLine(LineStart, b + j + 1, b + s)
  <2>1. LineStart < b + j + 1 /\ b + j + 1 <= b + s
    BY <1>1, <1>5, <1>6, SMTT(30)
  <2>2. LineStart = 0 \/ stream[LineStart] = "e"
    BY ZenonT(30) DEF Framed
  <2>3. (b + j + 1) - 1 = b + j
    BY <1>1, <1>5, SMTT(30)
  <2> QED
    BY <1>4, <1>8, <2>1, <2>2, <2>3, ZenonT(30) DEF NextLine
<1>10. ASSUME s < ibuf_end PROVE stream[b + s + 1] = "c"
  <2>1. s \in row_start..ibuf_end - 1 /\ s # ibuf_end
    BY <1>1, <1>5, <1>6, <1>10, SMTT(30)
  <2>2. ~IsEol(ibuf[s])
    BY <1>6, <2>1, ZenonT(30)
  <2> QED
    BY <2>1, <2>2, CellByte, ZenonT(30) DEF b
<1> QED
  BY <1>5, <1>6, <1>9, <1>10, ZenonT(30) DEF b, j, s

(* What a handled or an empty line leaves behind, the loop going on. *)
Went(lines) ==
    LET j == FindEol(i)
    IN  /\ Continue(j) /\ UNCHANGED <<stream, got, ibuf_end, ipc>>
        /\ \A k \in j + 1..ibuf_end - 1 : ibuf'[k] = ibuf[k]
        /\ HandedLines' = HandedLines \cup lines
        /\ lines = IF row_start < j THEN {Text(LineStart + 1, (got - ibuf_end) + j + 1)} ELSE {}

(* The loop goes on with the next line. *)
LEMMA ContinueKeeps ==
    ASSUME InputTypes, Framed, ipc = "deframe", i < ibuf_end, FindEol(i) < ibuf_end, NEW lines, Went(lines)
    PROVE  Framed' /\ row_start' \in 0..ibuf_end /\ i' \in Nat
<1> DEFINE b == got - ibuf_end
           j == FindEol(i)
           s == SkipEol(j + 1)
<1>0. /\ row_start' = s /\ i' = s + 1 /\ stream' = stream /\ got' = got /\ ibuf_end' = ibuf_end /\ ipc' = ipc
      /\ \A k \in j + 1..ibuf_end - 1 : ibuf'[k] = ibuf[k]
      /\ HandedLines' = HandedLines \cup lines
      /\ lines = IF row_start < j THEN {Text(LineStart + 1, b + j + 1)} ELSE {}
  BY ZenonT(30) DEF Went, Continue
<1>1. /\ ibuf_end \in Nat /\ row_start \in Nat /\ b \in Nat /\ LineStart = b + row_start
      /\ row_start <= ibuf_end /\ LineStart \in Nat
  BY InputNumbers, ZenonT(30)
<1>2. /\ j \in row_start..ibuf_end - 1 /\ s \in j + 1..ibuf_end
      /\ NextLine(LineStart, b + j + 1, b + s) /\ (s < ibuf_end => stream[b + s + 1] = "c")
  BY LineFound, ZenonT(30)
<1> HIDE DEF j, s
<1>3. LineStart' = b + s /\ b' = b
  BY <1>0, <1>1, SMTT(30) DEF LineStart
<1> HIDE DEF b
<1>4. \A k \in row_start'..ibuf_end' - 1 : ibuf'[k] = got' - ibuf_end' + k + 1
  <2>1. \A k \in s..ibuf_end - 1 : k \in j + 1..ibuf_end - 1 /\ k \in row_start..ibuf_end - 1
    BY <1>1, <1>2, SMTT(30)
  <2>2. \A k \in s..ibuf_end - 1 : ibuf'[k] = got - ibuf_end + k + 1
    BY <1>0, <2>1, ZenonT(30) DEF Framed
  <2> QED
    BY <1>0, <2>2, ZenonT(30)
<1>5. stream'[LineStart'] = "e"
  <2>1. b + s \in b + j + 1..b + s
    BY <1>1, <1>2, SMTT(30)
  <2> QED
    BY <1>0, <1>2, <1>3, <2>1, ZenonT(30) DEF NextLine
<1>6. HandedLines' = CompleteLines(LineStart)'
  <2>1. b + j + 1 \in Nat /\ b + s \in Nat /\ (LineStart + 1 < b + j + 1 <=> row_start < j)
    BY <1>1, <1>2, SMTT(30)
  <2>2. CompleteLines(b + s) = CompleteLines(LineStart)
            \cup (IF LineStart + 1 < b + j + 1 THEN {Text(LineStart + 1, b + j + 1)} ELSE {})
    BY <1>1, <1>2, <2>1, MoreLines, ZenonT(30)
  <2>3. HandedLines = CompleteLines(LineStart)
    BY ZenonT(30) DEF Framed
  <2>4. CompleteLines(LineStart)' = CompleteLines(b + s)
    BY <1>0, <1>3, ZenonT(30) DEF CompleteLines, IsLine
  <2> QED
    BY <1>0, <2>1, <2>2, <2>3, <2>4, ZenonT(30)
<1>7. ipc' = "deframe" /\ ipc' # "poll"
  BY <1>0, ZenonT(30)
<1>8. i' \in {row_start', row_start' + 1} /\ (row_start' < ibuf_end' => stream'[LineStart' + 1] = "c")
  BY <1>0, <1>2, <1>3, ZenonT(30)
<1>9. row_start' \in 0..ibuf_end /\ i' \in Nat
  BY <1>0, <1>1, <1>2, SMTT(30)
<1> QED
  BY <1>4, <1>5, <1>6, <1>7, <1>8, <1>9, ZenonT(30) DEF Framed

(* An empty line adds nothing. *)
LEMMA EmptyLineKeeps ==
    ASSUME InputIInv, ~again, EmptyLine
    PROVE  InputIInv'
<1> DEFINE j == FindEol(i)
<1>0. /\ ipc = "deframe" /\ i < ibuf_end /\ j < ibuf_end /\ j = row_start /\ Continue(j)
      /\ UNCHANGED <<stream, got, ibuf, ibuf_end, ipc, handed, iopen, again>>
  BY ZenonT(30) DEF EmptyLine, frameVars
<1>1. InputTypes /\ InOrder /\ Framed /\ iopen
  BY <1>0, ZenonT(30) DEF InputIInv
<1>2. ~(row_start < j)
  BY <1>0, <1>1, InputNumbers, SMTT(30)
<1>3. Went({})
  <2>1. HandedLines' = HandedLines \cup {}
    BY <1>0, ZenonT(30) DEF HandedLines
  <2> QED
    BY <1>0, <1>2, <2>1, ZenonT(30) DEF Went
<1>4. Framed' /\ row_start' \in 0..ibuf_end /\ i' \in Nat
  BY <1>0, <1>1, <1>3, ContinueKeeps, ZenonT(30)
<1>5. InputTypes'
  BY <1>0, <1>1, <1>4, ZenonT(30) DEF InputTypes
<1>6. InOrder'
  BY <1>0, <1>1, ZenonT(30) DEF InOrder
<1> QED
  BY <1>0, <1>1, <1>4, <1>5, <1>6, ZenonT(30) DEF InputIInv

(* The next line comes behind the lines handed over before. *)
LEMMA HandOver ==
    ASSUME InputTypes, InOrder, Framed, NEW q \in Nat, q > LineStart + 1,
           NEW line, line = Text(LineStart + 1, q), handed' = Append(handed, line)
    PROVE  handed' \in Seq(Seq(Nat)) /\ InOrder' /\ HandedLines' = HandedLines \cup {line}
<1>1. LineStart \in Nat /\ handed \in Seq(Seq(Nat)) /\ Len(handed) \in Nat
  BY InputNumbers, SMTT(30) DEF InputTypes
<1>2. line \in Seq(Nat) /\ line[1] = LineStart + 1
  <2>1. q - (LineStart + 1) \in Nat /\ 1 \in 1..q - (LineStart + 1)
    BY <1>1, SMTT(30)
  <2>2. \A o \in 1..q - (LineStart + 1) : (LineStart + 1) + o - 1 \in Nat
    BY <1>1, SMTT(30)
  <2>3. line = [o \in 1..q - (LineStart + 1) |-> (LineStart + 1) + o - 1]
    BY ZenonT(30) DEF Text
  <2>4. line[1] = (LineStart + 1) + 1 - 1
    BY <2>1, <2>3, ZenonT(30)
  <2>5. line \in [1..q - (LineStart + 1) -> Nat]
    BY <2>2, <2>3, ZenonT(30)
  <2>6. line \in Seq(Nat)
    BY <2>1, <2>5, SMTT(30)
  <2> QED
    BY <1>1, <2>4, <2>6, SMTT(30)
<1> DEFINE n == Len(handed)
<1>3. /\ handed' \in Seq(Seq(Nat)) /\ Len(handed') = n + 1 /\ handed'[n + 1] = line
      /\ \A k \in 1..n : handed'[k] = handed[k]
  BY <1>1, <1>2, SMTT(30)
<1>4. \A k \in 1..n : handed[k][1] \in 1..LineStart
  <2> SUFFICES ASSUME NEW k \in 1..n PROVE handed[k][1] \in 1..LineStart
    BY ZenonT(30)
  <2>1. handed[k] \in CompleteLines(LineStart)
    BY ZenonT(30) DEF Framed, HandedLines
  <2> QED
    BY <1>1, <2>1, LineBegins, ZenonT(30)
<1> HIDE DEF n
<1>5. n \in Nat
  BY <1>1, ZenonT(30) DEF n
<1>6. InOrder'
  <2> SUFFICES ASSUME NEW k \in 1..n PROVE handed'[k][1] < handed'[k + 1][1]
    <3>1. Len(handed') - 1 = n
      BY <1>3, <1>5, SMTT(30)
    <3> QED
      BY <3>1, ZenonT(30) DEF InOrder
  <2>1. CASE k = n
    <3>1. handed'[k][1] \in 1..LineStart /\ handed'[k + 1][1] = LineStart + 1
      BY <1>2, <1>3, <1>4, <2>1, ZenonT(30)
    <3>2. \A x \in 1..LineStart : x < LineStart + 1
      BY <1>1, SMTT(30)
    <3> QED
      BY <3>1, <3>2, ZenonT(30)
  <2>2. CASE k # n
    <3>1. k \in 1..n - 1 /\ k + 1 \in 1..n
      BY <1>5, <2>2, SMTT(30)
    <3>2. handed[k][1] < handed[k + 1][1]
      BY <3>1, ZenonT(30) DEF InOrder, n
    <3> QED
      BY <1>3, <3>1, <3>2, ZenonT(30)
  <2> QED
    BY <2>1, <2>2, ZenonT(30)
<1>7. HandedLines' = HandedLines \cup {line}
  <2>1. 1..n + 1 = (1..n) \cup {n + 1}
    BY <1>5, SMTT(30)
  <2>2. HandedLines' = {handed'[k] : k \in (1..n) \cup {n + 1}} /\ HandedLines = {handed[k] : k \in 1..n}
    BY <1>3, <2>1, ZenonT(30) DEF HandedLines, n
  <2> QED
    BY <1>3, <2>2, ZenonT(30)
<1> QED
  BY <1>3, <1>6, <1>7, ZenonT(30)

(* A closed client: nothing is framed any more. *)
LEMMA ClosedKeeps ==
    ASSUME InputTypes, InOrder', handed' \in Seq(Seq(Nat)), ibuf' \in [0..ibuf_size - 1 -> Nat],
           UNCHANGED <<stream, got>>, iopen' = FALSE, ipc' = "poll", ibuf_end' = 0, i' = 0, row_start' = 0
    PROVE  InputIInv'
<1>1. 0 \in 0..ibuf_size - 1 /\ 0 <= got /\ 0 \in 0..0 /\ 0 \in Nat
  BY InputNumbers, SMTT(30)
<1>2. InputTypes'
  BY <1>1, ZenonT(30) DEF InputTypes
<1> QED
  BY <1>2, ZenonT(30) DEF InputIInv

(* A line is handed over, and its handler may close the client. *)
LEMMA CallKeeps ==
    ASSUME InputIInv, ~again, Call
    PROVE  InputIInv'
<1> DEFINE j == FindEol(i)
           b == got - ibuf_end
           line == [k \in 1..j - row_start |-> ibuf[row_start + k - 1]]
<1>0. PICK res \in Results, nul \in BOOLEAN :
        /\ ipc = "deframe" /\ i < ibuf_end /\ j < ibuf_end /\ j > row_start
        /\ handed' = Append(handed, line)
        /\ ibuf' = IF nul THEN [ibuf EXCEPT ![j] = Nul] ELSE ibuf
        /\ res = "done" => Continue(j) /\ UNCHANGED <<ipc, ibuf_end, iopen, again>>
        /\ res \in {"destroyed", "closed"} =>
             iopen' = FALSE /\ ipc' = "poll" /\ ibuf_end' = 0 /\ i' = 0 /\ row_start' = 0
        /\ res = "refused" => again' = TRUE
        /\ UNCHANGED <<stream, got>>
  BY ZenonT(30) DEF Call, Results, frameVars
<1>1. InputTypes /\ InOrder /\ Framed /\ iopen
  BY <1>0, ZenonT(30) DEF InputIInv
<1>2. /\ j \in row_start..ibuf_end - 1
  BY <1>0, <1>1, LineFound, ZenonT(30)
<1>3. /\ ibuf_end \in Nat /\ row_start \in Nat /\ b \in Nat /\ LineStart = b + row_start /\ LineStart \in Nat
      /\ ibuf_end < ibuf_size /\ ibuf_size \in Nat
  BY <1>1, InputNumbers, ZenonT(30)
<1> HIDE DEF j
<1>4. line = Text(LineStart + 1, b + j + 1)
  <2>1. (b + j + 1) - (LineStart + 1) = j - row_start
    BY <1>2, <1>3, SMTT(30)
  <2>2. \A k \in 1..j - row_start : /\ row_start + k - 1 \in row_start..ibuf_end - 1
                                    /\ b + (row_start + k - 1) + 1 = (LineStart + 1) + k - 1
    BY <1>2, <1>3, SMTT(30)
  <2>3. \A m \in row_start..ibuf_end - 1 : ibuf[m] = b + m + 1
    BY <1>1, CellByte, ZenonT(30)
  <2>4. \A k \in 1..j - row_start : ibuf[row_start + k - 1] = (LineStart + 1) + k - 1
    BY <2>2, <2>3, ZenonT(30)
  <2> QED
    BY <2>1, <2>4, ZenonT(30) DEF Text
<1> HIDE DEF line
<1>5. b + j + 1 \in Nat /\ b + j + 1 > LineStart + 1 /\ j \in 0..ibuf_size - 1 /\ j \notin j + 1..ibuf_end - 1
  BY <1>0, <1>2, <1>3, SMTT(30)
<1>6. handed' \in Seq(Seq(Nat)) /\ InOrder' /\ HandedLines' = HandedLines \cup {line}
  BY <1>0, <1>1, <1>4, <1>5, HandOver, ZenonT(30)
<1>7. ibuf' \in [0..ibuf_size - 1 -> Nat] /\ \A k \in j + 1..ibuf_end - 1 : ibuf'[k] = ibuf[k]
  <2>1. ibuf \in [0..ibuf_size - 1 -> Nat] /\ Nul \in Nat
    <3>1. 0 \in Nat
      BY SMT
    <3> QED
      BY <1>1, <3>1, ZenonT(30) DEF InputTypes, Nul
  <2>2. \A k \in j + 1..ibuf_end - 1 : k \in 0..ibuf_size - 1 /\ k # j
    BY <1>2, <1>3, <1>5, SMTT(30)
  <2> DEFINE new == [ibuf EXCEPT ![j] = Nul]
  <2>3. new \in [0..ibuf_size - 1 -> Nat] /\ \A k \in 0..ibuf_size - 1 : k # j => new[k] = ibuf[k]
    BY <2>1, ZenonT(30)
  <2>4. ibuf' = new \/ ibuf' = ibuf
    BY <1>0, ZenonT(30)
  <2> HIDE DEF new
  <2> QED
    BY <2>1, <2>2, <2>3, <2>4, ZenonT(30)
<1>8. CASE res = "done"
  <2>1. Continue(j) /\ UNCHANGED <<ipc, ibuf_end, iopen, again>> /\ UNCHANGED <<stream, got>>
    BY <1>0, <1>8, ZenonT(30)
  <2>2. row_start < j
    BY <1>2, <1>3, <1>0, SMTT(30)
  <2>3. Went({line})
    BY <1>4, <1>6, <1>7, <2>1, <2>2, ZenonT(30) DEF Went, j
  <2>4. Framed' /\ row_start' \in 0..ibuf_end /\ i' \in Nat
    BY <1>0, <1>1, <2>3, ContinueKeeps, ZenonT(30) DEF j
  <2>5. InputTypes'
    BY <1>1, <1>6, <1>7, <2>1, <2>4, ZenonT(30) DEF InputTypes
  <2> QED
    BY <1>1, <1>6, <2>1, <2>4, <2>5, ZenonT(30) DEF InputIInv
<1>9. CASE res \in {"destroyed", "closed"}
  <2>1. /\ iopen' = FALSE /\ ipc' = "poll" /\ ibuf_end' = 0 /\ i' = 0 /\ row_start' = 0
        /\ UNCHANGED <<stream, got>>
    BY <1>0, <1>9, ZenonT(30)
  <2> QED
    BY <1>1, <1>6, <1>7, <2>1, ClosedKeeps, ZenonT(30)
<1>10. CASE res = "refused"
  BY <1>0, <1>10, ZenonT(30) DEF InputIInv
<1> QED
  BY <1>8, <1>9, <1>10, ZenonT(30) DEF Results

(* The other end has closed, or ibuf is full. *)
LEMMA ReadZeroKeeps ==
    ASSUME InputIInv, ~again, ReadZero
    PROVE  InputIInv'
<1>1. /\ iopen' = FALSE /\ ipc' = "poll" /\ ibuf_end' = 0 /\ i' = 0 /\ row_start' = 0
      /\ UNCHANGED <<stream, got, ibuf, handed>>
  BY ZenonT(30) DEF ReadZero, Close
<1>2. InputTypes /\ InOrder
  BY ZenonT(30) DEF InputIInv
<1>3. InOrder' /\ handed' \in Seq(Seq(Nat)) /\ ibuf' \in [0..ibuf_size - 1 -> Nat]
  BY <1>1, <1>2, ZenonT(30) DEF InOrder, InputTypes
<1> QED
  BY <1>1, <1>2, <1>3, ClosedKeeps, ZenonT(30)

(* Bytes arrive behind those that are there. *)
LEMMA ReadKeeps ==
    ASSUME InputIInv, ~again, Read
    PROVE  InputIInv'
<1>0. PICK n \in 1..ibuf_size - ibuf_end - 1 :
        /\ got + n <= Len(stream) /\ got' = got + n /\ ibuf_end' = ibuf_end + n
        /\ ibuf' = [k \in DOMAIN ibuf |-> IF k \in ibuf_end..ibuf_end + n - 1
                                          THEN got + 1 + (k - ibuf_end) ELSE ibuf[k]]
  BY ZenonT(30) DEF Read
<1>1. ipc = "poll" /\ iopen /\ ipc' = "deframe" /\ i' = 0 /\ row_start' = 0 /\ UNCHANGED <<stream, handed, iopen, again>>
  BY ZenonT(30) DEF Read
<1>2. InputTypes /\ InOrder /\ Framed
  BY <1>1, ZenonT(30) DEF InputIInv
<1>3. row_start = 0 /\ \A k \in 0..ibuf_end - 1 : ibuf[k] = got - ibuf_end + k + 1
  BY <1>1, <1>2, ZenonT(30) DEF Framed
<1>4. /\ got \in Nat /\ ibuf_end \in Nat /\ got - ibuf_end \in Nat /\ LineStart = got - ibuf_end
      /\ Len(stream) \in Nat /\ ibuf_size \in Nat /\ ibuf_end < ibuf_size
  BY <1>2, <1>3, InputNumbers, SMTT(30)
<1>5. ibuf \in [0..ibuf_size - 1 -> Nat] /\ DOMAIN ibuf = 0..ibuf_size - 1
  BY <1>2, ZenonT(30) DEF InputTypes
<1>6. /\ got' \in 0..Len(stream) /\ ibuf_end' \in 0..ibuf_size - 1 /\ ibuf_end' <= got'
      /\ 0 \in 0..ibuf_end' /\ 0 \in Nat /\ got' - ibuf_end' = got - ibuf_end
  BY <1>0, <1>4, SMTT(30)
<1>7. ibuf' \in [0..ibuf_size - 1 -> Nat]
  <2>1. \A k \in ibuf_end..ibuf_end + n - 1 : got + 1 + (k - ibuf_end) \in Nat
    BY <1>4, SMTT(30)
  <2> QED
    BY <1>0, <1>5, <2>1, ZenonT(30)
<1>8. InputTypes'
  BY <1>1, <1>2, <1>6, <1>7, ZenonT(30) DEF InputTypes
<1>9. \A k \in 0..ibuf_end' - 1 : ibuf'[k] = got' - ibuf_end' + k + 1
  <2> SUFFICES ASSUME NEW k \in 0..ibuf_end' - 1 PROVE ibuf'[k] = (got - ibuf_end) + k + 1
    BY <1>6, ZenonT(30)
  <2>1. k \in 0..ibuf_size - 1 /\ (k \in ibuf_end..ibuf_end + n - 1 \/ k \in 0..ibuf_end - 1)
    BY <1>0, <1>4, SMTT(30)
  <2>2. CASE k \in ibuf_end..ibuf_end + n - 1
    <3>1. ibuf'[k] = got + 1 + (k - ibuf_end)
      BY <1>0, <1>5, <2>1, <2>2, ZenonT(30)
    <3>2. got + 1 + (k - ibuf_end) = (got - ibuf_end) + k + 1
      BY <1>4, <2>2, SMTT(30)
    <3> QED
      BY <3>1, <3>2, ZenonT(30)
  <2>3. CASE k \notin ibuf_end..ibuf_end + n - 1
    <3>1. ibuf'[k] = ibuf[k]
      BY <1>0, <1>5, <2>1, <2>3, ZenonT(30)
    <3> QED
      BY <1>3, <2>1, <2>3, <3>1, ZenonT(30)
  <2> QED
    BY <2>2, <2>3, ZenonT(30)
<1>10. LineStart' = LineStart
  <2>1. LineStart' = (got - ibuf_end) + 0
    BY <1>1, <1>6, ZenonT(30) DEF LineStart
  <2>2. (got - ibuf_end) + 0 = got - ibuf_end
    BY <1>4, SMTT(30)
  <2> QED
    BY <1>4, <2>1, <2>2, ZenonT(30)
<1>11. LineStart' = 0 \/ stream'[LineStart'] = "e"
  BY <1>1, <1>2, <1>10, ZenonT(30) DEF Framed
<1>12. HandedLines' = CompleteLines(LineStart)'
  <2>1. HandedLines' = HandedLines /\ CompleteLines(LineStart)' = CompleteLines(LineStart)
    BY <1>1, <1>10, ZenonT(30) DEF HandedLines, CompleteLines, IsLine
  <2> QED
    BY <1>2, <2>1, ZenonT(30) DEF Framed
<1>13. ~(i' > row_start') /\ i' \in {row_start', row_start' + 1} /\ ipc' # "poll"
  BY <1>1, SMTT(30)
<1>14. Framed'
  BY <1>1, <1>9, <1>11, <1>12, <1>13, ZenonT(30) DEF Framed
<1>15. InOrder'
  BY <1>1, <1>2, ZenonT(30) DEF InOrder
<1> QED
  BY <1>1, <1>8, <1>14, <1>15, ZenonT(30) DEF InputIInv

(* The loop ends, and what is left of the last line moves to the front. *)
LEMMA LoopEndKeeps ==
    ASSUME InputIInv, ~again, LoopEnd
    PROVE  InputIInv'
<1> DEFINE c == row_start
<1>0. /\ ipc = "deframe" /\ (\A k \in i..ibuf_end - 1 : ~IsEol(ibuf[k]))
      /\ ipc' = "poll" /\ i' = 0 /\ row_start' = 0 /\ UNCHANGED <<stream, got, handed, iopen, again>>
      /\ ibuf_end' = IF c >= ibuf_end THEN 0 ELSE ibuf_end - c
      /\ ibuf' = IF c \in 1..ibuf_end - 1
                 THEN [k \in DOMAIN ibuf |-> IF k < ibuf_end - c THEN ibuf[k + c] ELSE ibuf[k]]
                 ELSE ibuf
  BY ZenonT(30) DEF LoopEnd, Postread, frameVars
<1>1. InputTypes /\ InOrder /\ Framed /\ iopen
  BY <1>0, ZenonT(30) DEF InputIInv
<1>2. /\ got \in Nat /\ ibuf_end \in Nat /\ got - ibuf_end \in Nat /\ LineStart = (got - ibuf_end) + c
      /\ c \in Nat /\ c <= ibuf_end /\ i \in Nat /\ LineStart \in Nat /\ LineStart <= got
      /\ Len(stream) \in Nat /\ ibuf_size \in Nat /\ ibuf_end < ibuf_size
  BY <1>1, InputNumbers, ZenonT(30)
<1>3. ibuf \in [0..ibuf_size - 1 -> Nat] /\ DOMAIN ibuf = 0..ibuf_size - 1
  BY <1>1, ZenonT(30) DEF InputTypes
<1>4. \A k \in c..ibuf_end - 1 : ibuf[k] = (got - ibuf_end) + k + 1
  BY <1>1, ZenonT(30) DEF Framed
<1> HIDE DEF c
<1>5. ibuf_end' = ibuf_end - c /\ ibuf_end' \in 0..ibuf_size - 1 /\ ibuf_end' <= got
  BY <1>0, <1>2, SMTT(30)
<1>6. ibuf' \in [0..ibuf_size - 1 -> Nat] /\ \A k \in 0..ibuf_end' - 1 : ibuf'[k] = ibuf[k + c]
  <2>1. CASE c \in 1..ibuf_end - 1
    <3>1. ibuf' = [k \in 0..ibuf_size - 1 |-> IF k < ibuf_end - c THEN ibuf[k + c] ELSE ibuf[k]]
      BY <1>0, <1>3, <2>1, ZenonT(30)
    <3>2. \A k \in 0..ibuf_size - 1 : k < ibuf_end - c => k + c \in 0..ibuf_size - 1
      BY <1>2, SMTT(30)
    <3>3. \A k \in 0..ibuf_end' - 1 : k \in 0..ibuf_size - 1 /\ k < ibuf_end - c
      BY <1>2, <1>5, SMTT(30)
    <3> QED
      BY <1>3, <3>1, <3>2, <3>3, ZenonT(30)
  <2>2. CASE c \notin 1..ibuf_end - 1
    <3>1. ibuf' = ibuf
      BY <1>0, <2>2, ZenonT(30)
    <3>2. \A k \in 0..ibuf_end' - 1 : k + c = k
      BY <1>2, <1>5, <2>2, SMTT(30)
    <3> QED
      BY <1>3, <3>1, <3>2, ZenonT(30)
  <2> QED
    BY <2>1, <2>2, ZenonT(30)
<1>7. InputTypes'
  <2>1. 0 \in 0..ibuf_end' /\ 0 \in Nat
    BY <1>5, SMTT(30)
  <2> QED
    BY <1>0, <1>1, <1>5, <1>6, <2>1, ZenonT(30) DEF InputTypes
<1>8. \A k \in 0..ibuf_end' - 1 : ibuf'[k] = got' - ibuf_end' + k + 1
  <2> SUFFICES ASSUME NEW k \in 0..ibuf_end' - 1 PROVE ibuf'[k] = (got - ibuf_end') + k + 1
    BY <1>0, ZenonT(30)
  <2>1. k + c \in c..ibuf_end - 1 /\ (got - ibuf_end) + (k + c) + 1 = (got - ibuf_end') + k + 1
    BY <1>2, <1>5, SMTT(30)
  <2> QED
    BY <1>4, <1>6, <2>1, ZenonT(30)
<1>9. LineStart' = LineStart
  BY <1>0, <1>2, <1>5, SMTT(30) DEF LineStart
<1>10. LineStart' = 0 \/ stream'[LineStart'] = "e"
  BY <1>0, <1>1, <1>9, ZenonT(30) DEF Framed
<1>11. HandedLines' = CompleteLines(LineStart)'
  <2>1. HandedLines' = HandedLines /\ CompleteLines(LineStart)' = CompleteLines(LineStart)
    BY <1>0, <1>9, ZenonT(30) DEF HandedLines, CompleteLines, IsLine
  <2> QED
    BY <1>1, <2>1, ZenonT(30) DEF Framed
<1>12. \A k \in LineStart' + 1..got' : stream'[k] = "c"
  <2> SUFFICES ASSUME NEW k \in LineStart + 1..got PROVE stream[k] = "c"
    BY <1>0, <1>9, ZenonT(30)
  <2>1. i \in {c, c + 1} /\ (i > c /\ c < ibuf_end => stream[LineStart + 1] = "c")
    BY <1>0, <1>1, ZenonT(30) DEF Framed, c
  <2>2. CASE i <= ibuf_end
    <3>1. ibuf_end \in i..ibuf_end /\ (got - ibuf_end) + ibuf_end = got
      BY <1>2, <2>2, SMTT(30)
    <3>2. \A m \in LineStart + 1..(got - ibuf_end) + ibuf_end : stream[m] = "c"
      BY <1>0, <1>1, <3>1, BytesBefore, ZenonT(30)
    <3> QED
      BY <3>1, <3>2, ZenonT(30)
  <2>3. CASE ~(i <= ibuf_end)
    <3>1. FALSE
      BY <1>2, <2>1, <2>3, SMTT(30)
    <3> QED
      BY <3>1
  <2> QED
    BY <2>2, <2>3, ZenonT(30)
<1>13. Framed'
  BY <1>0, <1>8, <1>10, <1>11, <1>12, ZenonT(30) DEF Framed
<1>14. InOrder'
  BY <1>0, <1>1, ZenonT(30) DEF InOrder
<1> QED
  BY <1>0, <1>1, <1>7, <1>13, <1>14, ZenonT(30) DEF InputIInv

(* A live upgrade carries the bytes of ibuf over. *)
LEMMA InputUpgradeKeeps ==
    ASSUME InputIInv, ~again, InputUpgrade
    PROVE  InputIInv'
<1>0. /\ ipc = "poll" /\ iopen /\ ibuf' = [k \in DOMAIN ibuf |-> IF k < ibuf_end THEN ibuf[k] ELSE Nul]
      /\ UNCHANGED <<stream, got, ibuf_end, ipc, i, row_start, handed, iopen, again>>
  BY ZenonT(30) DEF InputUpgrade, frameVars
<1>1. InputTypes /\ InOrder /\ Framed
  BY <1>0, ZenonT(30) DEF InputIInv
<1>2. ibuf \in [0..ibuf_size - 1 -> Nat] /\ DOMAIN ibuf = 0..ibuf_size - 1
  BY <1>1, ZenonT(30) DEF InputTypes
<1>3. 0 \in Nat /\ \A k \in row_start..ibuf_end - 1 : k \in 0..ibuf_size - 1 /\ k < ibuf_end
  BY <1>1, InputNumbers, SMTT(30)
<1>4. ibuf' \in [0..ibuf_size - 1 -> Nat]
  BY <1>0, <1>2, <1>3, ZenonT(30) DEF Nul
<1>5. \A k \in row_start..ibuf_end - 1 : ibuf'[k] = ibuf[k]
  BY <1>0, <1>2, <1>3, ZenonT(30)
<1>6. InputTypes'
  BY <1>0, <1>1, <1>4, ZenonT(30) DEF InputTypes
<1>7. LineStart' = LineStart /\ HandedLines' = HandedLines /\ CompleteLines(LineStart)' = CompleteLines(LineStart)
  BY <1>0, ZenonT(30) DEF LineStart, HandedLines, CompleteLines, IsLine
<1>8. Framed'
  BY <1>0, <1>1, <1>5, <1>7, ZenonT(30) DEF Framed
<1>9. InOrder'
  BY <1>0, <1>1, ZenonT(30) DEF InOrder
<1> QED
  BY <1>0, <1>6, <1>8, <1>9, ZenonT(30) DEF InputIInv

(* Nothing has been read. *)
LEMMA InputInvInit ==
    ASSUME InputInit
    PROVE  InputIInv
<1>0. /\ got = 0 /\ ibuf = [k \in 0..ibuf_size - 1 |-> Nul] /\ ibuf_end = 0 /\ ipc = "poll" /\ i = 0
      /\ row_start = 0 /\ handed = <<>> /\ iopen = TRUE
  BY ZenonT(30) DEF InputInit
<1>1. PICK n \in 0..MaxStream : stream \in [1..n -> {"c", "e"}]
  BY ZenonT(30) DEF InputInit
<1>2. stream \in Seq({"c", "e"}) /\ Len(stream) \in Nat
  BY <1>1, InputAssumption, SMTT(30)
<1>3. 0 \in 0..Len(stream) /\ 0 \in 0..ibuf_size - 1 /\ 0 <= 0 /\ 0 \in 0..0 /\ 0 \in Nat /\ 0 - 0 + 0 = 0
  BY <1>2, InputAssumption, SMTT(30)
<1>4. handed \in Seq(Seq(Nat)) /\ Len(handed) = 0 /\ 1..0 = {} /\ 1..0 - 1 = {} /\ 0..0 - 1 = {} /\ 0 + 1..0 = {}
  BY <1>0, SMTT(30)
<1>5. ibuf \in [0..ibuf_size - 1 -> Nat]
  BY <1>0, <1>3, ZenonT(30) DEF Nul
<1>6. InputTypes
  BY <1>0, <1>2, <1>3, <1>4, <1>5, ZenonT(30) DEF InputTypes
<1>7. InOrder
  BY <1>4, ZenonT(30) DEF InOrder
<1>8. LineStart = 0
  BY <1>0, <1>3, ZenonT(30) DEF LineStart
<1>9. HandedLines = CompleteLines(0)
  <2>1. HandedLines = {}
    BY <1>4, ZenonT(30) DEF HandedLines
  <2>2. CompleteLines(0) = {}
    BY <1>4, ZenonT(30) DEF CompleteLines
  <2> QED
    BY <2>1, <2>2, ZenonT(30)
<1>10. Framed
  BY <1>0, <1>4, <1>8, <1>9, ZenonT(30) DEF Framed
<1> QED
  BY <1>0, <1>6, <1>7, <1>10, ZenonT(30) DEF InputIInv

(* Every step keeps the invariant. *)
LEMMA InputInvNext ==
    ASSUME InputIInv, [InputNext]_inputVars
    PROVE  InputIInv'
<1>1. CASE UNCHANGED inputVars
  <2>1. UNCHANGED <<stream, got, ibuf, ibuf_end, ipc, i, row_start, handed, iopen, again>>
    BY <1>1, ZenonT(30) DEF inputVars
  <2>2. /\ InputTypes' = InputTypes /\ InOrder' = InOrder /\ LineStart' = LineStart /\ HandedLines' = HandedLines
        /\ CompleteLines(LineStart)' = CompleteLines(LineStart)
    BY <2>1, ZenonT(30) DEF InputTypes, InOrder, LineStart, HandedLines, CompleteLines, IsLine
  <2>3. Framed' = Framed
    BY <2>1, <2>2, ZenonT(30) DEF Framed
  <2> QED
    BY <2>1, <2>2, <2>3, ZenonT(30) DEF InputIInv
<1>2. CASE InputNext /\ again
  <2>1. again' = again \/ again' = TRUE
    <3>1. CASE Call
      BY <3>1, ZenonT(30) DEF Call, Results
    <3>2. CASE InputUpgrade \/ Read \/ ReadZero
      BY <3>2, ZenonT(30) DEF InputUpgrade, Read, ReadZero, Close
    <3>3. CASE EmptyLine \/ LoopEnd
      BY <3>3, ZenonT(30) DEF EmptyLine, LoopEnd
    <3> QED
      BY <1>2, <3>1, <3>2, <3>3, ZenonT(30) DEF InputNext
  <2> QED
    BY <1>2, <2>1, ZenonT(30) DEF InputIInv
<1>3. CASE InputNext /\ ~again
  BY <1>3, InputUpgradeKeeps, ReadKeeps, ReadZeroKeeps, EmptyLineKeeps, CallKeeps, LoopEndKeeps, ZenonT(30) DEF InputNext
<1> QED
  BY <1>1, <1>2, <1>3, ZenonT(30)

(* ibuf holds the stream from the line being collected on, and the lines   *)
(* before it have been handed over.                                        *)
THEOREM InputInvariant == InputSpec => []InputIInv
<1> QED
  BY InputInvInit, InputInvNext, PTL DEF InputSpec

(* For any size of ibuf and any stream: the handlers get the lines of the  *)
(* stream, whole, in order and each once, however the stream is cut into   *)
(* reads, unless the write of a reply was refused.                         *)
THEOREM LinesAlwaysHanded == InputSpec => []LinesHanded
<1>1. InputIInv => LinesHanded
  <2> SUFFICES ASSUME InputIInv, ~again PROVE LinesHanded
    BY ZenonT(30) DEF LinesHanded
  <2>1. InputTypes /\ InOrder /\ (iopen => Framed)
    BY ZenonT(30) DEF InputIInv
  <2>2. ASSUME iopen, ipc = "poll" PROVE {handed[k] : k \in 1..Len(handed)} = CompleteLines(got)
    <3>1. HandedLines = CompleteLines(LineStart) /\ \A k \in LineStart + 1..got : stream[k] = "c"
      BY <2>1, <2>2, ZenonT(30) DEF Framed
    <3>2. CompleteLines(got) = CompleteLines(LineStart)
      BY <2>1, <3>1, InputNumbers, NoMoreLines, ZenonT(30)
    <3> QED
      BY <3>1, <3>2, ZenonT(30) DEF HandedLines
  <2> QED
    BY <2>1, <2>2, ZenonT(30) DEF LinesHanded, InOrder
<1> QED
  BY <1>1, InputInvariant, PTL
=============================================================================
