------------------------------- MODULE RWLock -------------------------------
(***************************************************************************)
(* The read-write lock of rwlock.c, used for the packet queues, the        *)
(* history and the filter tables where the C library has none of its own.  *)
(* A function of rwlock.c holds the mutex from its first to its last       *)
(* statement, except while it sleeps in pthread_cond_wait; an action is    *)
(* what a thread does between two such points.                             *)
(*                                                                         *)
(* pc[t] says where a thread is: it does not use the lock ("idle"), it     *)
(* sleeps on the condition variable read or write ("rsleep", "wsleep"), it *)
(* was woken and has yet to get the mutex ("rwoken", "wwoken"), or it      *)
(* returned with the lock ("reading", "writing").                          *)
(***************************************************************************)
EXTENDS Integers, FiniteSets

CONSTANT Thread

ASSUME ThreadAssumption == IsFiniteSet(Thread)

VARIABLES r_active,     \* number of readers that have the lock
          w_active,     \* whether a writer has it
          r_wait,       \* number of readers that wait
          w_wait,       \* number of writers that wait
          valid,        \* the lock is initialized and not destroyed
          pc

lockVars == <<r_active, w_active, r_wait, w_wait, valid, pc>>

PCs == {"idle", "rsleep", "rwoken", "reading", "wsleep", "wwoken", "writing"}

At(S) == {t \in Thread : pc[t] \in S}

(* rwl_init *)
LockInit ==
  /\ r_active = 0 /\ w_active = FALSE /\ r_wait = 0 /\ w_wait = 0
  /\ valid = TRUE
  /\ pc = [t \in Thread |-> "idle"]

ReadBlocked == w_active
WriteBlockedByWriter == w_active      \* mutated: readers are not looked at
WriteBlocked == w_active \/ r_active > 0

ReadLock(t) == /\ r_active' = r_active + 1
               /\ pc' = [pc EXCEPT ![t] = "reading"]

WriteLock(t) == /\ w_active' = TRUE
                /\ pc' = [pc EXCEPT ![t] = "writing"]

(* rwl_rdlock, until the lock is taken or the thread sleeps. *)
RdLock(t) ==
  /\ valid /\ pc[t] = "idle"
  /\ \/ /\ ~ReadBlocked
        /\ ReadLock(t) /\ UNCHANGED r_wait
     \/ /\ ReadBlocked
        /\ r_wait' = r_wait + 1
        /\ pc' = [pc EXCEPT ![t] = "rsleep"]
        /\ UNCHANGED r_active
  /\ UNCHANGED <<w_active, w_wait, valid>>

(* The loop of rwl_rdlock after pthread_cond_wait has returned. *)
RdWoken(t) ==
  /\ pc[t] = "rwoken"
  /\ \/ /\ ~ReadBlocked
        /\ ReadLock(t) /\ r_wait' = r_wait - 1
     \/ /\ ReadBlocked
        /\ pc' = [pc EXCEPT ![t] = "rsleep"]
        /\ UNCHANGED <<r_active, r_wait>>
  /\ UNCHANGED <<w_active, w_wait, valid>>

TryRdLock(t) ==
  /\ valid /\ pc[t] = "idle" /\ ~ReadBlocked
  /\ ReadLock(t)
  /\ UNCHANGED <<w_active, r_wait, w_wait, valid>>

(* pthread_cond_signal wakes one of the threads that sleep, if any does;   *)
(* p is what pc is before the call.                                        *)
SignalWrite(p) ==
  \/ /\ \A u \in Thread : p[u] # "wsleep"
     /\ pc' = p
  \/ \E u \in Thread : p[u] = "wsleep" /\ pc' = [p EXCEPT ![u] = "wwoken"]

(* pthread_cond_broadcast wakes all of them. *)
BroadcastRead(p) ==
  pc' = [u \in Thread |-> IF p[u] = "rsleep" THEN "rwoken" ELSE p[u]]

(* Mutated: the last reader does not wake a writer when several wait. *)
RdUnlockOneWaiter(t) ==
  /\ valid /\ pc[t] = "reading"
  /\ r_active' = r_active - 1
  /\ IF r_active = 1 /\ w_wait = 1 THEN SignalWrite([pc EXCEPT ![t] = "idle"])
                                   ELSE pc' = [pc EXCEPT ![t] = "idle"]
  /\ UNCHANGED <<w_active, r_wait, w_wait, valid>>

RdUnlock(t) ==
  /\ valid /\ pc[t] = "reading"
  /\ r_active' = r_active - 1
  /\ IF r_active = 1 /\ w_wait > 0 THEN SignalWrite([pc EXCEPT ![t] = "idle"])
                                   ELSE pc' = [pc EXCEPT ![t] = "idle"]
  /\ UNCHANGED <<w_active, r_wait, w_wait, valid>>

(* rwl_wrlock, until the lock is taken or the thread sleeps. *)
WrLock(t) ==
  /\ valid /\ pc[t] = "idle"
  /\ \/ /\ ~WriteBlocked
        /\ WriteLock(t) /\ UNCHANGED w_wait
     \/ /\ WriteBlocked
        /\ w_wait' = w_wait + 1
        /\ pc' = [pc EXCEPT ![t] = "wsleep"]
        /\ UNCHANGED w_active
  /\ UNCHANGED <<r_active, r_wait, valid>>

(* Mutated: a writer that was woken lets the other ones that wait go first. *)
WrWokenYields(t) ==
  /\ pc[t] = "wwoken"
  /\ \/ /\ ~WriteBlocked /\ w_wait = 1
        /\ WriteLock(t) /\ w_wait' = w_wait - 1
     \/ /\ WriteBlocked
        /\ pc' = [pc EXCEPT ![t] = "wsleep"]
        /\ UNCHANGED <<w_active, w_wait>>
  /\ UNCHANGED <<r_active, r_wait, valid>>

(* The loop of rwl_wrlock after pthread_cond_wait has returned. *)
WrWoken(t) ==
  /\ pc[t] = "wwoken"
  /\ \/ /\ ~WriteBlocked
        /\ WriteLock(t) /\ w_wait' = w_wait - 1
     \/ /\ WriteBlocked
        /\ pc' = [pc EXCEPT ![t] = "wsleep"]
        /\ UNCHANGED <<w_active, w_wait>>
  /\ UNCHANGED <<r_active, r_wait, valid>>

TryWrLock(t) ==
  /\ valid /\ pc[t] = "idle" /\ ~WriteBlocked
  /\ WriteLock(t)
  /\ UNCHANGED <<r_active, r_wait, w_wait, valid>>

(* Readers that wait are preferred to writers that wait. *)
WrUnlock(t) ==
  /\ valid /\ pc[t] = "writing"
  /\ w_active' = FALSE
  /\ IF r_wait > 0 THEN BroadcastRead([pc EXCEPT ![t] = "idle"])
     ELSE IF w_wait > 0 THEN SignalWrite([pc EXCEPT ![t] = "idle"])
     ELSE pc' = [pc EXCEPT ![t] = "idle"]
  /\ UNCHANGED <<r_active, r_wait, w_wait, valid>>

(* rwl_destroy; it does nothing (EBUSY) while the lock is in use. *)
Destroy(t) ==
  /\ valid /\ pc[t] = "idle"
  /\ r_active = 0 /\ ~w_active /\ r_wait = 0 /\ w_wait = 0
  /\ valid' = FALSE
  /\ UNCHANGED <<r_active, w_active, r_wait, w_wait, pc>>

(* pthread_cond_wait may return without a signal. *)
Spurious(t) ==
  /\ \/ pc[t] = "rsleep" /\ pc' = [pc EXCEPT ![t] = "rwoken"]
     \/ pc[t] = "wsleep" /\ pc' = [pc EXCEPT ![t] = "wwoken"]
  /\ UNCHANGED <<r_active, w_active, r_wait, w_wait, valid>>

(* A thread asks for the lock. *)
Ask(t) == RdLock(t) \/ WrLock(t) \/ TryRdLock(t) \/ TryWrLock(t)

(* What a thread that asked or that has the lock does next. *)
GoOn(t) == RdWoken(t) \/ WrWoken(t) \/ RdUnlock(t) \/ WrUnlock(t)

LockNext == \E t \in Thread : Ask(t) \/ GoOn(t) \/ Destroy(t) \/ Spurious(t)

LockSpec == LockInit /\ [][LockNext]_lockVars

-----------------------------------------------------------------------------
(* The counters count the threads they are about. *)
LockTypeOK ==
  /\ pc \in [Thread -> PCs]
  /\ w_active \in BOOLEAN /\ valid \in BOOLEAN
  /\ r_active = Cardinality(At({"reading"}))
  /\ r_wait = Cardinality(At({"rsleep", "rwoken"}))
  /\ w_wait = Cardinality(At({"wsleep", "wwoken"}))

(* A writer has the lock alone: while rwl_wrlock has returned to one       *)
(* thread, no other thread reads or writes.                                *)
WriterAlone ==
  \A t \in At({"writing"}) : At({"reading", "writing"}) = {t}

(* No wake-up is lost: when nobody has the lock and somebody waits for it, *)
(* a thread that waits has been woken and will look again.                 *)
NoLostWakeup ==
  At({"reading", "writing"}) = {} /\ At({"rsleep", "wsleep"}) # {}
    => At({"rwoken", "wwoken"}) # {}

=============================================================================
