------------------------------ MODULE MCMemory ------------------------------
(***************************************************************************)
(* Locks, cells and buffers for TLC.  The parts do not interact; part says *)
(* which of them moves in a behaviour.                                     *)
(***************************************************************************)
EXTENDS RWLock, CellMalloc, PbufPools, HistoryUse

CONSTANT MaxAsk         \* how often a thread asks for the lock

VARIABLES part,
          asked         \* how often a thread has asked for the lock

vars == <<part, asked, lockVars, arenaVars, poolVars, useVars>>

(* Cells that fill a block, that leave a rest, and that are aligned. *)
MCSizes == {<<2, 1>>, <<3, 1>>, <<3, 2>>, <<4, 4>>}

MCBuf == {<<2, 1>>, <<2, 2>>, <<4, 1>>, <<6, 1>>}
MCSize(p) == p[1]
MCLens == 2..6

(* A and the object O share a chain. *)
MCHashOf(k) == IF k = "B" THEN 2 ELSE 1

Init ==
  /\ part \in {"lock", "arena", "pools", "history"}
  /\ asked = [t \in Thread |-> 0]
  /\ LockInit /\ PoolsInit /\ UseInit
  /\ ArenaInit
  /\ part # "arena" => arena = NewArena(4, 4, FALSE)

RestOfLock == <<part, arenaVars, poolVars, useVars>>

LockAsk(t) ==
  /\ part = "lock" /\ asked[t] < MaxAsk
  /\ Ask(t)
  /\ asked' = [asked EXCEPT ![t] = @ + 1]
  /\ UNCHANGED RestOfLock

LockGoOn(t) == part = "lock" /\ GoOn(t) /\ UNCHANGED <<RestOfLock, asked>>

LockOther(t) == part = "lock" /\ (Destroy(t) \/ Spurious(t)) /\ UNCHANGED <<RestOfLock, asked>>

Next ==
  \/ \E t \in Thread : LockAsk(t) \/ LockGoOn(t) \/ LockOther(t)
  \/ part = "arena" /\ ArenaNext /\ UNCHANGED <<part, asked, lockVars, poolVars, useVars>>
  \/ part = "pools" /\ PoolsNext /\ UNCHANGED <<part, asked, lockVars, arenaVars, useVars>>
  \/ part = "history" /\ UseNext /\ UNCHANGED <<part, asked, lockVars, arenaVars, poolVars>>

(* A thread that was woken gets the mutex, and one that has the lock gives *)
(* it back.                                                                *)
Fairness == \A t \in Thread : WF_vars(LockGoOn(t))

Spec == Init /\ [][Next]_vars /\ Fairness

(* A thread that waits for the lock gets it, if the others do not ask for  *)
(* it for ever.                                                            *)
WaiterServed ==
  \A t \in Thread : pc[t] \in {"rsleep", "wsleep"} ~> pc[t] \in {"reading", "writing"}
=============================================================================
