--------------------------- MODULE PipelineTypes ----------------------------
(* Type correctness of Pipeline. *)
EXTENDS Pipeline, TLAPS

(* Reducing an integer modulo the sequence space gives a sequence number. *)
LEMMA ModRange ==
    ASSUME NEW n \in Int
    PROVE  n % SeqSpace \in Seqnum
BY SMTT(30), ConstantsAssumption DEF Seqnum

(* A freshly received pbuf is a Pbuf. *)
LEMMA NewPbufType ==
    ASSUME TypeOK, received < MaxPackets, NEW p \in Producer, NEW k \in Key,
           NEW l \in BOOLEAN
    PROVE  NewPbuf(p, k, l) \in Pbuf
BY SMTT(30), ConstantsAssumption DEF TypeOK, NewPbuf, Pbuf, Seqnum, Time

(* The initial state has its types. *)
LEMMA TypeInit == Init => TypeOK
<1> SUFFICES ASSUME Init PROVE TypeOK
  BY ZenonT(30)
<1> USE ConstantsAssumption DEF Init
<1>1. /\ tick \in Time /\ workers_configured \in Worker
      /\ workers_running \in 0..MaxWorkers /\ reconfs \in 0..MaxReconf
      /\ apc \in {"run", "join", "adjust", "joinWorker"}
      /\ received \in 0..MaxPackets /\ lost \in SUBSET Nat
  BY SMTT(30) DEF Time
<1>2. /\ pbuf_incoming_local \in [Producer -> Seq(Pbuf)]
      /\ pbuf_incoming \in [Producer -> Seq(Pbuf)]
  BY SMTT(30)
<1>3. /\ dpc \in {"top", "walk", "locked", "check", "lag", "stopped"}
      /\ walk \in 1..(MaxWorkers + Pseudo + 1)
      /\ pb_list \in Seq(Pbuf)
      /\ pb_out \in [Queue -> Seq(Pbuf)]
      /\ cleanup_tick \in Nat
  BY SMTT(30)
<1>4. /\ dupecheck_seqnum \in [Queue -> Seqnum]
      /\ dupecheck_db \in [Key -> Time \cup {Never}]
      /\ worker_lag \in [Queue -> Int]
  BY SMTT(30) DEF Seqnum, Never
<1>5. /\ pbuf_global \in [Queue -> Seq(Pbuf)]
      /\ freed \in [Queue -> Nat]
      /\ pbuf_global_count \in [Queue -> Int]
  BY SMTT(30)
<1>6. /\ wpc \in [Worker -> {"none", "top", "main", "mainAdv", "dupe",
                             "dupeAdv", "poll"}]
      /\ pb \in [Worker -> Nat]
      /\ prevp \in [Queue -> [Worker -> Nat]]
      /\ last_seqnum \in [Queue -> [Worker -> Seqnum]]
  BY SMTT(30) DEF Seqnum
<1>7. /\ dpc \in {"locked", "check"} => walk \in Producer
      /\ apc = "joinWorker" => workers_running > workers_configured
  BY ZenonT(30)
<1>8. QED
  BY ZenonT(30), <1>1, <1>2, <1>3, <1>4, <1>5, <1>6, <1>7 DEF TypeOK

(* incoming_flush keeps the types of the queues it moves packets between. *)
LEMMA FlushType ==
    ASSUME TypeOK, NEW p \in Producer, NEW s \in Seq(Pbuf), Flush(p, s)
    PROVE  /\ pbuf_incoming_local' \in [Producer -> Seq(Pbuf)]
           /\ pbuf_incoming' \in [Producer -> Seq(Pbuf)]
<1>1. /\ pbuf_incoming_local \in [Producer -> Seq(Pbuf)]
      /\ pbuf_incoming \in [Producer -> Seq(Pbuf)]
  BY ZenonT(30) DEF TypeOK
<1>2. CASE MutexHeld(p)
  BY ZenonT(30), <1>1, <1>2 DEF Flush, MutexHeld
<1>3. CASE ~MutexHeld(p)
  <2>1. pbuf_incoming[p] \o s \in Seq(Pbuf)
    BY SMTT(30), <1>1
  <2>2. /\ pbuf_incoming' =
             [pbuf_incoming EXCEPT ![p] = pbuf_incoming[p] \o s]
        /\ pbuf_incoming_local' = [pbuf_incoming_local EXCEPT ![p] = <<>>]
    BY ZenonT(30), <1>3 DEF Flush
  <2>3. pbuf_incoming' \in [Producer -> Seq(Pbuf)]
    BY ZenonT(30), <1>1, <2>1, <2>2
  <2>4. pbuf_incoming_local' \in [Producer -> Seq(Pbuf)]
    BY SMTT(30), <1>1, <2>2
  <2>5. QED
    BY ZenonT(30), <2>3, <2>4
<1>4. QED
  BY ZenonT(30), <1>2, <1>3

(* Giving a packet its number and appending it to pb_out keeps the types. *)
LEMMA EmitType ==
    ASSUME TypeOK, NEW q \in Queue, NEW p \in Pbuf, Emit(q, p)
    PROVE  /\ dupecheck_seqnum' \in [Queue -> Seqnum]
           /\ pb_out' \in [Queue -> Seq(Pbuf)]
<1>1. (dupecheck_seqnum[q] + 1) % SeqSpace \in Seqnum
  <2>1. dupecheck_seqnum[q] + 1 \in Int
    BY SMTT(30), ConstantsAssumption DEF TypeOK, Seqnum
  <2>2. QED
    BY ZenonT(30), <2>1, ModRange
<1>2. [p EXCEPT !.seqnum = (dupecheck_seqnum[q] + 1) % SeqSpace,
                !.checked = tick] \in Pbuf
  BY ZenonT(30), <1>1 DEF TypeOK, Pbuf
<1>3. QED
  BY SMTT(30), <1>1, <1>2 DEF TypeOK, Emit

(* pbuf_seqnum_lag of two sequence numbers is an integer. *)
LEMMA LagType ==
    ASSUME NEW a \in Seqnum, NEW b \in Seqnum
    PROVE  Lag(a, b) \in Int
<1>1. (a - b) % SeqSpace \in Seqnum
  <2>1. a - b \in Int
    BY SMTT(30), ConstantsAssumption DEF Seqnum
  <2>2. QED
    BY ZenonT(30), <2>1, ModRange
<1>2. QED
  BY SMTT(30), <1>1, ConstantsAssumption DEF Lag, Signed, Seqnum

(* Following the next pointer stays inside the queue or reaches its end. *)
LEMMA NextPbType ==
    ASSUME TypeOK, NEW q \in Queue, NEW w \in Worker, NextPb(q, w) # 0
    PROVE  NextPb(q, w) \in 1..Len(pbuf_global[q])
<1>1. prevp[q][w] \in Nat /\ freed[q] \in Nat /\ Len(pbuf_global[q]) \in Nat
  BY SMTT(30) DEF TypeOK
<1>2. QED
  BY SMTT(30), <1>1 DEF NextPb

(* The identities of a sequence of pbufs are packet identities. *)
LEMMA IdsType ==
    ASSUME NEW s \in Seq(Pbuf)
    PROVE  Ids(s) \subseteq Nat
<1>1. \A i \in DOMAIN s : s[i] \in Pbuf
  BY SMTT(30)
<1>2. \A i \in DOMAIN s : s[i].id \in Nat
  BY ZenonT(30), <1>1 DEF Pbuf
<1>3. QED
  BY ZenonT(30), <1>2 DEF Ids

(* Every step keeps the types. *)
LEMMA TypeNext == TypeOK /\ [Next]_vars => TypeOK'
<1> SUFFICES ASSUME TypeOK, [Next]_vars PROVE TypeOK'
  BY ZenonT(30)
<1> USE DEF acceptVars, producerVars, checkVars, loopVars, queueVars,
            workerVars, historyVars
<1>1. CASE Tick
  <2>1. tick' \in Time
    BY SMTT(30), <1>1, ConstantsAssumption DEF Tick, TypeOK, Time
  <2>2. QED
    BY ZenonT(30), <1>1, <2>1 DEF Tick, TypeOK
<1>2. ASSUME NEW w \in Worker, NEW k \in Key, NEW l \in BOOLEAN,
             Receive(w, k, l)
      PROVE  TypeOK'
  <2>1. w \in Producer
    BY SMTT(30), ConstantsAssumption DEF Worker, Producer
  <2>2. NewPbuf(w, k, l) \in Pbuf
    BY ZenonT(30), <1>2, <2>1, NewPbufType DEF Receive
  <2>3. pbuf_incoming_local' \in [Producer -> Seq(Pbuf)]
    BY SMTT(30), <1>2, <2>1, <2>2 DEF Receive, TypeOK
  <2>4. received' \in 0..MaxPackets
    BY SMTT(30), <1>2, ConstantsAssumption DEF Receive, TypeOK
  <2>5. QED
    BY ZenonT(30), <1>2, <2>3, <2>4 DEF Receive, TypeOK
<1>3. ASSUME NEW p \in Producer, NEW k \in Key, NEW l \in BOOLEAN,
             PseudoPush(p, k, l)
      PROVE  TypeOK'
  <2>1. NewPbuf(p, k, l) \in Pbuf
    BY ZenonT(30), <1>3, NewPbufType DEF PseudoPush
  <2>2. Append(pbuf_incoming_local[p], NewPbuf(p, k, l)) \in Seq(Pbuf)
    BY SMTT(30), <2>1 DEF TypeOK
  <2>3. /\ pbuf_incoming_local' \in [Producer -> Seq(Pbuf)]
        /\ pbuf_incoming' \in [Producer -> Seq(Pbuf)]
    BY ZenonT(30), <1>3, <2>2, FlushType DEF PseudoPush
  <2>4. received' \in 0..MaxPackets
    BY SMTT(30), <1>3, ConstantsAssumption DEF PseudoPush, TypeOK
  <2>5. QED
    BY ZenonT(30), <1>3, <2>3, <2>4 DEF PseudoPush, TypeOK
<1>4. CASE LoopTop
  BY SMTT(30), <1>4, ConstantsAssumption DEF LoopTop, TypeOK
<1>5. CASE WalkSkip
  BY SMTT(30), <1>5, ConstantsAssumption DEF WalkSkip, TypeOK, Producer
<1>6. CASE DrainLock
  BY ZenonT(30), <1>6 DEF DrainLock, TypeOK
<1>7. CASE DrainTake
  BY SMTT(30), <1>7 DEF DrainTake, TypeOK
<1>8. CASE CheckPacket
  <2>1. Head(pb_list) \in Pbuf /\ Tail(pb_list) \in Seq(Pbuf)
    BY SMTT(30), <1>8 DEF CheckPacket, TypeOK
  <2>2. /\ dupecheck_seqnum' \in [Queue -> Seqnum]
        /\ pb_out' \in [Queue -> Seq(Pbuf)]
    <3>1. CASE CheckDupe(Head(pb_list))
      <4>1. [Head(pb_list) EXCEPT !.dup = TRUE] \in Pbuf
        BY ZenonT(30), <2>1 DEF Pbuf
      <4>2. QED
        BY ZenonT(30), <3>1, <4>1, EmitType DEF CheckDupe, Queue
    <3>2. CASE CheckUnique(Head(pb_list))
      BY ZenonT(30), <2>1, <3>2, EmitType DEF CheckUnique, Queue
    <3>3. CASE CheckAllocFail(Head(pb_list))
      BY ZenonT(30), <2>1, <3>3, EmitType DEF CheckAllocFail, Queue
    <3>4. QED
      BY ZenonT(30), <1>8, <3>1, <3>2, <3>3 DEF CheckPacket
  <2>3. dupecheck_db' \in [Key -> Time \cup {Never}]
    BY ZenonT(30), <1>8 DEF CheckPacket, CheckDupe, CheckUnique, CheckAllocFail, DbStore,
                TypeOK
  <2>4. QED
    BY ZenonT(30), <1>8, <2>1, <2>2, <2>3 DEF CheckPacket, TypeOK
<1>9. CASE DrainDone
  BY SMTT(30), <1>9, ConstantsAssumption DEF DrainDone, TypeOK, Producer
<1>10. CASE Splice
  BY SMTT(30), <1>10, ConstantsAssumption DEF Splice, TypeOK, Time
<1>11. CASE LagScan
  <2>1. walk \in Worker
    BY SMTT(30), <1>11, ConstantsAssumption DEF LagScan, TypeOK, Worker
  <2>2. \A q \in Queue : Lag(dupecheck_seqnum[q], last_seqnum[q][walk]) \in Int
    BY ZenonT(30), <2>1, LagType DEF TypeOK
  <2>3. worker_lag' \in [Queue -> Int]
    BY ZenonT(30), <1>11, <2>2 DEF LagScan, TypeOK
  <2>4. walk' \in 1..(MaxWorkers + Pseudo + 1)
    BY SMTT(30), <1>11, <2>1, ConstantsAssumption DEF LagScan, Worker
  <2>5. QED
    BY ZenonT(30), <1>11, <2>3, <2>4 DEF LagScan, TypeOK
<1>12. CASE Purge
  <2>1. PICK m \in freed["main"]..Len(pbuf_global["main"]),
             d \in freed["dupe"]..Len(pbuf_global["dupe"]) :
          /\ freed' = [q \in Queue |-> IF q = "main" THEN m ELSE d]
          /\ pbuf_global_count' = [q \in Queue |->
              pbuf_global_count[q] - ((IF q = "main" THEN m ELSE d) - freed[q])]
    BY ZenonT(30), <1>12 DEF Purge
  <2>2. /\ freed["main"] \in Nat /\ Len(pbuf_global["main"]) \in Nat
        /\ freed["dupe"] \in Nat /\ Len(pbuf_global["dupe"]) \in Nat
    <3>1. \A q \in Queue : freed[q] \in Nat /\ Len(pbuf_global[q]) \in Nat
      BY SMTT(30) DEF TypeOK
    <3>2. QED
      BY ZenonT(30), <3>1 DEF Queue
  <2>3. m \in Nat /\ d \in Nat
    BY SMTT(30), <2>2
  <2>4. freed' \in [Queue -> Nat] /\ pbuf_global_count' \in [Queue -> Int]
    <3>1. \A q \in Queue : freed[q] \in Nat /\ pbuf_global_count[q] \in Int
      BY ZenonT(30) DEF TypeOK
    <3>2. freed' \in [Queue -> Nat]
      BY ZenonT(30), <2>1, <2>3
    <3>3. pbuf_global_count' \in [Queue -> Int]
      BY SMTT(30), <2>1, <2>3, <3>1
    <3>4. QED
      BY ZenonT(30), <3>2, <3>3
  <2>5. dupecheck_db' \in [Key -> Time \cup {Never}]
    BY ZenonT(30), <1>12 DEF Purge, TypeOK
  <2>6. walk' \in 1..(MaxWorkers + Pseudo + 1) /\ worker_lag' \in [Queue -> Int]
    BY SMTT(30), <1>12, ConstantsAssumption DEF Purge
  <2>7. QED
    BY ZenonT(30), <1>12, <2>4, <2>5, <2>6 DEF Purge, TypeOK
<1>13. ASSUME NEW w \in Worker, WorkerStep(w)
       PROVE  TypeOK'
  <2>1. CASE OutgoingStart(w) \/ OutgoingSkip(w)
    BY ZenonT(30), <2>1 DEF OutgoingStart, OutgoingSkip, TypeOK
  <2>2. CASE PollDone(w)
    <3>1. w \in Producer
      BY SMTT(30), ConstantsAssumption DEF Worker, Producer
    <3>2. pbuf_incoming_local[w] \in Seq(Pbuf)
      BY ZenonT(30), <3>1 DEF TypeOK
    <3>3. /\ pbuf_incoming_local' \in [Producer -> Seq(Pbuf)]
          /\ pbuf_incoming' \in [Producer -> Seq(Pbuf)]
      BY ZenonT(30), <2>2, <3>1, <3>2, FlushType DEF PollDone, TypeOK
    <3>4. QED
      BY ZenonT(30), <2>2, <3>3 DEF PollDone, TypeOK
  <2>3. ASSUME NEW q \in Queue, Process(q, w)
        PROVE  TypeOK'
    <3>1. NextPb(q, w) \in 1..Len(pbuf_global[q])
      BY ZenonT(30), <2>3, NextPbType DEF Process
    <3>2. pbuf_global[q][NextPb(q, w)] \in Pbuf
      BY SMTT(30), <3>1 DEF TypeOK
    <3>3. pbuf_global[q][NextPb(q, w)].seqnum \in Seqnum
      BY ZenonT(30), <3>2 DEF Pbuf
    <3>4. last_seqnum' \in [Queue -> [Worker -> Seqnum]]
      BY ZenonT(30), <2>3, <3>3 DEF Process, TypeOK
    <3>5. pb' \in [Worker -> Nat]
      <4>1. NextPb(q, w) \in Nat
        BY SMTT(30), <3>1
      <4>2. pb' = [pb EXCEPT ![w] = NextPb(q, w)] /\ pb \in [Worker -> Nat]
        BY ZenonT(30), <2>3 DEF Process, TypeOK
      <4>3. QED
        BY ZenonT(30), <4>1, <4>2
    <3>6. QED
      BY ZenonT(30), <2>3, <3>4, <3>5 DEF Process, TypeOK, Adv
  <2>4. ASSUME NEW q \in Queue, Advance(q, w)
        PROVE  TypeOK'
    BY ZenonT(30), <2>4 DEF Advance, TypeOK, Queue
  <2>5. ASSUME NEW q \in Queue, QueueEnd(q, w)
        PROVE  TypeOK'
    BY ZenonT(30), <2>5 DEF QueueEnd, TypeOK
  <2>6. QED
    BY ZenonT(30), <1>13, <2>1, <2>2, <2>3, <2>4, <2>5 DEF WorkerStep
<1>14. ASSUME NEW n \in Worker, DupecheckStop(n)
       PROVE  TypeOK'
  BY SMTT(30), <1>14, ConstantsAssumption DEF DupecheckStop, TypeOK
<1>15. CASE DupecheckJoined
  BY ZenonT(30), <1>15 DEF DupecheckJoined, TypeOK
<1>16. CASE WorkerStop
  BY ZenonT(30), <1>16 DEF WorkerStop, TypeOK
<1>17. CASE WorkerJoined
  <2>1. workers_running \in Worker /\ workers_running' \in 0..MaxWorkers
    BY SMTT(30), <1>17, ConstantsAssumption DEF WorkerJoined, TypeOK, Worker
  <2>2. workers_running \in Producer
    BY SMTT(30), <2>1, ConstantsAssumption DEF Worker, Producer
  <2>3. /\ pbuf_incoming_local' \in [Producer -> Seq(Pbuf)]
        /\ pbuf_incoming' \in [Producer -> Seq(Pbuf)]
    BY SMTT(30), <1>17, <2>2 DEF WorkerJoined, TypeOK
  <2>4. lost' \in SUBSET Nat
    BY ZenonT(30), <1>17, <2>2, IdsType DEF WorkerJoined, TypeOK
  <2>5. /\ prevp' \in [Queue -> [Worker -> Nat]]
        /\ last_seqnum' \in [Queue -> [Worker -> Seqnum]]
    BY SMTT(30), <1>17, <2>1, ConstantsAssumption DEF WorkerJoined, TypeOK, Seqnum
  <2>6. QED
    BY ZenonT(30), <1>17, <2>1, <2>3, <2>4, <2>5 DEF WorkerJoined, TypeOK
<1>18. CASE WorkerStart
  <2>1. workers_running + 1 \in Worker /\ workers_running' \in 0..MaxWorkers
    BY SMTT(30), <1>18, ConstantsAssumption DEF WorkerStart, TypeOK, Worker
  <2>2. \A q \in Queue : Len(pbuf_global[q]) \in Nat
    BY SMTT(30) DEF TypeOK
  <2>3. prevp' \in [Queue -> [Worker -> Nat]]
    BY ZenonT(30), <1>18, <2>1, <2>2 DEF WorkerStart, TypeOK
  <2>4. last_seqnum' \in [Queue -> [Worker -> Seqnum]]
    BY SMTT(30), <1>18, <2>1, ConstantsAssumption DEF WorkerStart, TypeOK, Seqnum
  <2>5. QED
    BY ZenonT(30), <1>18, <2>1, <2>3, <2>4 DEF WorkerStart, TypeOK
<1>19. CASE DupecheckStart
  BY SMTT(30), <1>19 DEF DupecheckStart, TypeOK, Time
<1>20. CASE UNCHANGED vars
  BY ZenonT(30), <1>20 DEF vars, TypeOK
<1>21. QED
  BY ZenonT(30), <1>1, <1>2, <1>3, <1>4, <1>5, <1>6, <1>7, <1>8, <1>9, <1>10, <1>11,
     <1>12, <1>13, <1>14, <1>15, <1>16, <1>17, <1>18, <1>19, <1>20,
     ConstantsAssumption
  DEF Next, DupecheckStep, AcceptStep

(***************************************************************************)
(* Every variable of the pipeline keeps its type.                          *)
(***************************************************************************)
THEOREM TypeCorrect == Spec => []TypeOK
BY TypeInit, TypeNext, PTL DEF Spec
=============================================================================
