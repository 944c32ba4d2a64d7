------------------------------ MODULE Pipeline ------------------------------
(***************************************************************************)
(* The packet pipeline of aprsc: worker threads hand received packets to   *)
(* the dupecheck thread, which sorts them into the unique and the          *)
(* duplicate global queue; every worker walks both queues with a cursor of *)
(* its own, and the dupecheck thread purges from their heads what every    *)
(* worker has passed, without taking the lock the workers hold.  The       *)
(* accept thread stops and restarts the dupecheck thread around a change   *)
(* of the number of workers.  The HTTP and UDP submit paths are producers  *)
(* without a cursor (http_worker, udp_worker).                             *)
(*                                                                         *)
(* A queue is the sequence of every packet ever spliced into it; the first *)
(* freed[q] of them have been unlinked and freed.  A pointer to the `next' *)
(* field of the i-th packet is the number i, and 0 is a pointer to the     *)
(* head pointer (pbuf_global, pbuf_global_dupe).                           *)
(***************************************************************************)
EXTENDS Integers, Sequences

CONSTANTS
    MaxWorkers,       \* bound on workers_configured
    Pseudo,           \* number of producers without a cursor (http, udp)
    Key,              \* canonical packet contents: address and payload
    Mangled,          \* Mangled[k]: the mangled versions stored along with k
    AllocMayFail,     \* dupe records may run out of cells
    LocalLogins,      \* packets of stations logged in here come in elsewhere
    SeqSpace,         \* size of the sequence number space (2^32)
    SeqStart,         \* initial dupecheck_seqnum (2^32 - 2000)
    NoData,           \* the lag of a worker without data (2000000000)
    StoreTime,        \* dupefilter_storetime
    Expiration,       \* pbuf_global_expiration
    CountLimit,       \* pbuf_global_count_limit, per queue
    CleanupInterval,  \* ticks between two purges (10)
    MaxInCore,        \* bound: packets of a queue that are not freed yet
    MaxPackets,       \* bound: packets received
    MaxTick,          \* bound: clock
    MaxReconf         \* bound: reconfigurations

Queue == {"main", "dupe"}
Worker == 1..MaxWorkers
Producer == 1..(MaxWorkers + Pseudo)
Never == -1

ASSUME ConstantsAssumption ==
    /\ MaxWorkers \in Nat \ {0}
    /\ Pseudo \in Nat
    /\ AllocMayFail \in BOOLEAN
    /\ LocalLogins \in BOOLEAN
    /\ Mangled \in [Key -> SUBSET Key]
    /\ SeqSpace \in Nat \ {0}
    /\ SeqStart \in 0..(SeqSpace - 1)
    /\ NoData \in Nat
    /\ MaxInCore \in Nat
    /\ StoreTime \in Nat /\ Expiration \in Nat
    /\ CleanupInterval \in Nat \ {0}
    /\ CountLimit \in [Queue -> Nat]
    /\ MaxPackets \in Nat /\ MaxTick \in Nat /\ MaxReconf \in Nat

(***************************************************************************)
(* pbuf_seqnum_lag is exact "as long as there are less than 2 billion      *)
(* packets in the in-core value spaces".                                   *)
(***************************************************************************)
ASSUME SeqSpaceAssumption ==
    /\ MaxInCore < NoData
    /\ 2 * NoData < SeqSpace

VARIABLES
    tick,                  \* the clock the time thread advances
    workers_configured, workers_running, apc, reconfs,        \* accept thread
    pbuf_incoming_local, pbuf_incoming,                       \* producers
    dpc, walk, pb_list, pb_out, dupecheck_seqnum, dupecheck_db,
    worker_lag, cleanup_tick,                                 \* dupecheck
    pbuf_global, freed, pbuf_global_count,                    \* global queues
    wpc, pb, prevp, last_seqnum,                              \* workers
    received, lost                                            \* history

acceptVars == <<workers_configured, workers_running, apc, reconfs>>
producerVars == <<pbuf_incoming_local, pbuf_incoming>>
checkVars == <<pb_list, pb_out, dupecheck_seqnum, dupecheck_db>>
loopVars == <<dpc, walk, worker_lag, cleanup_tick>>
queueVars == <<pbuf_global, freed, pbuf_global_count>>
workerVars == <<wpc, pb, prevp, last_seqnum>>
historyVars == <<received, lost>>
vars == <<tick, acceptVars, producerVars, checkVars, loopVars,
          queueVars, workerVars, historyVars>>

Time == 0..MaxTick
Seqnum == 0..(SeqSpace - 1)

(***************************************************************************)
(* A pbuf: its identity (the order of reception), the producer it came     *)
(* through, its content, the F_DUPE mark of incoming_parse (looped), the   *)
(* F_DUPE mark of the dupe check (dup), when it was received (t) and       *)
(* checked (checked), and its sequence number.                             *)
(***************************************************************************)
Pbuf == [id : Nat, src : Producer, key : Key, looped : BOOLEAN, t : Time,
         dup : BOOLEAN, checked : Time, seqnum : Seqnum]

NewPbuf(p, k, l) ==
    [id |-> received + 1, src |-> p, key |-> k, looped |-> l, t |-> tick,
     dup |-> FALSE, checked |-> 0, seqnum |-> 0]

F_DUPE(p) == p.looped \/ p.dup

Running(w) == w \in 1..workers_running
Live(p) == Running(p) \/ p > MaxWorkers

Init ==
    /\ tick = 0
    /\ workers_configured \in Worker
    /\ workers_running = 0
    /\ apc = "adjust"
    /\ reconfs = 0
    /\ pbuf_incoming_local = [p \in Producer |-> <<>>]
    /\ pbuf_incoming = [p \in Producer |-> <<>>]
    /\ dpc = "stopped"
    /\ walk = 1
    /\ pb_list = <<>>
    /\ pb_out = [q \in Queue |-> <<>>]
    /\ dupecheck_seqnum = [q \in Queue |-> SeqStart]
    /\ dupecheck_db = [k \in Key |-> Never]
    /\ worker_lag = [q \in Queue |-> -1]
    /\ cleanup_tick = 0
    /\ pbuf_global = [q \in Queue |-> <<>>]
    /\ freed = [q \in Queue |-> 0]
    /\ pbuf_global_count = [q \in Queue |-> 0]
    /\ wpc = [w \in Worker |-> "none"]
    /\ pb = [w \in Worker |-> 0]
    /\ prevp = [q \in Queue |-> [w \in Worker |-> 0]]
    /\ last_seqnum = [q \in Queue |-> [w \in Worker |-> 0]]
    /\ received = 0
    /\ lost = {}

(* The time thread. *)
Tick ==
    /\ tick < MaxTick
    /\ tick' = tick + 1
    /\ UNCHANGED <<acceptVars, producerVars, checkVars, loopVars, queueVars, workerVars, historyVars>>

-----------------------------------------------------------------------------
(***************************************************************************)
(* Producers.                                                              *)
(***************************************************************************)

(* Whether the dupecheck thread holds p's pbuf_incoming_mutex. *)
MutexHeld(p) == dpc = "locked" /\ walk = p

(* Mutant: a failed trylock drops the packets. *)
FlushDropping(p, s) ==
    /\ pbuf_incoming_local' = [pbuf_incoming_local EXCEPT ![p] = <<>>]
    /\ IF MutexHeld(p)
       THEN UNCHANGED pbuf_incoming
       ELSE pbuf_incoming' = [pbuf_incoming EXCEPT ![p] = @ \o s]

(* Mutant: the local queue is put before what is waiting. *)
FlushInFront(p, s) ==
    IF MutexHeld(p)
    THEN /\ pbuf_incoming_local' = [pbuf_incoming_local EXCEPT ![p] = s]
         /\ UNCHANGED pbuf_incoming
    ELSE /\ pbuf_incoming' = [pbuf_incoming EXCEPT ![p] = s \o @]
         /\ pbuf_incoming_local' = [pbuf_incoming_local EXCEPT ![p] = <<>>]

(***************************************************************************)
(* incoming_flush with the local queue in state s: nothing moves when      *)
(* trylock fails.                                                          *)
(***************************************************************************)
Flush(p, s) ==
    IF MutexHeld(p)
    THEN /\ pbuf_incoming_local' = [pbuf_incoming_local EXCEPT ![p] = s]
         /\ UNCHANGED pbuf_incoming
    ELSE /\ pbuf_incoming' = [pbuf_incoming EXCEPT ![p] = @ \o s]
         /\ pbuf_incoming_local' = [pbuf_incoming_local EXCEPT ![p] = <<>>]

(***************************************************************************)
(* A worker reads a line from a client in xpoll() and incoming_parse puts  *)
(* it on the local queue.  It is looped when its source station is logged  *)
(* in to this server on another connection.                                *)
(***************************************************************************)
Receive(w, k, l) ==
    /\ wpc[w] = "poll"
    /\ received < MaxPackets
    /\ pbuf_incoming_local' =
         [pbuf_incoming_local EXCEPT ![w] = Append(@, NewPbuf(w, k, l))]
    /\ received' = received + 1
    /\ UNCHANGED <<tick, acceptVars, pbuf_incoming, checkVars, loopVars, queueVars, workerVars, lost>>

(* xpoll() returns; the worker tries to flush and goes to its loop's top. *)
PollDone(w) ==
    /\ wpc[w] = "poll"
    /\ IF pbuf_incoming_local[w] # <<>>
       THEN Flush(w, pbuf_incoming_local[w])
       ELSE UNCHANGED producerVars
    /\ wpc' = [wpc EXCEPT ![w] = "top"]
    /\ UNCHANGED <<tick, acceptVars, checkVars, loopVars,
                   queueVars, pb, prevp, last_seqnum, historyVars>>

(* An HTTP or UDP submission: parse the packet, then flush, once. *)
PseudoPush(p, k, l) ==
    /\ p > MaxWorkers
    /\ received < MaxPackets
    /\ Flush(p, Append(pbuf_incoming_local[p], NewPbuf(p, k, l)))
    /\ received' = received + 1
    /\ UNCHANGED <<tick, acceptVars, checkVars, loopVars,
                   queueVars, workerVars, lost>>

-----------------------------------------------------------------------------
(***************************************************************************)
(* The dupecheck thread.                                                   *)
(***************************************************************************)

(* dupecheck_stop sets the flag and waits in pthread_join. *)
dupecheck_shutting_down == apc = "join"

(* Mutant: the flag is not looked at. *)
LoopTopDeaf ==
    /\ dpc = "top"
    /\ dpc' = "walk"
    /\ walk' = 1
    /\ UNCHANGED <<tick, acceptVars, producerVars, checkVars, worker_lag,
                   cleanup_tick, queueVars, workerVars, historyVars>>

(* The top of the loop of dupecheck_thread. *)
LoopTop ==
    /\ dpc = "top"
    /\ dpc' = IF dupecheck_shutting_down THEN "stopped" ELSE "walk"
    /\ walk' = 1
    /\ UNCHANGED <<tick, acceptVars, producerVars, checkVars, worker_lag,
                   cleanup_tick, queueVars, workerVars,
                   historyVars>>

(* A producer without packets is passed by, on a look without its mutex. *)
WalkSkip ==
    /\ dpc = "walk"
    /\ walk \in Producer
    /\ ~Live(walk) \/ pbuf_incoming[walk] = <<>>
    /\ walk' = walk + 1
    /\ UNCHANGED <<tick, acceptVars, producerVars, checkVars, dpc, worker_lag,
                   cleanup_tick, queueVars, workerVars,
                   historyVars>>

(* dupecheck_drain_worker locks the mutex of a producer with packets. *)
DrainLock ==
    /\ dpc = "walk"
    /\ walk \in Producer
    /\ Live(walk) /\ pbuf_incoming[walk] # <<>>
    /\ dpc' = "locked"
    /\ UNCHANGED <<tick, acceptVars, producerVars, checkVars, walk, worker_lag,
                   cleanup_tick, queueVars, workerVars,
                   historyVars>>

(***************************************************************************)
(* dupecheck_drain_worker takes the whole list and unlocks.  MaxInCore     *)
(* bounds what the queues may hold with it.                                *)
(***************************************************************************)
DrainTake ==
    /\ dpc = "locked"
    /\ \A q \in Queue :
         Len(pbuf_global[q]) - freed[q] + Len(pb_out[q])
            + Len(pbuf_incoming[walk]) <= MaxInCore
    /\ pb_list' = pbuf_incoming[walk]
    /\ pbuf_incoming' = [pbuf_incoming EXCEPT ![walk] = <<>>]
    /\ dpc' = "check"
    /\ UNCHANGED <<tick, acceptVars, pbuf_incoming_local, pb_out,
                   dupecheck_seqnum, dupecheck_db, walk, worker_lag,
                   cleanup_tick, queueVars, workerVars,
                   historyVars>>

(* A record of k that is young enough to match. *)
DupeMatch(k) ==
    dupecheck_db[k] # Never /\ dupecheck_db[k] >= tick - StoreTime

(***************************************************************************)
(* What dupecheck() and dupecheck_mangle_store() leave in the db when the  *)
(* packet is new: the time of the youngest record of each content.  A      *)
(* stored mangled version is refreshed or added, whatever its age was.     *)
(***************************************************************************)
DbStore(k, mangled) ==
    [x \in Key |-> IF x = k \/ x \in mangled THEN tick ELSE dupecheck_db[x]]

(* Put packet p, given the next sequence number, at the end of chain q. *)
Emit(q, p) ==
    /\ dupecheck_seqnum' =
         [dupecheck_seqnum EXCEPT ![q] = (@ + 1) % SeqSpace]
    /\ pb_out' = [pb_out EXCEPT ![q] =
         Append(@, [p EXCEPT !.seqnum = (dupecheck_seqnum[q] + 1) % SeqSpace,
                             !.checked = tick])]

(* Mutant: a duplicate refreshes the record it matched. *)
CheckDupeRefreshing(p) ==
    /\ DupeMatch(p.key)
    /\ Emit("dupe", [p EXCEPT !.dup = TRUE])
    /\ dupecheck_db' = DbStore(p.key, {})

(* dupecheck() finds the packet in the db. *)
CheckDupe(p) ==
    /\ DupeMatch(p.key)
    /\ Emit("dupe", [p EXCEPT !.dup = TRUE])
    /\ UNCHANGED dupecheck_db

(* Mutant: the record carries the time of arrival. *)
CheckUniqueArrival(p) ==
    /\ ~DupeMatch(p.key)
    /\ dupecheck_db' = [x \in Key |->
         IF x = p.key \/ x \in Mangled[p.key] THEN p.t ELSE dupecheck_db[x]]
    /\ Emit("main", p)

(* dupecheck() does not find it and records it. *)
CheckUnique(p) ==
    /\ ~DupeMatch(p.key)
    /\ \E mangled \in SUBSET Mangled[p.key] :
         /\ AllocMayFail \/ mangled = Mangled[p.key]
         /\ dupecheck_db' = DbStore(p.key, mangled)
    /\ Emit("main", p)

(* No cell for the record: -1 sends the packet to the duplicates. *)
CheckAllocFail(p) ==
    /\ ~DupeMatch(p.key)
    /\ AllocMayFail
    /\ Emit("dupe", p)
    /\ UNCHANGED dupecheck_db

(* One iteration of the loop of dupecheck_drain_worker over its list. *)
CheckPacket ==
    /\ dpc = "check"
    /\ pb_list # <<>>
    /\ \/ CheckDupe(Head(pb_list))
       \/ CheckUnique(Head(pb_list))
       \/ CheckAllocFail(Head(pb_list))
    /\ pb_list' = Tail(pb_list)
    /\ UNCHANGED <<tick, acceptVars, producerVars, loopVars,
                   queueVars, workerVars, historyVars>>

DrainDone ==
    /\ dpc = "check"
    /\ pb_list = <<>>
    /\ dpc' = "walk"
    /\ walk' = walk + 1
    /\ UNCHANGED <<tick, acceptVars, producerVars, checkVars, worker_lag,
                   cleanup_tick, queueVars, workerVars,
                   historyVars>>

(* Whether a worker holds pbuf_global_rwlock for reading. *)
ReadLocked ==
    \E w \in Worker : wpc[w] \in {"main", "mainAdv", "dupe", "dupeAdv"}

(***************************************************************************)
(* Every producer was visited: both chains go to the ends of the global    *)
(* queues under the write lock, which is not taken when there is nothing   *)
(* to splice.  A purge follows when it is due.                             *)
(***************************************************************************)
Splice ==
    /\ dpc = "walk"
    /\ walk \notin Producer
    /\ (\E q \in Queue : pb_out[q] # <<>>) => ~ReadLocked
    /\ pbuf_global' = [q \in Queue |-> pbuf_global[q] \o pb_out[q]]
    /\ pbuf_global_count' =
         [q \in Queue |-> pbuf_global_count[q] + Len(pb_out[q])]
    /\ pb_out' = [q \in Queue |-> <<>>]
    /\ IF cleanup_tick <= tick
       THEN /\ cleanup_tick' = tick + CleanupInterval
            /\ dpc' = "lag"
       ELSE /\ UNCHANGED cleanup_tick
            /\ dpc' = "top"
    /\ walk' = 1
    /\ worker_lag' = [q \in Queue |-> -1]
    /\ UNCHANGED <<tick, acceptVars, producerVars, pb_list, dupecheck_seqnum,
                   dupecheck_db, freed, workerVars, historyVars>>

(***************************************************************************)
(* pbuf_seqnum_lag: the difference of two 32-bit numbers read as a signed  *)
(* number, and 2000000000 for the number 0.                                *)
(***************************************************************************)
Signed(n) == IF 2 * n < SeqSpace THEN n ELSE n - SeqSpace

(* Mutant: the numbers are subtracted without regard to the wrap. *)
LagUnwrapped(seqnum, pbuf_seq) ==
    IF pbuf_seq = 0 THEN NoData ELSE seqnum - pbuf_seq

Lag(seqnum, pbuf_seq) ==
    IF pbuf_seq = 0 THEN NoData ELSE Signed((seqnum - pbuf_seq) % SeqSpace)

(* The lag of the next worker is read, without a lock. *)
LagScan ==
    /\ dpc = "lag"
    /\ walk <= workers_running
    /\ worker_lag' = [q \in Queue |->
         LET c == Lag(dupecheck_seqnum[q], last_seqnum[q][walk])
         IN  IF c > worker_lag[q] THEN c ELSE worker_lag[q]]
    /\ walk' = walk + 1
    /\ UNCHANGED <<tick, acceptVars, producerVars, checkVars, dpc, cleanup_tick, queueVars, workerVars, historyVars>>

(* Mutant: the purger goes as far as the slowest worker. *)
PurgeableAtCursor(q, i) ==
    /\ pbuf_global_count[q] - (i - 1 - freed[q]) > CountLimit[q]
    /\ pbuf_global[q][i].t < tick - Expiration
    /\ worker_lag[q] <= Lag(dupecheck_seqnum[q], pbuf_global[q][i].seqnum)

(* global_pbuf_purger does not stop at the i-th packet of q. *)
Purgeable(q, i) ==
    /\ pbuf_global_count[q] - (i - 1 - freed[q]) > CountLimit[q]
    /\ pbuf_global[q][i].t < tick - Expiration
    /\ worker_lag[q] < Lag(dupecheck_seqnum[q], pbuf_global[q][i].seqnum)

(* The purger frees the packets up to the n-th, from the head of q. *)
PurgesTo(q, n) ==
    /\ \A i \in (freed[q] + 1)..n : Purgeable(q, i)
    /\ n < Len(pbuf_global[q]) => ~Purgeable(q, n + 1)

(* global_pbuf_purger and dupecheck_cleanup, both without a lock. *)
Purge ==
    /\ dpc = "lag"
    /\ walk > workers_running
    /\ \E m \in freed["main"]..Len(pbuf_global["main"]),
          d \in freed["dupe"]..Len(pbuf_global["dupe"]) :
         /\ PurgesTo("main", m)
         /\ PurgesTo("dupe", d)
         /\ freed' = [q \in Queue |-> IF q = "main" THEN m ELSE d]
         /\ pbuf_global_count' = [q \in Queue |->
              pbuf_global_count[q] - ((IF q = "main" THEN m ELSE d) - freed[q])]
    /\ dupecheck_db' = [k \in Key |->
         IF dupecheck_db[k] < tick - StoreTime THEN Never ELSE dupecheck_db[k]]
    /\ dpc' = "top"
    /\ walk' = 1
    /\ worker_lag' = [q \in Queue |-> -1]
    /\ UNCHANGED <<tick, acceptVars, producerVars, pb_list, pb_out,
                   dupecheck_seqnum, cleanup_tick, pbuf_global,
                   workerVars, historyVars>>

DupecheckStep ==
    \/ LoopTop \/ WalkSkip \/ DrainLock \/ DrainTake \/ CheckPacket
    \/ DrainDone \/ Splice \/ LagScan \/ Purge

-----------------------------------------------------------------------------
(***************************************************************************)
(* Workers.                                                                *)
(***************************************************************************)

(***************************************************************************)
(* *prevp: the packet after the cursor, 0 for NULL.  The purger cuts the   *)
(* `next' field of what it frees.                                          *)
(***************************************************************************)
NextPb(q, w) ==
    LET i == IF prevp[q][w] = 0 THEN freed[q] + 1 ELSE prevp[q][w] + 1
    IN  IF i <= Len(pbuf_global[q]) /\ (prevp[q][w] = 0 \/ prevp[q][w] > freed[q])
        THEN i ELSE 0

(* Mutant: only the unique queue is looked at. *)
HasDataMain(w) == NextPb("main", w) # 0

HasData(w) == \E q \in Queue : NextPb(q, w) # 0

(* The worker was told to shut down: it leaves its loop at the top. *)
Leaving(w) == apc = "joinWorker" /\ w = workers_running

(* The loop's top: process_outgoing is called when there is data. *)
OutgoingStart(w) ==
    /\ wpc[w] = "top" /\ ~Leaving(w)
    /\ HasData(w)
    /\ wpc' = [wpc EXCEPT ![w] = "main"]
    /\ UNCHANGED <<tick, acceptVars, producerVars, checkVars, loopVars, queueVars, pb, prevp, last_seqnum,
                   historyVars>>

OutgoingSkip(w) ==
    /\ wpc[w] = "top" /\ ~Leaving(w)
    /\ ~HasData(w)
    /\ wpc' = [wpc EXCEPT ![w] = "poll"]
    /\ UNCHANGED <<tick, acceptVars, producerVars, checkVars, loopVars, queueVars, pb, prevp, last_seqnum,
                   historyVars>>

Adv(q) == IF q = "main" THEN "mainAdv" ELSE "dupeAdv"

(***************************************************************************)
(* A worker looks at the next packet of q, offers it to its clients (see   *)
(* Outgoing) and stores its sequence number ...                            *)
(***************************************************************************)
Process(q, w) ==
    LET i == NextPb(q, w)
    IN  /\ wpc[w] = q
        /\ i # 0
        /\ pb' = [pb EXCEPT ![w] = i]
        /\ last_seqnum' = [last_seqnum EXCEPT ![q][w] = pbuf_global[q][i].seqnum]
        /\ wpc' = [wpc EXCEPT ![w] = Adv(q)]
        /\ UNCHANGED <<tick, acceptVars, producerVars, checkVars, loopVars, queueVars, prevp, historyVars>>

(* ... and only then moves its cursor. *)
Advance(q, w) ==
    /\ wpc[w] = Adv(q)
    /\ prevp' = [prevp EXCEPT ![q][w] = pb[w]]
    /\ pb' = [pb EXCEPT ![w] = 0]
    /\ wpc' = [wpc EXCEPT ![w] = q]
    /\ UNCHANGED <<tick, acceptVars, producerVars, checkVars, loopVars, queueVars, last_seqnum, historyVars>>

(* The end of a queue: on to the duplicates, or unlock and poll. *)
QueueEnd(q, w) ==
    /\ wpc[w] = q
    /\ NextPb(q, w) = 0
    /\ wpc' = [wpc EXCEPT ![w] = IF q = "main" THEN "dupe" ELSE "poll"]
    /\ UNCHANGED <<tick, acceptVars, producerVars, checkVars, loopVars, queueVars, pb, prevp, last_seqnum,
                   historyVars>>

WorkerStep(w) ==
    \/ OutgoingStart(w) \/ OutgoingSkip(w) \/ PollDone(w)
    \/ \E q \in Queue : Process(q, w) \/ Advance(q, w) \/ QueueEnd(q, w)

-----------------------------------------------------------------------------
(***************************************************************************)
(* The accept thread changes the number of workers.                        *)
(***************************************************************************)

(* A reconfiguration asks for n workers: the dupecheck thread is stopped. *)
DupecheckStop(n) ==
    /\ apc = "run"
    /\ reconfs < MaxReconf
    /\ n # workers_running
    /\ workers_configured' = n
    /\ apc' = "join"
    /\ reconfs' = reconfs + 1
    /\ UNCHANGED <<tick, workers_running, producerVars, checkVars, loopVars,
                   queueVars, workerVars, historyVars>>

DupecheckJoined ==
    /\ apc = "join"
    /\ dpc = "stopped"
    /\ apc' = "adjust"
    /\ UNCHANGED <<tick, workers_configured, workers_running, reconfs,
                   producerVars, checkVars, loopVars, queueVars,
                   workerVars, historyVars>>

Ids(s) == {s[i].id : i \in DOMAIN s}

(* workers_stop tells the last worker to shut down and waits for it. *)
WorkerStop ==
    /\ apc = "adjust"
    /\ workers_running > workers_configured
    /\ apc' = "joinWorker"
    /\ UNCHANGED <<tick, workers_configured, workers_running, reconfs,
                   producerVars, checkVars, loopVars, queueVars,
                   workerVars, historyVars>>

(* It leaves its loop at the top; what it still has queued is lost. *)
WorkerJoined ==
    LET w == workers_running
    IN  /\ apc = "joinWorker"
        /\ wpc[w] = "top"
        /\ apc' = "adjust"
        /\ wpc' = [wpc EXCEPT ![w] = "none"]
        /\ workers_running' = workers_running - 1
        /\ lost' = lost \cup Ids(pbuf_incoming_local[w]) \cup Ids(pbuf_incoming[w])
        /\ pbuf_incoming_local' = [pbuf_incoming_local EXCEPT ![w] = <<>>]
        /\ pbuf_incoming' = [pbuf_incoming EXCEPT ![w] = <<>>]
        /\ prevp' = [q \in Queue |-> [prevp[q] EXCEPT ![w] = 0]]
        /\ last_seqnum' = [q \in Queue |-> [last_seqnum[q] EXCEPT ![w] = 0]]
        /\ UNCHANGED <<tick, workers_configured, reconfs, checkVars, loopVars, queueVars, pb, received>>

(* Mutant: the cursors start at the heads of the queues. *)
WorkerStartAtHead ==
    LET w == workers_running + 1
    IN  /\ apc = "adjust"
        /\ workers_running < workers_configured
        /\ wpc' = [wpc EXCEPT ![w] = "top"]
        /\ prevp' = [q \in Queue |-> [prevp[q] EXCEPT ![w] = 0]]
        /\ last_seqnum' = [q \in Queue |-> [last_seqnum[q] EXCEPT ![w] = 0]]
        /\ workers_running' = w
        /\ UNCHANGED <<tick, workers_configured, apc, reconfs, producerVars,
                       checkVars, loopVars, queueVars, pb, historyVars>>

(* worker_alloc: the cursors start at the ends of the queues. *)
WorkerStart ==
    LET w == workers_running + 1
    IN  /\ apc = "adjust"
        /\ workers_running < workers_configured
        /\ wpc' = [wpc EXCEPT ![w] = "top"]
        /\ prevp' = [q \in Queue |->
                       [prevp[q] EXCEPT ![w] = Len(pbuf_global[q])]]
        /\ last_seqnum' = [q \in Queue |-> [last_seqnum[q] EXCEPT ![w] = 0]]
        /\ workers_running' = w
        /\ UNCHANGED <<tick, workers_configured, apc, reconfs, producerVars,
                       checkVars, loopVars, queueVars, pb,
                       historyVars>>

DupecheckStart ==
    /\ apc = "adjust"
    /\ workers_running = workers_configured
    /\ dpc' = "top"
    /\ cleanup_tick' = tick
    /\ apc' = "run"
    /\ UNCHANGED <<tick, workers_configured, workers_running, reconfs,
                   producerVars, checkVars, walk, worker_lag, queueVars,
                   workerVars, historyVars>>

AcceptStep ==
    \/ DupecheckJoined \/ WorkerStop \/ WorkerJoined \/ WorkerStart
    \/ DupecheckStart

-----------------------------------------------------------------------------
Next ==
    \/ Tick
    \/ \E k \in Key, l \in {FALSE, LocalLogins} :
         \/ \E w \in Worker : Receive(w, k, l)
         \/ \E p \in Producer : PseudoPush(p, k, l)
    \/ DupecheckStep
    \/ \E w \in Worker : WorkerStep(w)
    \/ \E n \in Worker : DupecheckStop(n)
    \/ AcceptStep

(***************************************************************************)
(* Every thread that can take a step eventually takes one.  Nothing obliges *)
(* clients to send, the clock to reach a bound or the operator to act.      *)
(***************************************************************************)
Fairness ==
    /\ WF_vars(DupecheckStep)
    /\ WF_vars(AcceptStep)
    /\ \A w \in Worker : WF_vars(WorkerStep(w))

Spec == Init /\ [][Next]_vars
FairSpec == Spec /\ Fairness

-----------------------------------------------------------------------------
TypeOK ==
    /\ tick \in Time
    /\ workers_configured \in Worker
    /\ workers_running \in 0..MaxWorkers
    /\ apc \in {"run", "join", "adjust", "joinWorker"}
    /\ reconfs \in 0..MaxReconf
    /\ pbuf_incoming_local \in [Producer -> Seq(Pbuf)]
    /\ pbuf_incoming \in [Producer -> Seq(Pbuf)]
    /\ dpc \in {"top", "walk", "locked", "check", "lag", "stopped"}
    /\ walk \in 1..(MaxWorkers + Pseudo + 1)
    /\ pb_list \in Seq(Pbuf)
    /\ pb_out \in [Queue -> Seq(Pbuf)]
    /\ dupecheck_seqnum \in [Queue -> Seqnum]
    /\ dupecheck_db \in [Key -> Time \cup {Never}]
    /\ worker_lag \in [Queue -> Int]
    /\ cleanup_tick \in Nat
    /\ pbuf_global \in [Queue -> Seq(Pbuf)]
    /\ freed \in [Queue -> Nat]
    /\ pbuf_global_count \in [Queue -> Int]
    /\ wpc \in [Worker -> {"none", "top", "main", "mainAdv", "dupe", "dupeAdv", "poll"}]
    /\ pb \in [Worker -> Nat]
    /\ prevp \in [Queue -> [Worker -> Nat]]
    /\ last_seqnum \in [Queue -> [Worker -> Seqnum]]
    /\ received \in 0..MaxPackets
    /\ lost \in SUBSET Nat
    /\ dpc \in {"locked", "check"} => walk \in Producer
    /\ apc = "joinWorker" => workers_running > workers_configured
-----------------------------------------------------------------------------
(***************************************************************************)
(* Safety.                                                                 *)
(***************************************************************************)

(* How far worker w has come in q: past the packet it is about to leave. *)
Position(q, w) == IF wpc[w] = Adv(q) THEN pb[w] ELSE prevp[q][w]

(***************************************************************************)
(* process_outgoing aborts on a "pbuf marked free", which "would be pretty *)
(* bad".  The purger runs without the lock and decides by sequence numbers *)
(* it read earlier; still no running worker's cursor points into a freed   *)
(* packet when it is next dereferenced, and a worker that has seen nothing *)
(* starts at a head that nobody moved.                                     *)
(***************************************************************************)
NoFreedPbufRead ==
    \A q \in Queue : \A w \in 1..workers_running :
        \/ Position(q, w) = 0 /\ freed[q] = 0
        \/ freed[q] < Position(q, w)

(***************************************************************************)
(* The comment of pbuf_seqnum_lag: the lag "takes care of the value space  *)
(* wrap-around".  For a packet that is not freed it is the number of       *)
(* packets numbered after it, and NoData for the one numbered 0.           *)
(***************************************************************************)
LagExact ==
    \A q \in Queue : \A i \in (freed[q] + 1)..Len(pbuf_global[q]) :
        LET n == pbuf_global[q][i].seqnum
        IN  Lag(dupecheck_seqnum[q], n) =
              IF n = 0 THEN NoData
              ELSE Len(pbuf_global[q]) + Len(pb_out[q]) - i

(***************************************************************************)
(* Where packets are: the queues of the producers, the list and the chains *)
(* of the dupecheck thread, the global queues (freed packets included).    *)
(***************************************************************************)
Holder == ({"local", "incoming"} \X Producer) \cup ({"out", "global"} \X Queue)
          \cup {<<"list", 0>>}
Held(h) ==
    CASE h[1] = "local" -> pbuf_incoming_local[h[2]]
      [] h[1] = "incoming" -> pbuf_incoming[h[2]]
      [] h[1] = "out" -> pb_out[h[2]]
      [] h[1] = "global" -> pbuf_global[h[2]]
      [] h[1] = "list" -> pb_list

(***************************************************************************)
(* No packet is lost, and none is queued twice, between incoming_parse and *)
(* the global queues, whatever trylock, drain and splice interleave: each  *)
(* received packet has exactly one place, unless it was left behind by a   *)
(* worker that was stopped.                                                *)
(***************************************************************************)
Conservation ==
    \A id \in 1..received :
        LET places == UNION {{<<h, i>> : i \in {j \in DOMAIN Held(h) :
                                                  Held(h)[j].id = id}} :
                             h \in Holder}
        IN  IF id \in lost THEN places = {} ELSE \E x \in places : places = {x}

(***************************************************************************)
(* Packets that came in through one worker are in a global queue in the    *)
(* order they were received (the queues are "global ordered buffer         *)
(* queues"), also across a failed trylock and several drains.              *)
(***************************************************************************)
OrderKept ==
    \A q \in Queue : \A j \in DOMAIN pbuf_global[q] : \A i \in 1..(j - 1) :
        pbuf_global[q][i].src = pbuf_global[q][j].src
          => pbuf_global[q][i].id < pbuf_global[q][j].id

(***************************************************************************)
(* Of the copies of a content that are checked within StoreTime of each    *)
(* other, whichever workers they come through and however late they reach  *)
(* the check, only the first one enters the unique queue.  The comment of  *)
(* dupecheck_append gives this as the reason to record the time of the     *)
(* check and not the time of arrival.                                      *)
(***************************************************************************)
UniqueSpacing ==
    \A j \in DOMAIN pbuf_global["main"] : \A i \in 1..(j - 1) :
        LET first == pbuf_global["main"][i]
            second == pbuf_global["main"][j]
        IN  first.key = second.key => second.checked - first.checked > StoreTime

(* The packet m can have caused the record that made d a duplicate. *)
Covers(m, d) ==
    /\ d.key = m.key \/ d.key \in Mangled[m.key]
    /\ d.checked - m.checked \in 0..StoreTime

(***************************************************************************)
(* A packet is called a duplicate only on account of a packet that went    *)
(* into the unique queue at most StoreTime earlier: refreshing the record  *)
(* of a mangled version never extends it beyond that.                      *)
(***************************************************************************)
DupeHasOriginal ==
    \A i \in DOMAIN pbuf_global["dupe"] :
        pbuf_global["dupe"][i].dup =>
          \E j \in DOMAIN pbuf_global["main"] :
             Covers(pbuf_global["main"][j], pbuf_global["dupe"][i])

(***************************************************************************)
(* "fullfeed - everything, after dupe filtering": what is filtered out as  *)
(* a duplicate is a copy of something the clients were sent.               *)
(***************************************************************************)
DupeOriginalWasSent ==
    \A i \in DOMAIN pbuf_global["dupe"] :
        pbuf_global["dupe"][i].dup =>
          \E j \in DOMAIN pbuf_global["main"] :
             /\ Covers(pbuf_global["main"][j], pbuf_global["dupe"][i])
             /\ ~F_DUPE(pbuf_global["main"][j])

-----------------------------------------------------------------------------
(***************************************************************************)
(* What each queue promises the workers.                                   *)
(***************************************************************************)
Main == INSTANCE BroadcastLog WITH
          Reader <- Worker,
          log <- pbuf_global["main"],
          low <- freed["main"],
          readers <- 1..workers_running,
          position <- [w \in Worker |-> Position("main", w)]

Dupe == INSTANCE BroadcastLog WITH
          Reader <- Worker,
          log <- pbuf_global["dupe"],
          low <- freed["dupe"],
          readers <- 1..workers_running,
          position <- [w \in Worker |-> Position("dupe", w)]

(***************************************************************************)
(* Each of the global queues is such a log: a worker gets every packet     *)
(* spliced after it started, in order and once, and packets are freed only *)
(* behind all workers.                                                     *)
(***************************************************************************)
QueuesAreLogs == Main!Spec /\ Dupe!Spec

-----------------------------------------------------------------------------
(***************************************************************************)
(* Liveness, under FairSpec.                                               *)
(***************************************************************************)
Queued(id) == \E q \in Queue : id \in Ids(pbuf_global[q])
HeldBy(p, id) == id \in Ids(pbuf_incoming_local[p]) \cup Ids(pbuf_incoming[p])
PassedBy(w, id) == \E q \in Queue : \E n \in 1..Position(q, w) : pbuf_global[q][n].id = id

(***************************************************************************)
(* A packet a worker received gets to a global queue, unless the worker is *)
(* stopped first: a failed trylock delays it, and readers delay the write  *)
(* lock of the splice, but neither does so for ever.  And every running    *)
(* worker gets past every packet of both queues.                           *)
(***************************************************************************)
PacketsGetThrough ==
    /\ \A id \in 1..MaxPackets :
          (\E w \in Worker : HeldBy(w, id)) ~> (Queued(id) \/ id \in lost)
    /\ \A id \in 1..MaxPackets : \A w \in Worker :
          (Running(w) /\ Queued(id)) ~> (~Running(w) \/ PassedBy(w, id))

(* A change of the number of workers comes to an end. *)
ReconfigurationEnds == (apc # "run") ~> (apc = "run")

(***************************************************************************)
(* The comment of incoming_flush: if the lock is not free, "we'll try      *)
(* again, either in 200 milliseconds or after next input"; and that of     *)
(* pseudoclient_push_packet: "flush it for dupecheck to grab".  What HTTP  *)
(* and UDP submit gets to a global queue.                                  *)
(***************************************************************************)
SubmittedGetsQueued ==
    \A id \in 1..MaxPackets :
        (\E p \in Producer \ Worker : HeldBy(p, id)) ~> Queued(id)
=============================================================================
