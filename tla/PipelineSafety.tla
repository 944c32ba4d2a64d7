--------------------------- MODULE PipelineSafety ---------------------------
(***************************************************************************)
(* No worker of Pipeline reads a freed packet, for any number of workers,  *)
(* any sequence number space and any start of the numbering; and each of   *)
(* the global queues implements BroadcastLog.                              *)
(***************************************************************************)
EXTENDS PipelineTypes

(* The number of the i-th packet of a queue. *)
Nth(i) == (SeqStart + i) % SeqSpace

(***************************************************************************)
(* Packets are numbered in the order they are queued.                      *)
(***************************************************************************)
Numbered(q) ==
    /\ \A i \in 1..Len(pbuf_global[q]) : pbuf_global[q][i].seqnum = Nth(i)
    /\ \A i \in 1..Len(pb_out[q]) :
         pb_out[q][i].seqnum = Nth(Len(pbuf_global[q]) + i)
    /\ dupecheck_seqnum[q] = Nth(Len(pbuf_global[q]) + Len(pb_out[q]))

(* What is not freed fits the number space; the last packet is kept. *)
InCore(q) ==
    /\ Len(pbuf_global[q]) - freed[q] + Len(pb_out[q]) + Len(pb_list) <= MaxInCore
    /\ freed[q] < Len(pbuf_global[q]) \/ (Len(pbuf_global[q]) = 0 /\ freed[q] = 0)

(* Workers come and go only while the dupecheck thread is stopped. *)
Phases ==
    /\ apc \in {"adjust", "joinWorker"} => dpc = "stopped"
    /\ apc \in {"run", "join"} => workers_running >= 1

(* A worker's position is in the kept part, and its number is known. *)
CursorOK(q, w) ==
    /\ \/ Position(q, w) = 0 /\ freed[q] = 0
       \/ freed[q] < Position(q, w) /\ Position(q, w) <= Len(pbuf_global[q])
    /\ \/ last_seqnum[q][w] = 0
       \/ Position(q, w) >= 1 /\ last_seqnum[q][w] = Nth(Position(q, w))

(***************************************************************************)
(* The lag collected so far is that of a place at or behind the worker, or *)
(* it stops the purger altogether.  The worker may have moved on since it  *)
(* was scanned, in particular to the packet numbered 0, whose own lag is   *)
(* NoData: that is why a place behind it must be remembered.               *)
(***************************************************************************)
ScanOK(q, w) ==
    \/ worker_lag[q] >= NoData
    \/ \E p \in (freed[q] + 1)..Position(q, w) :
         Nth(p) # 0 /\ worker_lag[q] >= Len(pbuf_global[q]) - p

Scanned(q) ==
    dpc = "lag" =>
      /\ pb_out[q] = <<>>
      /\ \A w \in 1..workers_running : w < walk => ScanOK(q, w)

Safe(q) ==
    /\ Numbered(q)
    /\ InCore(q)
    /\ \A w \in 1..workers_running : CursorOK(q, w)
    /\ Scanned(q)

IInv == TypeOK /\ Phases /\ \A q \in Queue : Safe(q)

-----------------------------------------------------------------------------
(* A sequence has a length. *)
LEMMA LenIsNat ==
    ASSUME NEW S, NEW s \in Seq(S)
    PROVE  Len(s) \in Nat
BY SMTT(30)

-----------------------------------------------------------------------------
(* Arithmetic of the sequence numbers. *)

(* Division with remainder. *)
LEMMA DivMod ==
    ASSUME NEW S \in Nat \ {0}, NEW a \in Int
    PROVE  /\ a \div S \in Int
           /\ a % S \in 0..(S - 1)
           /\ a = S * (a \div S) + (a % S)
BY Z3

(* The remainder of a multiple of S plus a remainder is that remainder. *)
LEMMA ModUnique ==
    ASSUME NEW S \in Nat \ {0}, NEW r \in 0..(S - 1), NEW k \in Int
    PROVE  (S * k + r) % S = r
BY Z3

(* ++seqnum on a reduced number is the reduced successor. *)
LEMMA ModSucc ==
    ASSUME NEW S \in Nat \ {0}, NEW a \in Int
    PROVE  ((a % S) + 1) % S = (a + 1) % S
<1> DEFINE k == a \div S
           r == a % S
<1>1. k \in Int /\ r \in 0..(S - 1) /\ a = S * k + r
  BY ZenonT(30), DivMod
<1> HIDE DEF k, r
<1>2. CASE r + 1 < S
  <2>1. r + 1 \in 0..(S - 1)
    BY SMTT(30), <1>1, <1>2
  <2>2. (S * k + (r + 1)) % S = r + 1
    BY ZenonT(30), <1>1, <2>1, ModUnique
  <2>3. (S * 0 + (r + 1)) % S = r + 1
    BY SMTT(30), <1>1, <2>1, ModUnique
  <2>4. a + 1 = S * k + (r + 1) /\ r + 1 = S * 0 + (r + 1)
    BY SMTT(30), <1>1
  <2>5. QED
    BY ZenonT(30), <2>2, <2>3, <2>4 DEF r
<1>3. CASE r + 1 = S
  <2>1. (S * (k + 1) + 0) % S = 0
    BY SMTT(30), <1>1, ModUnique
  <2>2. (S * 1 + 0) % S = 0
    BY SMTT(30), ModUnique
  <2>3. a + 1 = S * (k + 1) + 0 /\ r + 1 = S * 1 + 0
    BY SMTT(30), <1>1, <1>3
  <2>4. QED
    BY ZenonT(30), <2>1, <2>2, <2>3 DEF r
<1>4. QED
  BY SMTT(30), <1>1, <1>2, <1>3

(* Subtracting reduced numbers less than S apart gives their true distance. *)
LEMMA ModDiff ==
    ASSUME NEW S \in Nat \ {0}, NEW a \in Int, NEW b \in Int,
           0 <= a - b, a - b < S
    PROVE  ((a % S) - (b % S)) % S = a - b
<1> DEFINE k == a \div S
           r == a % S
           j == b \div S
           s == b % S
<1>1. /\ k \in Int /\ r \in 0..(S - 1) /\ a = S * k + r
      /\ j \in Int /\ s \in 0..(S - 1) /\ b = S * j + s
  BY ZenonT(30), DivMod
<1> HIDE DEF k, r, j, s
<1>2. a - b \in 0..(S - 1) /\ j - k \in Int
  BY SMTT(30), <1>1
<1>3. (S * (j - k) + (a - b)) % S = a - b
  BY ZenonT(30), <1>2, ModUnique
<1>4. r - s = S * (j - k) + (a - b)
  BY SMTT(30), <1>1
<1>5. QED
  BY ZenonT(30), <1>3, <1>4 DEF r, s

(***************************************************************************)
(* pbuf_seqnum_lag counts the packets in between, across the wrap-around.  *)
(***************************************************************************)
LEMMA LagCounts ==
    ASSUME NEW m \in Nat, NEW i \in Nat, i <= m, m - i <= MaxInCore
    PROVE  Lag(Nth(m), Nth(i)) = IF Nth(i) = 0 THEN NoData ELSE m - i
<1>1. /\ SeqSpace \in Nat \ {0} /\ SeqStart \in Nat /\ MaxInCore \in Nat
      /\ NoData \in Nat
  BY SMTT(30), ConstantsAssumption
<1>2. m - i < SeqSpace /\ 2 * (m - i) < SeqSpace
  BY SMTT(30), <1>1, SeqSpaceAssumption
<1>3. /\ SeqStart + m \in Int /\ SeqStart + i \in Int
      /\ (SeqStart + m) - (SeqStart + i) = m - i
  BY SMTT(30), <1>1
<1>4. (Nth(m) - Nth(i)) % SeqSpace = m - i
  <2> DEFINE a == SeqStart + m
             b == SeqStart + i
  <2>1. a \in Int /\ b \in Int /\ 0 <= a - b /\ a - b < SeqSpace /\ a - b = m - i
    BY SMTT(30), <1>1, <1>2
  <2> HIDE DEF a, b
  <2>2. ((a % SeqSpace) - (b % SeqSpace)) % SeqSpace = a - b
    BY ZenonT(30), <1>1, <2>1, ModDiff
  <2>3. QED
    BY ZenonT(30), <2>1, <2>2 DEF Nth, a, b
<1>5. QED
  BY ZenonT(30), <1>2, <1>4 DEF Lag, Signed

(* The number of the next packet is the successor of this one. *)
LEMMA NthSucc ==
    ASSUME NEW i \in Nat
    PROVE  (Nth(i) + 1) % SeqSpace = Nth(i + 1)
<1>1. SeqSpace \in Nat \ {0} /\ SeqStart + i \in Int
      /\ (SeqStart + i) + 1 = SeqStart + (i + 1)
  BY SMTT(30), ConstantsAssumption
<1>2. QED
  BY ZenonT(30), <1>1, ModSucc DEF Nth

-----------------------------------------------------------------------------
(* The inductive invariant holds initially. *)
LEMMA SafeInit == Init => IInv
<1> SUFFICES ASSUME Init PROVE IInv
  BY ZenonT(30)
<1>1. TypeOK
  BY ZenonT(30), TypeInit
<1>2. Phases
  BY ZenonT(30) DEF Init, Phases
<1>3. Nth(0) = SeqStart
  <2>1. (SeqSpace * 0 + SeqStart) % SeqSpace = SeqStart
    BY SMTT(30), ConstantsAssumption, ModUnique
  <2>2. SeqStart + 0 = SeqSpace * 0 + SeqStart
    BY SMTT(30), ConstantsAssumption
  <2>3. QED
    BY ZenonT(30), <2>1, <2>2 DEF Nth
<1>4. ASSUME NEW q \in Queue PROVE Safe(q)
  <2>1. Len(pbuf_global[q]) = 0 /\ Len(pb_out[q]) = 0 /\ Len(pb_list) = 0
        /\ freed[q] = 0 /\ dupecheck_seqnum[q] = SeqStart
    BY ZenonT(30) DEF Init
  <2>2. Numbered(q)
    BY SMTT(30), <1>3, <2>1 DEF Numbered
  <2>3. InCore(q)
    BY SMTT(30), <2>1, ConstantsAssumption DEF InCore
  <2>4. QED
    BY SMTT(30), <2>2, <2>3 DEF Safe, Init, Scanned
<1>5. QED
  BY ZenonT(30), <1>1, <1>2, <1>4 DEF IInv

(***************************************************************************)
(* A step that leaves the queues, the positions and the collected lag      *)
(* alone keeps Safe.                                                       *)
(***************************************************************************)
LEMMA SafeFrame ==
    ASSUME NEW q \in Queue, Safe(q),
           UNCHANGED <<pbuf_global, pb_out, pb_list, dupecheck_seqnum, freed,
                       workers_running, last_seqnum>>,
           \A w \in 1..workers_running : Position(q, w)' = Position(q, w),
           dpc' = "lag" => dpc = "lag" /\ UNCHANGED <<walk, worker_lag>>
    PROVE  Safe(q)'
<1>1. Numbered(q)'
  BY ZenonT(30) DEF Safe, Numbered
<1>2. InCore(q)'
  BY ZenonT(30) DEF Safe, InCore
<1>3. ASSUME NEW w \in 1..workers_running PROVE CursorOK(q, w)'
  BY ZenonT(30) DEF Safe, CursorOK
<1>4. Scanned(q)'
  BY ZenonT(30) DEF Safe, Scanned, ScanOK
<1>5. QED
  BY ZenonT(30), <1>1, <1>2, <1>3, <1>4 DEF Safe

(* Positions do not depend on the thread's place outside of Adv(q). *)
LEMMA PositionFrame ==
    ASSUME NEW w \in Worker, UNCHANGED <<pb, prevp>>, TypeOK,
           NEW v \in {"top", "main", "dupe", "poll"},
           wpc' = [wpc EXCEPT ![w] = v],
           wpc[w] \in {"top", "main", "dupe", "poll"}
    PROVE  \A q \in Queue, x \in Worker : Position(q, x)' = Position(q, x)
BY ZenonT(30) DEF Position, Adv, TypeOK

(* Freeing more packets leaves no more of them in core. *)
LEMMA FreeingShrinks ==
    ASSUME NEW n \in Nat, NEW f \in Nat, NEW k \in Nat, NEW a \in Nat, NEW b \in Nat,
           NEW max \in Nat, k >= f, n - f + a + b <= max
    PROVE  n - k + a + b <= max
BY SMTT(30)

(* The number of running workers is a natural number. *)
LEMMA RunningIsNat ==
    ASSUME TypeOK
    PROVE  workers_running \in Nat
BY SMTT(30), ConstantsAssumption DEF TypeOK

(* The running workers are workers. *)
LEMMA RunningAreWorkers ==
    ASSUME TypeOK
    PROVE  1..workers_running \subseteq Worker
BY SMTT(30), ConstantsAssumption DEF TypeOK, Worker

-----------------------------------------------------------------------------
(* The actions that change a queue, a position or the collected lag. *)

(* dupecheck_drain: taking a worker's incoming queue. *)
LEMMA SafeDrainTake ==
    ASSUME IInv, DrainTake, NEW q \in Queue
    PROVE  Safe(q)'
<1>1. Safe(q)
  BY ZenonT(30) DEF IInv
<1>2. Numbered(q)'
  BY ZenonT(30), <1>1 DEF Safe, Numbered, DrainTake, queueVars
<1>3. InCore(q)'
  <2>1. walk \in Producer
    BY ZenonT(30) DEF IInv, TypeOK, DrainTake
  <2>2. Len(pb_list') = Len(pbuf_incoming[walk])
    BY ZenonT(30) DEF DrainTake
  <2>3. QED
    BY ZenonT(30), <1>1, <2>2 DEF Safe, InCore, DrainTake, queueVars
<1>4. ASSUME NEW w \in 1..workers_running' PROVE CursorOK(q, w)'
  BY ZenonT(30), <1>1 DEF Safe, CursorOK, Position, DrainTake, queueVars, workerVars,
              acceptVars
<1>5. Scanned(q)'
  BY ZenonT(30) DEF Scanned, DrainTake
<1>6. QED
  BY ZenonT(30), <1>2, <1>3, <1>4, <1>5 DEF Safe

(* dupecheck_drain: numbering a packet and appending it to pb_out. *)
LEMMA SafeEmit ==
    ASSUME IInv, NEW q \in Queue, NEW r \in Queue, NEW p \in Pbuf, Emit(r, p),
           pb_list # <<>>, pb_list' = Tail(pb_list), dpc = "check",
           UNCHANGED <<loopVars, queueVars, workerVars, acceptVars>>
    PROVE  Safe(q)'
<1> DEFINE n == Len(pbuf_global[q])
           m == Len(pb_out[q])
<1>1. Safe(q) /\ TypeOK
  BY ZenonT(30) DEF IInv
<1>2. /\ pb_list \in Seq(Pbuf) /\ pb_out \in [Queue -> Seq(Pbuf)]
      /\ pb_out[q] \in Seq(Pbuf) /\ pbuf_global[q] \in Seq(Pbuf)
      /\ dupecheck_seqnum \in [Queue -> Seqnum] /\ freed[q] \in Nat
  BY ZenonT(30), <1>1 DEF TypeOK
<1>n. n \in Nat /\ m \in Nat
  BY SMTT(30), <1>2
<1>f. freed[q] \in Nat /\ MaxInCore \in Nat
  BY ZenonT(30), <1>2, ConstantsAssumption
<1> HIDE DEF n, m
<1>3. Len(pb_list') = Len(pb_list) - 1 /\ Len(pb_list) \in Nat
      /\ Len(pb_list) >= 1
  BY SMTT(30), <1>2
<1>4. CASE q = r
  <2> DEFINE e == [p EXCEPT !.seqnum = (dupecheck_seqnum[q] + 1) % SeqSpace,
                            !.checked = tick]
  <2>1. pb_out'[q] = Append(pb_out[q], e)
        /\ dupecheck_seqnum'[q] = (dupecheck_seqnum[q] + 1) % SeqSpace
    BY ZenonT(30), <1>2, <1>4 DEF Emit
  <2>2. e.seqnum = (dupecheck_seqnum[q] + 1) % SeqSpace
    BY ZenonT(30) DEF Pbuf
  <2>3. (dupecheck_seqnum[q] + 1) % SeqSpace = Nth(n + (m + 1))
    <3>1. n + m \in Nat /\ (n + m) + 1 = n + (m + 1)
      BY SMTT(30), <1>n
    <3>2. dupecheck_seqnum[q] = Nth(n + m)
      BY ZenonT(30), <1>1 DEF Safe, Numbered, n, m
    <3>3. QED
      BY ZenonT(30), <3>1, <3>2, NthSucc
  <2> HIDE DEF e
  <2>4. /\ Len(pb_out'[q]) = m + 1
        /\ \A i \in 1..m : pb_out'[q][i] = pb_out[q][i]
        /\ pb_out'[q][m + 1] = e
    BY SMTT(30), <1>2, <2>1 DEF m
  <2>5. Numbered(q)'
    <3>1. \A i \in 1..(m + 1) : pb_out'[q][i].seqnum = Nth(n + i)
      <4>1. \A i \in 1..m : pb_out[q][i].seqnum = Nth(n + i)
        BY ZenonT(30), <1>1 DEF Safe, Numbered, n, m
      <4>2. pb_out'[q][m + 1].seqnum = Nth(n + (m + 1))
        BY ZenonT(30), <2>2, <2>3, <2>4
      <4>3. \A i \in 1..m : pb_out'[q][i].seqnum = Nth(n + i)
        BY ZenonT(30), <2>4, <4>1
      <4>4. \A i \in 1..(m + 1) : i \in 1..m \/ i = m + 1
        BY SMTT(30), <1>n
      <4>5. QED
        BY ZenonT(30), <4>2, <4>3, <4>4
    <3>2. QED
      BY ZenonT(30), <1>1, <2>1, <2>3, <2>4, <3>1 DEF Safe, Numbered, queueVars, n
  <2>6. InCore(q)'
    <3>1. n - freed[q] + m + Len(pb_list) <= MaxInCore
      BY ZenonT(30), <1>1 DEF Safe, InCore, n, m
    <3>2. n - freed[q] + (m + 1) + (Len(pb_list) - 1) <= MaxInCore
      BY SMTT(30), <1>n, <1>f, <1>3, <3>1
    <3>3. QED
      BY ZenonT(30), <1>1, <1>3, <2>4, <3>2 DEF Safe, InCore, queueVars, n
  <2>7. QED
    BY ZenonT(30), <1>1, <2>5, <2>6
    DEF Safe, CursorOK, Position, Scanned, loopVars, queueVars, workerVars,
        acceptVars
<1>5. CASE q # r
  <2>1. pb_out'[q] = pb_out[q] /\ dupecheck_seqnum'[q] = dupecheck_seqnum[q]
    BY ZenonT(30), <1>2, <1>5 DEF Emit
  <2>2. Numbered(q)'
    BY ZenonT(30), <1>1, <2>1 DEF Safe, Numbered, queueVars
  <2>3. InCore(q)'
    BY SMTT(30), <1>1, <1>2, <1>3, <2>1, ConstantsAssumption DEF Safe, InCore, queueVars
  <2>4. QED
    BY ZenonT(30), <1>1, <2>2, <2>3
    DEF Safe, CursorOK, Position, Scanned, loopVars, queueVars, workerVars,
        acceptVars
<1>6. QED
  BY ZenonT(30), <1>4, <1>5

(* dupecheck: one packet examined, whichever queue it goes to. *)
LEMMA SafeCheckPacket ==
    ASSUME IInv, CheckPacket, NEW q \in Queue
    PROVE  Safe(q)'
<1>1. Head(pb_list) \in Pbuf
  BY SMTT(30) DEF CheckPacket, IInv, TypeOK
<1>2. /\ dpc = "check" /\ pb_list # <<>> /\ pb_list' = Tail(pb_list)
      /\ UNCHANGED <<loopVars, queueVars, workerVars, acceptVars>>
  BY ZenonT(30) DEF CheckPacket
<1>3. "main" \in Queue /\ "dupe" \in Queue
  BY ZenonT(30) DEF Queue
<1>4. CASE CheckDupe(Head(pb_list))
  <2>1. [Head(pb_list) EXCEPT !.dup = TRUE] \in Pbuf
    BY ZenonT(30), <1>1 DEF Pbuf
  <2>2. QED
    BY ZenonT(30), <1>2, <1>3, <1>4, <2>1, SafeEmit DEF CheckDupe
<1>5. CASE CheckUnique(Head(pb_list))
  BY ZenonT(30), <1>1, <1>2, <1>3, <1>5, SafeEmit DEF CheckUnique
<1>6. CASE CheckAllocFail(Head(pb_list))
  BY ZenonT(30), <1>1, <1>2, <1>3, <1>6, SafeEmit DEF CheckAllocFail
<1>7. QED
  BY ZenonT(30), <1>4, <1>5, <1>6 DEF CheckPacket

(* The splice of pb_out into the global queues. *)
LEMMA SafeSplice ==
    ASSUME IInv, Splice, NEW q \in Queue
    PROVE  Safe(q)'
<1> DEFINE n == Len(pbuf_global[q])
           m == Len(pb_out[q])
<1>1. Safe(q) /\ TypeOK
  BY ZenonT(30) DEF IInv
<1>2. /\ pb_out[q] \in Seq(Pbuf) /\ pbuf_global[q] \in Seq(Pbuf)
      /\ freed[q] \in Nat
  BY ZenonT(30), <1>1 DEF TypeOK
<1>n. n \in Nat /\ m \in Nat
  BY SMTT(30), <1>2
<1>3. /\ pbuf_global'[q] = pbuf_global[q] \o pb_out[q]
      /\ pb_out'[q] = <<>>
      /\ UNCHANGED <<freed, pb_list, dupecheck_seqnum, workers_running,
                     last_seqnum, prevp, pb, wpc>>
  BY ZenonT(30) DEF Splice, workerVars, acceptVars
<1>4. /\ Len(pbuf_global'[q]) = n + m
      /\ \A i \in 1..n : pbuf_global'[q][i] = pbuf_global[q][i]
      /\ \A i \in 1..m : pbuf_global'[q][n + i] = pb_out[q][i]
      /\ Len(pb_out'[q]) = 0
  <2> DEFINE a == pbuf_global[q]
             b == pb_out[q]
  <2>1. a \in Seq(Pbuf) /\ b \in Seq(Pbuf)
    BY ZenonT(30), <1>2
  <2> HIDE DEF a, b
  <2>2. /\ Len(a \o b) = Len(a) + Len(b)
        /\ \A i \in 1..Len(a) : (a \o b)[i] = a[i]
        /\ \A i \in 1..Len(b) : (a \o b)[Len(a) + i] = b[i]
    BY SMTT(30), <2>1
  <2>3. QED
    BY ZenonT(30), <1>3, <2>2 DEF a, b
<1> HIDE DEF n, m
<1>5. Numbered(q)'
  <2>1. \A i \in 1..(n + m) : pbuf_global'[q][i].seqnum = Nth(i)
    <3> SUFFICES ASSUME NEW i \in 1..(n + m)
                 PROVE  pbuf_global'[q][i].seqnum = Nth(i)
      BY ZenonT(30)
    <3>1. CASE i <= n
      BY SMTT(30), <1>1, <1>n, <1>4, <3>1 DEF Safe, Numbered, n
    <3>2. CASE i > n
      <4>1. i - n \in 1..m /\ n + (i - n) = i
        BY SMTT(30), <1>n, <3>2
      <4>2. pbuf_global'[q][n + (i - n)] = pb_out[q][i - n]
        BY ZenonT(30), <1>4, <4>1
      <4>3. pb_out[q][i - n].seqnum = Nth(n + (i - n))
        BY ZenonT(30), <1>1, <4>1 DEF Safe, Numbered, n, m
      <4>4. QED
        BY ZenonT(30), <4>1, <4>2, <4>3
    <3>3. QED
      BY SMTT(30), <1>n, <3>1, <3>2
  <2>2. dupecheck_seqnum'[q] = Nth((n + m) + 0)
    <3>1. dupecheck_seqnum'[q] = Nth(n + m)
      BY ZenonT(30), <1>1, <1>3 DEF Safe, Numbered, n, m
    <3>2. n + m = (n + m) + 0
      BY SMTT(30), <1>n
    <3>3. QED
      BY ZenonT(30), <3>1, <3>2
  <2>3. QED
    BY SMTT(30), <1>4, <2>1, <2>2 DEF Numbered
<1>6. InCore(q)'
  <2>1. /\ n - freed[q] + m + Len(pb_list) <= MaxInCore
        /\ freed[q] < n \/ (n = 0 /\ freed[q] = 0)
    BY ZenonT(30), <1>1 DEF Safe, InCore, n, m
  <2> DEFINE k == Len(pb_list)
             f == freed[q]
  <2>2. k \in Nat /\ f \in Nat /\ MaxInCore \in Nat
    BY SMTT(30), <1>1, <1>2, ConstantsAssumption DEF TypeOK
  <2>b. n - f + m + k <= MaxInCore /\ (f < n \/ (n = 0 /\ f = 0))
    BY ZenonT(30), <2>1
  <2> HIDE DEF k, f
  <2>3. (n + m) - f + 0 + k <= MaxInCore
    BY SMTT(30), <1>n, <2>2, <2>b
  <2>c. f < n + m \/ (n + m = 0 /\ f = 0) \/ (n = 0 /\ f = 0)
    BY SMTT(30), <1>n, <2>2, <2>b
  <2>d. f < n + m \/ (n + m = 0 /\ f = 0)
    BY SMTT(30), <1>n, <2>2, <2>c
  <2>4. QED
    BY ZenonT(30), <1>3, <1>4, <2>3, <2>d DEF InCore, k, f
<1>7. ASSUME NEW w \in 1..workers_running' PROVE CursorOK(q, w)'
  <2>1. CursorOK(q, w) /\ w \in Worker
    BY ZenonT(30), <1>1, <1>3, <1>7, RunningAreWorkers DEF Safe
  <2>2. Position(q, w)' = Position(q, w) /\ Position(q, w) \in Nat
    BY ZenonT(30), <1>1, <1>3, <2>1 DEF Position, TypeOK
  <2>3. \/ Position(q, w) = 0 /\ freed[q] = 0
        \/ freed[q] < Position(q, w) /\ Position(q, w) <= n + m
    BY SMTT(30), <1>2, <1>n, <2>1, <2>2 DEF CursorOK, n
  <2>4. QED
    BY ZenonT(30), <1>3, <1>4, <2>1, <2>2, <2>3 DEF CursorOK
<1>8. Scanned(q)'
  <2>1. walk' = 1
    BY ZenonT(30) DEF Splice
  <2>2. QED
    BY SMTT(30), <1>1, <1>3, <2>1 DEF Scanned, TypeOK
<1>9. QED
  BY ZenonT(30), <1>5, <1>6, <1>7, <1>8 DEF Safe

(* What the invariant says of the numbers while lags are collected. *)
LEMMA LagOf ==
    ASSUME IInv, dpc = "lag", NEW q \in Queue,
           NEW i \in (freed[q] + 1)..Len(pbuf_global[q])
    PROVE  Lag(dupecheck_seqnum[q], Nth(i)) =
             IF Nth(i) = 0 THEN NoData ELSE Len(pbuf_global[q]) - i
<1> DEFINE n == Len(pbuf_global[q])
<1>1. Safe(q) /\ TypeOK
  BY ZenonT(30) DEF IInv
<1>2. pbuf_global[q] \in Seq(Pbuf) /\ pb_list \in Seq(Pbuf)
  BY ZenonT(30), <1>1 DEF TypeOK
<1>3. freed[q] \in Nat /\ n \in Nat /\ Len(pb_list) \in Nat
  BY SMTT(30), <1>1, <1>2 DEF TypeOK
<1>4. Len(pb_out[q]) = 0
  BY SMTT(30), <1>1 DEF Safe, Scanned
<1>5. n - freed[q] <= MaxInCore
  <2>1. n - freed[q] + 0 + Len(pb_list) <= MaxInCore
    BY ZenonT(30), <1>1, <1>4 DEF Safe, InCore
  <2> HIDE DEF n
  <2>2. QED
    BY SMTT(30), <1>3, <2>1, ConstantsAssumption
<1>6. dupecheck_seqnum[q] = Nth(n)
  <2>1. dupecheck_seqnum[q] = Nth(n + 0)
    BY ZenonT(30), <1>1, <1>4 DEF Safe, Numbered
  <2> HIDE DEF n
  <2>2. n + 0 = n
    BY SMTT(30), <1>3
  <2>3. QED
    BY ZenonT(30), <2>1, <2>2
<1> HIDE DEF n
<1>7. i \in Nat /\ i <= n /\ n - i <= MaxInCore
  <2>1. i \in (freed[q] + 1)..n
    BY ZenonT(30) DEF n
  <2>2. QED
    BY SMTT(30), <1>3, <1>5, <2>1, ConstantsAssumption
<1>8. Lag(Nth(n), Nth(i)) = IF Nth(i) = 0 THEN NoData ELSE n - i
  BY ZenonT(30), <1>3, <1>7, LagCounts
<1>9. QED
  BY ZenonT(30), <1>6, <1>8 DEF n

(* A position in a queue is a natural number. *)
LEMMA PositionType ==
    ASSUME TypeOK, NEW q \in Queue, NEW w \in Worker
    PROVE  Position(q, w) \in Nat
BY ZenonT(30) DEF Position, TypeOK

(* global_pbuf_purger: one worker's lag read in the scan. *)
LEMMA SafeLagScan ==
    ASSUME IInv, LagScan, NEW q \in Queue
    PROVE  Safe(q)'
<1> DEFINE c == Lag(dupecheck_seqnum[q], last_seqnum[q][walk])
           n == Len(pbuf_global[q])
<1>1. Safe(q) /\ TypeOK /\ dpc = "lag"
  BY ZenonT(30) DEF IInv, LagScan
<1>2. walk \in 1..workers_running /\ walk \in Worker /\ walk \in Int
  BY SMTT(30), <1>1, ConstantsAssumption DEF LagScan, TypeOK, Worker
<1>3. worker_lag[q] \in Int /\ c \in Int
  BY ZenonT(30), <1>1, <1>2, LagType DEF TypeOK
<1>4. worker_lag'[q] = IF c > worker_lag[q] THEN c ELSE worker_lag[q]
  BY ZenonT(30) DEF LagScan
<1> HIDE DEF c
<1>5. worker_lag'[q] \in Int /\ worker_lag'[q] >= c
      /\ worker_lag'[q] >= worker_lag[q]
  BY SMTT(30), <1>3, <1>4
<1>6. UNCHANGED <<pbuf_global, pb_out, pb_list, dupecheck_seqnum, freed,
                  workers_running, last_seqnum, wpc, pb, prevp, dpc>>
      /\ walk' = walk + 1
  BY ZenonT(30) DEF LagScan, checkVars, queueVars, workerVars, acceptVars
<1>7. freed[q] \in Nat /\ n \in Nat /\ NoData \in Nat
  <2>1. pbuf_global[q] \in Seq(Pbuf)
    BY ZenonT(30), <1>1 DEF TypeOK
  <2>2. QED
    BY SMTT(30), <1>1, <2>1, ConstantsAssumption DEF TypeOK
<1> HIDE DEF n
<1>8. \A w \in Worker : Position(q, w)' = Position(q, w)
  BY ZenonT(30), <1>6 DEF Position
<1>9. ASSUME NEW w \in 1..workers_running, w < walk
      PROVE  ScanOK(q, w)'
  <2>1. ScanOK(q, w) /\ w \in Worker
    BY ZenonT(30), <1>1, <1>9, RunningAreWorkers DEF Safe, Scanned
  <2>2. Position(q, w)' = Position(q, w) /\ Position(q, w) \in Nat
    BY ZenonT(30), <1>1, <1>8, <2>1, PositionType
  <2>3. CASE worker_lag[q] >= NoData
    BY SMTT(30), <1>3, <1>5, <1>7, <2>3 DEF ScanOK
  <2>4. CASE \E p \in (freed[q] + 1)..Position(q, w) :
               Nth(p) # 0 /\ worker_lag[q] >= n - p
    <3>1. PICK p \in (freed[q] + 1)..Position(q, w) :
                 Nth(p) # 0 /\ worker_lag[q] >= n - p
      BY ZenonT(30), <2>4
    <3>2. p \in Int /\ worker_lag'[q] >= n - p
      BY SMTT(30), <1>3, <1>5, <1>7, <2>2, <3>1
    <3>3. QED
      BY ZenonT(30), <1>6, <2>2, <3>1, <3>2 DEF ScanOK, n
  <2>5. QED
    BY ZenonT(30), <2>1, <2>3, <2>4 DEF ScanOK, n
<1>v. PICK v \in 1..workers_running : v = walk
  BY ZenonT(30), <1>2
<1>10. ScanOK(q, v)'
  <2>1. CursorOK(q, v)
    BY ZenonT(30), <1>1 DEF Safe
  <2>2. Position(q, v)' = Position(q, v) /\ Position(q, v) \in Nat
    BY ZenonT(30), <1>1, <1>8, PositionType, RunningAreWorkers
  <2>3. CASE last_seqnum[q][v] = 0
    <3>1. c = NoData
      BY ZenonT(30), <1>v, <2>3 DEF c, Lag
    <3>2. QED
      BY ZenonT(30), <1>5, <3>1 DEF ScanOK
  <2>4. CASE last_seqnum[q][v] # 0
    <3> DEFINE p == Position(q, v)
    <3>1. p >= 1 /\ last_seqnum[q][v] = Nth(p) /\ Nth(p) # 0
      BY ZenonT(30), <2>1, <2>4 DEF CursorOK
    <3>2. p \in (freed[q] + 1)..n
      BY SMTT(30), <1>7, <2>1, <2>2, <3>1 DEF CursorOK, n
    <3>3. c = n - p
      BY ZenonT(30), <1>1, <1>v, <3>1, <3>2, LagOf DEF c, n
    <3>4. p \in (freed[q] + 1)..p /\ worker_lag'[q] >= n - p
      BY SMTT(30), <1>5, <1>7, <2>2, <3>2, <3>3
    <3> HIDE DEF p
    <3>5. QED
      BY ZenonT(30), <1>6, <2>2, <3>1, <3>4 DEF ScanOK, n, p
  <2>5. QED
    BY ZenonT(30), <2>3, <2>4
<1>11. Scanned(q)'
  <2>1. ASSUME NEW w \in 1..workers_running', w < walk'
        PROVE  ScanOK(q, w)'
    <3>1. w \in 1..workers_running /\ (w < walk \/ w = walk)
      BY SMTT(30), <1>1, <1>2, <1>6, <2>1 DEF TypeOK
    <3>2. QED
      BY ZenonT(30), <1>v, <1>9, <1>10, <3>1
  <2>2. pb_out'[q] = <<>>
    BY ZenonT(30), <1>1, <1>6 DEF Safe, Scanned
  <2>3. QED
    BY ZenonT(30), <2>1, <2>2 DEF Scanned
<1>12. ASSUME NEW w \in 1..workers_running' PROVE CursorOK(q, w)'
  <2>1. CursorOK(q, w) /\ w \in Worker
    BY ZenonT(30), <1>1, <1>6, <1>12, RunningAreWorkers DEF Safe
  <2>2. QED
    BY ZenonT(30), <1>6, <1>8, <2>1 DEF CursorOK
<1>13. Numbered(q)' /\ InCore(q)'
  BY ZenonT(30), <1>1, <1>6 DEF Safe, Numbered, InCore
<1>14. QED
  BY ZenonT(30), <1>11, <1>12, <1>13 DEF Safe

(***************************************************************************)
(* The purger stops behind every worker.                                   *)
(***************************************************************************)
LEMMA PurgeStopsBehind ==
    ASSUME IInv, dpc = "lag", walk > workers_running, NEW q \in Queue,
           NEW k \in freed[q]..Len(pbuf_global[q]), PurgesTo(q, k),
           NEW w \in 1..workers_running
    PROVE  \/ Position(q, w) = 0 /\ k = 0
           \/ k < Position(q, w)
<1> DEFINE n == Len(pbuf_global[q])
           pos == Position(q, w)
<1>1. Safe(q) /\ TypeOK /\ w \in Worker
  BY ZenonT(30), RunningAreWorkers DEF IInv
<1>2. freed[q] \in Nat /\ n \in Nat /\ NoData \in Nat /\ MaxInCore \in Nat
      /\ MaxInCore < NoData /\ pos \in Nat /\ worker_lag[q] \in Int
  <2>1. /\ pbuf_global[q] \in Seq(Pbuf) /\ freed[q] \in Nat
        /\ worker_lag[q] \in Int
    BY ZenonT(30), <1>1 DEF TypeOK
  <2>2. n \in Nat
    BY SMTT(30), <2>1
  <2>3. pos \in Nat
    BY ZenonT(30), <1>1, PositionType
  <2>4. QED
    BY ZenonT(30), <2>1, <2>2, <2>3, ConstantsAssumption, SeqSpaceAssumption
<1>3. CursorOK(q, w)
  BY ZenonT(30), <1>1 DEF Safe
<1>4. ScanOK(q, w)
  <2>1. w < walk
    BY SMTT(30), <1>1 DEF TypeOK
  <2>2. QED
    BY ZenonT(30), <1>1, <2>1 DEF Safe, Scanned
<1>5. n - freed[q] <= MaxInCore
  <2>1. pb_list \in Seq(Pbuf) /\ pb_out[q] = <<>>
    BY ZenonT(30), <1>1 DEF TypeOK, Safe, Scanned
  <2>2. Len(pb_list) \in Nat /\ Len(pb_out[q]) = 0
    BY SMTT(30), <2>1
  <2>3. n - freed[q] + 0 + Len(pb_list) <= MaxInCore
    BY ZenonT(30), <1>1, <2>2 DEF Safe, InCore
  <2> HIDE DEF n
  <2>4. QED
    BY SMTT(30), <1>2, <2>2, <2>3
<1>6. ASSUME NEW i \in (freed[q] + 1)..k
      PROVE  worker_lag[q] < (IF Nth(i) = 0 THEN NoData ELSE n - i)
  <2>1. i \in (freed[q] + 1)..n /\ i \in 1..n
    BY SMTT(30), <1>2
  <2>2. worker_lag[q] < Lag(dupecheck_seqnum[q], pbuf_global[q][i].seqnum)
    BY ZenonT(30), <1>6 DEF PurgesTo, Purgeable
  <2>3. pbuf_global[q][i].seqnum = Nth(i)
    BY ZenonT(30), <1>1, <2>1 DEF Safe, Numbered
  <2>4. QED
    BY ZenonT(30), <2>1, <2>2, <2>3, LagOf
<1>7. k \in freed[q]..n
  BY ZenonT(30)
<1> HIDE DEF n, pos
<1>8. CASE worker_lag[q] >= NoData
  <2>1. k = freed[q]
    <3>1. SUFFICES ASSUME freed[q] + 1 <= k PROVE FALSE
      BY SMTT(30), <1>2, <1>7
    <3>2. k \in (freed[q] + 1)..k
      BY SMTT(30), <1>2, <1>7, <3>1
    <3>3. worker_lag[q] < (IF Nth(k) = 0 THEN NoData ELSE n - k)
      BY ZenonT(30), <1>6, <3>2
    <3>4. n - k < NoData
      BY SMTT(30), <1>2, <1>5, <1>7
    <3>5. QED
      BY SMTT(30), <1>2, <1>7, <1>8, <3>3, <3>4
  <2>2. QED
    BY ZenonT(30), <1>3, <2>1 DEF CursorOK, n
<1>9. CASE \E p \in (freed[q] + 1)..pos : Nth(p) # 0 /\ worker_lag[q] >= n - p
  <2>1. PICK p \in (freed[q] + 1)..pos : Nth(p) # 0 /\ worker_lag[q] >= n - p
    BY ZenonT(30), <1>9
  <2>2. SUFFICES ASSUME k >= pos PROVE FALSE
    BY SMTT(30), <1>2, <1>7 DEF pos
  <2>3. p \in (freed[q] + 1)..k
    BY SMTT(30), <1>2, <1>7, <2>1, <2>2
  <2>4. worker_lag[q] < n - p
    BY ZenonT(30), <1>6, <2>1, <2>3
  <2>5. QED
    BY SMTT(30), <1>2, <2>1, <2>4
<1>10. QED
  BY ZenonT(30), <1>4, <1>8, <1>9 DEF ScanOK, n, pos

(* global_pbuf_purger: the packets freed after the scan. *)
LEMMA SafePurge ==
    ASSUME IInv, Purge, NEW q \in Queue
    PROVE  Safe(q)'
<1> DEFINE n == Len(pbuf_global[q])
<1>1. Safe(q) /\ TypeOK /\ dpc = "lag" /\ walk > workers_running
  BY ZenonT(30) DEF IInv, Purge
<1>2. PICK k \in freed[q]..n : PurgesTo(q, k) /\ freed'[q] = k
  BY ZenonT(30) DEF Purge, Queue
<1>3. UNCHANGED <<pbuf_global, pb_out, pb_list, dupecheck_seqnum,
                  workers_running, last_seqnum, wpc, pb, prevp>>
      /\ dpc' = "top"
  BY ZenonT(30) DEF Purge, workerVars, acceptVars
<1>4. freed[q] \in Nat /\ n \in Nat /\ k \in Nat
  <2>1. pbuf_global[q] \in Seq(Pbuf) /\ freed[q] \in Nat
    BY ZenonT(30), <1>1 DEF TypeOK
  <2>2. QED
    BY SMTT(30), <2>1
<1>5. \A w \in 1..workers_running :
        \/ Position(q, w) = 0 /\ k = 0
        \/ k < Position(q, w)
  BY ZenonT(30), <1>1, <1>2, PurgeStopsBehind
<1>6. \A w \in 1..workers_running :
        /\ CursorOK(q, w) /\ Position(q, w) \in Nat
        /\ Position(q, w)' = Position(q, w)
  <2>1. \A w \in 1..workers_running : w \in Worker
    BY ZenonT(30), <1>1, RunningAreWorkers
  <2>2. QED
    BY ZenonT(30), <1>1, <1>3, <2>1, PositionType DEF Safe, Position
<1>7. ASSUME NEW w \in 1..workers_running' PROVE CursorOK(q, w)'
  <2>1. w \in 1..workers_running
    BY ZenonT(30), <1>3
  <2>2. Position(q, w) <= n \/ (Position(q, w) = 0 /\ freed[q] = 0)
    BY ZenonT(30), <1>6, <2>1 DEF CursorOK
  <2>3. \/ Position(q, w) = 0 /\ k = 0
        \/ k < Position(q, w) /\ Position(q, w) <= n
    BY SMTT(30), <1>4, <1>5, <1>6, <2>1, <2>2
  <2>4. QED
    BY ZenonT(30), <1>2, <1>3, <1>6, <2>1, <2>3 DEF CursorOK
<1>8. k < n \/ (n = 0 /\ k = 0)
  <2>1. 1 \in 1..workers_running
    BY SMTT(30), <1>1, ConstantsAssumption DEF IInv, Phases, TypeOK
  <2>2. Position(q, 1) <= n \/ (Position(q, 1) = 0 /\ freed[q] = 0)
    BY ZenonT(30), <1>6, <2>1 DEF CursorOK
  <2>3. Position(q, 1) \in Nat /\ (k < Position(q, 1) \/ (Position(q, 1) = 0 /\ k = 0))
    BY ZenonT(30), <1>5, <1>6, <2>1
  <2>4. QED
    BY SMTT(30), <1>4, <2>2, <2>3
<1>9. InCore(q)'
  <2>1. pb_list \in Seq(Pbuf) /\ pb_out[q] \in Seq(Pbuf)
    BY ZenonT(30), <1>1 DEF TypeOK
  <2>2. Len(pb_list) \in Nat /\ Len(pb_out[q]) \in Nat
    BY SMTT(30), <2>1
  <2>3. n - freed[q] + Len(pb_out[q]) + Len(pb_list) <= MaxInCore
    BY ZenonT(30), <1>1 DEF Safe, InCore
  <2>4. k >= freed[q]
    BY SMTT(30), <1>2, <1>4
  <2> HIDE DEF n
  <2>5. n - k + Len(pb_out[q]) + Len(pb_list) <= MaxInCore
    BY ZenonT(30), <1>4, <2>2, <2>3, <2>4, FreeingShrinks, ConstantsAssumption
  <2>6. QED
    BY ZenonT(30), <1>2, <1>3, <1>8, <2>5 DEF InCore, n
<1>10. Numbered(q)' /\ Scanned(q)'
  BY ZenonT(30), <1>1, <1>3 DEF Safe, Numbered, Scanned
<1>11. QED
  BY ZenonT(30), <1>7, <1>9, <1>10 DEF Safe

(* process_outgoing: a worker handles one packet of a queue. *)
LEMMA SafeProcess ==
    ASSUME IInv, NEW w \in Worker, NEW r \in Queue, Process(r, w),
           NEW q \in Queue
    PROVE  Safe(q)'
<1> DEFINE i == NextPb(r, w)
<1>1. Safe(q) /\ Safe(r) /\ TypeOK
  BY ZenonT(30) DEF IInv
<1>2. /\ wpc[w] = r /\ i # 0
      /\ pb' = [pb EXCEPT ![w] = i]
      /\ last_seqnum' = [last_seqnum EXCEPT ![r][w] = pbuf_global[r][i].seqnum]
      /\ wpc' = [wpc EXCEPT ![w] = Adv(r)]
      /\ UNCHANGED <<pbuf_global, pb_out, pb_list, dupecheck_seqnum, freed,
                     workers_running, prevp, dpc, walk, worker_lag>>
  BY ZenonT(30) DEF Process, checkVars, loopVars, queueVars, acceptVars
<1>3. i \in 1..Len(pbuf_global[r])
  BY ZenonT(30), <1>1, <1>2, NextPbType
<1>4. pbuf_global[r][i].seqnum = Nth(i)
  BY ZenonT(30), <1>1, <1>3 DEF Safe, Numbered
<1>5. /\ Position(r, w) = prevp[r][w] /\ Position(r, w)' = i
      /\ last_seqnum'[r][w] = Nth(i)
      /\ freed[r] < i /\ Position(r, w) < i
  <2>1. Position(r, w) = prevp[r][w] /\ Position(r, w)' = i
    BY ZenonT(30), <1>1, <1>2 DEF Position, Adv, TypeOK, Queue
  <2>2. last_seqnum'[r][w] = Nth(i)
    BY ZenonT(30), <1>1, <1>2, <1>4 DEF TypeOK
  <2>3. prevp[r][w] \in Nat /\ freed[r] \in Nat
    BY ZenonT(30), <1>1 DEF TypeOK
  <2>4. \/ prevp[r][w] = 0 /\ i = freed[r] + 1
        \/ prevp[r][w] > freed[r] /\ i = prevp[r][w] + 1
    BY ZenonT(30), <1>2 DEF NextPb
  <2>5. CASE prevp[r][w] = 0
    <3>1. i = freed[r] + 1
      BY SMTT(30), <2>4, <2>5, <2>3
    <3>2. freed[r] < i /\ prevp[r][w] < i
      BY SMTT(30), <2>3, <2>5, <3>1
    <3>3. QED
      BY ZenonT(30), <2>1, <2>2, <3>2
  <2>6. CASE prevp[r][w] # 0
    <3>1. prevp[r][w] > freed[r] /\ i = prevp[r][w] + 1
      BY ZenonT(30), <2>4, <2>6
    <3>2. freed[r] < i /\ prevp[r][w] < i
      BY SMTT(30), <2>3, <3>1
    <3>3. QED
      BY ZenonT(30), <2>1, <2>2, <3>2
  <2>7. QED
    BY ZenonT(30), <2>5, <2>6
<1> HIDE DEF i
<1>6. \A x \in Worker : x # w \/ q # r =>
         Position(q, x)' = Position(q, x)
         /\ last_seqnum'[q][x] = last_seqnum[q][x]
  BY ZenonT(30), <1>1, <1>2 DEF Position, Adv, TypeOK, Queue
<1>7. Numbered(q)' /\ InCore(q)'
  BY ZenonT(30), <1>1, <1>2 DEF Safe, Numbered, InCore
<1>8. ASSUME NEW x \in 1..workers_running' PROVE CursorOK(q, x)'
  <2>1. x \in 1..workers_running /\ x \in Worker /\ CursorOK(q, x)
    BY ZenonT(30), <1>1, <1>2, <1>8, RunningAreWorkers DEF Safe
  <2>2. CASE x = w /\ q = r
    <3>1. /\ Position(q, x)' = i /\ last_seqnum'[q][x] = Nth(i)
          /\ freed'[q] < i /\ i <= Len(pbuf_global'[q]) /\ i >= 1
      BY SMTT(30), <1>2, <1>3, <1>5, <2>2
    <3>2. QED
      BY ZenonT(30), <3>1 DEF CursorOK
  <2>3. CASE x # w \/ q # r
    BY ZenonT(30), <1>2, <1>6, <2>1, <2>3 DEF CursorOK
  <2>4. QED
    BY ZenonT(30), <2>2, <2>3
<1>9. Scanned(q)'
  <2> SUFFICES ASSUME dpc = "lag", NEW x \in 1..workers_running, x < walk
               PROVE  ScanOK(q, x)'
    BY ZenonT(30), <1>1, <1>2 DEF Safe, Scanned
  <2>1. ScanOK(q, x) /\ x \in Worker
    BY ZenonT(30), <1>1, RunningAreWorkers DEF Safe, Scanned
  <2>2. CASE x = w /\ q = r
    <3>1. Position(q, x) \in Nat /\ i \in Nat /\ freed[q] \in Nat
      <4>1. Position(q, x) \in Nat
        BY ZenonT(30), <1>1, <2>1, PositionType
      <4>2. freed[q] \in Nat
        BY ZenonT(30), <1>1 DEF TypeOK
      <4>3. QED
        BY SMTT(30), <1>3, <4>1, <4>2
    <3>2. \A p \in (freed[q] + 1)..Position(q, x) : p \in (freed[q] + 1)..i
      BY SMTT(30), <1>5, <2>2, <3>1
    <3>3. Position(q, x)' = i
      BY ZenonT(30), <1>5, <2>2
    <3>4. QED
      BY ZenonT(30), <1>2, <2>1, <3>2, <3>3 DEF ScanOK
  <2>3. CASE x # w \/ q # r
    BY ZenonT(30), <1>2, <1>6, <2>1, <2>3 DEF ScanOK
  <2>4. QED
    BY ZenonT(30), <2>2, <2>3
<1>10. QED
  BY ZenonT(30), <1>7, <1>8, <1>9 DEF Safe

(* Moving the cursor past the processed packet does not move the position. *)
LEMMA AdvancePosition ==
    ASSUME TypeOK, NEW w \in Worker, NEW r \in Queue, Advance(r, w)
    PROVE  \A q \in Queue, x \in Worker : Position(q, x)' = Position(q, x)
BY ZenonT(30) DEF Advance, Position, Adv, TypeOK, Queue

(* workers_stop: a worker joined and gone. *)
LEMMA SafeWorkerJoined ==
    ASSUME IInv, WorkerJoined, NEW q \in Queue
    PROVE  Safe(q)'
<1>1. Safe(q) /\ TypeOK /\ dpc = "stopped"
  BY ZenonT(30) DEF IInv, Phases, WorkerJoined
<1>2. /\ workers_running' = workers_running - 1
      /\ UNCHANGED <<pbuf_global, pb_out, pb_list, dupecheck_seqnum, freed, pb,
                     dpc>>
  BY ZenonT(30) DEF WorkerJoined, checkVars, loopVars, queueVars
<1>3. workers_running \in Worker
  BY SMTT(30), <1>1, ConstantsAssumption DEF WorkerJoined, TypeOK, Worker
<1>4. ASSUME NEW x \in 1..workers_running' PROVE CursorOK(q, x)'
  <2>1. x \in 1..workers_running /\ x # workers_running /\ x \in Worker
    BY SMTT(30), <1>2, <1>3, <1>4, ConstantsAssumption DEF Worker
  <2>2. /\ wpc'[x] = wpc[x] /\ prevp'[q][x] = prevp[q][x]
        /\ last_seqnum'[q][x] = last_seqnum[q][x]
    BY ZenonT(30), <1>1, <2>1 DEF WorkerJoined, TypeOK
  <2>3. CursorOK(q, x)
    BY ZenonT(30), <1>1, <2>1 DEF Safe
  <2>4. Position(q, x)' = Position(q, x)
    BY ZenonT(30), <1>2, <2>2 DEF Position
  <2>5. QED
    BY ZenonT(30), <1>2, <2>2, <2>3, <2>4 DEF CursorOK
<1>5. Numbered(q)' /\ InCore(q)' /\ Scanned(q)'
  BY ZenonT(30), <1>1, <1>2 DEF Safe, Numbered, InCore, Scanned
<1>6. QED
  BY ZenonT(30), <1>4, <1>5 DEF Safe

(* workers_start: a worker created at the end of the queues. *)
LEMMA SafeWorkerStart ==
    ASSUME IInv, WorkerStart, NEW q \in Queue
    PROVE  Safe(q)'
<1>1. Safe(q) /\ TypeOK /\ dpc = "stopped"
  BY ZenonT(30) DEF IInv, Phases, WorkerStart
<1>2. /\ workers_running' = workers_running + 1
      /\ UNCHANGED <<pbuf_global, pb_out, pb_list, dupecheck_seqnum, freed, pb,
                     dpc>>
  BY ZenonT(30) DEF WorkerStart, checkVars, loopVars, queueVars
<1>3. workers_running + 1 \in Worker
  BY SMTT(30), <1>1, ConstantsAssumption DEF WorkerStart, TypeOK, Worker
<1>4. ASSUME NEW x \in 1..workers_running' PROVE CursorOK(q, x)'
  <2>1. x \in 1..workers_running \/ x = workers_running + 1
    <3>1. workers_running \in Nat
      BY ZenonT(30), <1>1, RunningIsNat
    <3>2. x \in 1..(workers_running + 1)
      BY ZenonT(30), <1>2, <1>4
    <3>3. QED
      BY SMTT(30), <3>1, <3>2
  <2>2. CASE x \in 1..workers_running
    <3>1. x # workers_running + 1 /\ x \in Worker
      <4>1. workers_running \in Nat
        BY ZenonT(30), <1>1, RunningIsNat
      <4>2. QED
        BY SMTT(30), <1>1, <2>2, <4>1, RunningAreWorkers
    <3>2. /\ wpc'[x] = wpc[x] /\ prevp'[q][x] = prevp[q][x]
          /\ last_seqnum'[q][x] = last_seqnum[q][x]
      BY ZenonT(30), <1>1, <3>1 DEF WorkerStart, TypeOK
    <3>3. CursorOK(q, x)
      BY ZenonT(30), <1>1, <2>2 DEF Safe
    <3>4. QED
      BY ZenonT(30), <1>2, <3>2, <3>3 DEF CursorOK, Position
  <2>3. CASE x = workers_running + 1
    <3>1. /\ wpc'[x] = "top" /\ prevp'[q][x] = Len(pbuf_global[q])
          /\ last_seqnum'[q][x] = 0
      BY ZenonT(30), <1>1, <1>3, <2>3 DEF WorkerStart, TypeOK
    <3>2. Position(q, x)' = Len(pbuf_global[q])
      BY ZenonT(30), <3>1 DEF Position, Adv
    <3>3. /\ freed[q] < Len(pbuf_global[q])
             \/ (Len(pbuf_global[q]) = 0 /\ freed[q] = 0)
          /\ Len(pbuf_global[q]) <= Len(pbuf_global[q])
      <4>1. pbuf_global[q] \in Seq(Pbuf)
        BY ZenonT(30), <1>1 DEF TypeOK
      <4>2. QED
        BY SMTT(30), <1>1, <4>1 DEF Safe, InCore
    <3>4. QED
      BY SMTT(30), <1>2, <3>1, <3>2, <3>3 DEF CursorOK
  <2>4. QED
    BY ZenonT(30), <2>1, <2>2, <2>3
<1>5. Numbered(q)' /\ InCore(q)' /\ Scanned(q)'
  BY ZenonT(30), <1>1, <1>2 DEF Safe, Numbered, InCore, Scanned
<1>6. QED
  BY ZenonT(30), <1>4, <1>5 DEF Safe

-----------------------------------------------------------------------------
(* The steps that move no worker and leave the queues alone. *)
LEMMA SafeQuiet ==
    ASSUME IInv, NEW q \in Queue,
           UNCHANGED <<pbuf_global, pb_out, pb_list, dupecheck_seqnum, freed,
                       workers_running, workerVars>>,
           dpc' = "lag" => dpc = "lag" /\ UNCHANGED <<walk, worker_lag>>
    PROVE  Safe(q)'
<1>1. \A w \in 1..workers_running : Position(q, w)' = Position(q, w)
  BY ZenonT(30) DEF Position, workerVars
<1>2. Safe(q) /\ UNCHANGED last_seqnum
  BY ZenonT(30) DEF IInv, workerVars
<1>3. QED
  BY ZenonT(30), <1>1, <1>2, SafeFrame

(* The steps of a worker that move no position and no sequence number. *)
LEMMA SafeStay ==
    ASSUME IInv, NEW q \in Queue,
           UNCHANGED <<pbuf_global, pb_out, pb_list, dupecheck_seqnum, freed,
                       workers_running, last_seqnum, dpc, walk, worker_lag>>,
           \A x \in Worker : Position(q, x)' = Position(q, x)
    PROVE  Safe(q)'
<1>1. Safe(q) /\ \A w \in 1..workers_running : w \in Worker
  BY ZenonT(30), RunningAreWorkers DEF IInv
<1>2. \A w \in 1..workers_running : Position(q, w)' = Position(q, w)
  BY ZenonT(30), <1>1
<1>3. QED
  BY ZenonT(30), <1>1, <1>2, SafeFrame

(* Any step of a running worker. *)
LEMMA SafeWorkerStep ==
    ASSUME IInv, NEW w \in Worker, WorkerStep(w), NEW q \in Queue
    PROVE  Safe(q)'
<1> USE DEF checkVars, loopVars, queueVars, acceptVars
<1>1. TypeOK
  BY ZenonT(30) DEF IInv
<1>2. CASE OutgoingStart(w) \/ OutgoingSkip(w) \/ PollDone(w)
  <2>1. PICK v \in {"top", "main", "dupe", "poll"} : wpc' = [wpc EXCEPT ![w] = v]
    BY <1>2 DEF OutgoingStart, OutgoingSkip, PollDone
  <2>2. wpc[w] \in {"top", "main", "dupe", "poll"} /\ UNCHANGED <<pb, prevp>>
    BY ZenonT(30), <1>2 DEF OutgoingStart, OutgoingSkip, PollDone
  <2>3. \A x \in Worker : Position(q, x)' = Position(q, x)
    BY ZenonT(30), <1>1, <2>1, <2>2, PositionFrame
  <2>4. UNCHANGED <<pbuf_global, pb_out, pb_list, dupecheck_seqnum, freed,
                    workers_running, last_seqnum, dpc, walk, worker_lag>>
    BY ZenonT(30), <1>2 DEF OutgoingStart, OutgoingSkip, PollDone
  <2>5. QED
    BY ZenonT(30), <2>3, <2>4, SafeStay
<1>3. ASSUME NEW r \in Queue, Process(r, w) PROVE Safe(q)'
  BY ZenonT(30), <1>3, SafeProcess
<1>4. ASSUME NEW r \in Queue, Advance(r, w) PROVE Safe(q)'
  <2>1. \A x \in Worker : Position(q, x)' = Position(q, x)
    BY ZenonT(30), <1>1, <1>4, AdvancePosition
  <2>2. UNCHANGED <<pbuf_global, pb_out, pb_list, dupecheck_seqnum, freed,
                    workers_running, last_seqnum, dpc, walk, worker_lag>>
    BY ZenonT(30), <1>4 DEF Advance
  <2>3. QED
    BY ZenonT(30), <2>1, <2>2, SafeStay
<1>5. ASSUME NEW r \in Queue, QueueEnd(r, w) PROVE Safe(q)'
  <2>1. PICK v \in {"top", "main", "dupe", "poll"} : wpc' = [wpc EXCEPT ![w] = v]
    BY ZenonT(30), <1>5 DEF QueueEnd
  <2>2. wpc[w] \in {"top", "main", "dupe", "poll"} /\ UNCHANGED <<pb, prevp>>
    BY ZenonT(30), <1>5 DEF QueueEnd, Queue
  <2>3. \A x \in Worker : Position(q, x)' = Position(q, x)
    BY ZenonT(30), <1>1, <2>1, <2>2, PositionFrame
  <2>4. UNCHANGED <<pbuf_global, pb_out, pb_list, dupecheck_seqnum, freed,
                    workers_running, last_seqnum, dpc, walk, worker_lag>>
    BY ZenonT(30), <1>5 DEF QueueEnd
  <2>5. QED
    BY ZenonT(30), <2>3, <2>4, SafeStay
<1>6. QED
  BY ZenonT(30), <1>2, <1>3, <1>4, <1>5 DEF WorkerStep

(* Any step of the dupecheck thread. *)
LEMMA SafeDupecheckStep ==
    ASSUME IInv, DupecheckStep, NEW q \in Queue
    PROVE  Safe(q)'
<1> USE DEF checkVars, loopVars, queueVars, acceptVars
<1>1. CASE LoopTop \/ WalkSkip \/ DrainLock \/ DrainDone
  <2>1. /\ UNCHANGED <<pbuf_global, pb_out, pb_list, dupecheck_seqnum, freed,
                       workers_running, workerVars>>
        /\ dpc' # "lag"
    BY ZenonT(30), <1>1 DEF LoopTop, WalkSkip, DrainLock, DrainDone
  <2>2. QED
    BY ZenonT(30), <2>1, SafeQuiet
<1>2. CASE DrainTake
  BY ZenonT(30), <1>2, SafeDrainTake
<1>3. CASE CheckPacket
  BY ZenonT(30), <1>3, SafeCheckPacket
<1>4. CASE Splice
  BY ZenonT(30), <1>4, SafeSplice
<1>5. CASE LagScan
  BY ZenonT(30), <1>5, SafeLagScan
<1>6. CASE Purge
  BY ZenonT(30), <1>6, SafePurge
<1>7. QED
  BY ZenonT(30), <1>1, <1>2, <1>3, <1>4, <1>5, <1>6 DEF DupecheckStep

(* Every step keeps the relation between the threads' phases. *)
LEMMA PhasesNext ==
    ASSUME IInv, [Next]_vars
    PROVE  Phases'
<1> USE DEF acceptVars, loopVars
<1>1. Phases /\ workers_running \in 0..MaxWorkers /\ workers_configured \in 1..MaxWorkers
      /\ MaxWorkers \in Nat
      /\ (apc = "joinWorker" => workers_running > workers_configured)
  BY ZenonT(30), ConstantsAssumption DEF IInv, TypeOK, Worker
<1>2. CASE AcceptStep
  <2>1. CASE DupecheckJoined
    BY ZenonT(30), <1>1, <2>1 DEF DupecheckJoined, Phases
  <2>2. CASE WorkerStop
    BY ZenonT(30), <1>1, <2>2 DEF WorkerStop, Phases
  <2>3. CASE WorkerJoined
    BY ZenonT(30), <1>1, <2>3 DEF WorkerJoined, Phases
  <2>4. CASE WorkerStart
    BY ZenonT(30), <1>1, <2>4 DEF WorkerStart, Phases
  <2>5. CASE DupecheckStart
    BY SMTT(30), <1>1, <2>5 DEF DupecheckStart, Phases
  <2>6. QED
    BY ZenonT(30), <1>2, <2>1, <2>2, <2>3, <2>4, <2>5 DEF AcceptStep
<1>3. ASSUME NEW n \in Worker, DupecheckStop(n) PROVE Phases'
  BY ZenonT(30), <1>1, <1>3 DEF DupecheckStop, Phases
<1>4. CASE DupecheckStep
  <2>1. dpc # "stopped" /\ UNCHANGED <<apc, workers_running>>
    BY ZenonT(30), <1>4 DEF DupecheckStep, LoopTop, WalkSkip, DrainLock, DrainTake,
       CheckPacket, DrainDone, Splice, LagScan, Purge
  <2>2. QED
    BY ZenonT(30), <1>1, <2>1 DEF Phases
<1>5. ASSUME NEW w \in Worker, WorkerStep(w) PROVE Phases'
  BY ZenonT(30), <1>1, <1>5 DEF WorkerStep, OutgoingStart, OutgoingSkip, PollDone,
     Process, Advance, QueueEnd, Phases
<1>6. CASE Tick
  BY ZenonT(30), <1>1, <1>6 DEF Tick, Phases
<1>7. ASSUME NEW w, NEW k, NEW l, Receive(w, k, l) \/ PseudoPush(w, k, l)
      PROVE  Phases'
  BY ZenonT(30), <1>1, <1>7 DEF Receive, PseudoPush, Phases
<1>8. CASE UNCHANGED vars
  BY ZenonT(30), <1>1, <1>8 DEF vars, Phases
<1>9. QED
  BY ZenonT(30), <1>2, <1>3, <1>4, <1>5, <1>6, <1>7, <1>8 DEF Next

(* Every step keeps the inductive invariant. *)
LEMMA SafeNext == IInv /\ [Next]_vars => IInv'
<1> SUFFICES ASSUME IInv, [Next]_vars PROVE IInv'
  BY ZenonT(30)
<1>1. TypeOK'
  BY ZenonT(30), TypeNext DEF IInv
<1>2. Phases'
  BY ZenonT(30), PhasesNext
<1>3. ASSUME NEW q \in Queue PROVE Safe(q)'
  <2> USE DEF checkVars, loopVars, queueVars, acceptVars
  <2>1. ASSUME /\ UNCHANGED <<pbuf_global, pb_out, pb_list, dupecheck_seqnum,
                              freed, workers_running, workerVars>>
               /\ dpc' = "lag" => dpc = "lag" /\ UNCHANGED <<walk, worker_lag>>
        PROVE  Safe(q)'
    BY ZenonT(30), <2>1, SafeQuiet
  <2>2. CASE Tick \/ UNCHANGED vars
    BY ZenonT(30), <2>1, <2>2 DEF Tick, vars
  <2>3. ASSUME NEW w, NEW k, NEW l, Receive(w, k, l) \/ PseudoPush(w, k, l)
        PROVE  Safe(q)'
    BY ZenonT(30), <2>1, <2>3 DEF Receive, PseudoPush
  <2>4. CASE DupecheckStep
    BY ZenonT(30), <2>4, SafeDupecheckStep
  <2>5. ASSUME NEW w \in Worker, WorkerStep(w) PROVE Safe(q)'
    BY ZenonT(30), <2>5, SafeWorkerStep
  <2>6. ASSUME NEW n \in Worker, DupecheckStop(n) PROVE Safe(q)'
    BY ZenonT(30), <2>1, <2>6 DEF DupecheckStop
  <2>7. CASE DupecheckJoined \/ WorkerStop \/ DupecheckStart
    BY ZenonT(30), <2>1, <2>7 DEF DupecheckJoined, WorkerStop, DupecheckStart
  <2>8. CASE WorkerJoined
    BY ZenonT(30), <2>8, SafeWorkerJoined
  <2>9. CASE WorkerStart
    BY ZenonT(30), <2>9, SafeWorkerStart
  <2>10. QED
    BY ZenonT(30), <2>2, <2>3, <2>4, <2>5, <2>6, <2>7, <2>8, <2>9 DEF Next, AcceptStep
<1>4. QED
  BY ZenonT(30), <1>1, <1>2, <1>3 DEF IInv

(* The numbering, the cursors and the collected lag fit together always. *)
THEOREM Inductive == Spec => []IInv
BY SafeInit, SafeNext, PTL DEF Spec

(***************************************************************************)
(* global_pbuf_purger, which takes no lock, never frees the packet in      *)
(* whose `next' field a worker's cursor is, nor moves the head under a     *)
(* worker that has read nothing, whatever the workers and the accept       *)
(* thread do meanwhile and wherever the sequence numbers wrap.             *)
(***************************************************************************)
THEOREM PurgeIsSafe == Spec => []NoFreedPbufRead
<1>1. IInv => NoFreedPbufRead
  BY ZenonT(30) DEF IInv, Safe, CursorOK, NoFreedPbufRead
<1>2. QED
  BY <1>1, Inductive, PTL

(***************************************************************************)
(* pbuf_seqnum_lag counts the packets numbered after a given one, across   *)
(* the wrap-around, for every packet that is still in core.                *)
(***************************************************************************)
THEOREM LagIsExact == Spec => []LagExact
<1>1. ASSUME IInv, NEW q \in Queue,
             NEW i \in (freed[q] + 1)..Len(pbuf_global[q])
      PROVE  Lag(dupecheck_seqnum[q], pbuf_global[q][i].seqnum) =
               IF pbuf_global[q][i].seqnum = 0 THEN NoData
               ELSE Len(pbuf_global[q]) + Len(pb_out[q]) - i
  <2> DEFINE n == Len(pbuf_global[q])
             m == Len(pb_out[q])
             l == Len(pb_list)
  <2>1. Safe(q) /\ TypeOK
    BY ZenonT(30), <1>1 DEF IInv
  <2>2. /\ pb_out[q] \in Seq(Pbuf) /\ pbuf_global[q] \in Seq(Pbuf)
        /\ pb_list \in Seq(Pbuf) /\ freed[q] \in Nat
    BY ZenonT(30), <2>1 DEF TypeOK
  <2>3. n \in Nat /\ m \in Nat /\ l \in Nat
    BY ZenonT(30), <2>2, LenIsNat
  <2>4. freed[q] \in Nat /\ n \in Nat /\ i \in (freed[q] + 1)..n
    BY ZenonT(30), <1>1, <2>2, <2>3
  <2>5. /\ pbuf_global[q][i].seqnum = Nth(i)
        /\ dupecheck_seqnum[q] = Nth(n + m)
        /\ n - freed[q] + m + l <= MaxInCore
    <3>1. i \in 1..n
      BY SMTT(30), <2>4
    <3>2. QED
      BY ZenonT(30), <2>1, <3>1 DEF Safe, Numbered, InCore
  <2>6. i \in Nat /\ freed[q] < i /\ i <= n
    BY SMTT(30), <2>4
  <2> HIDE DEF n, m, l
  <2>7. n + m \in Nat /\ i <= n + m /\ (n + m) - i <= MaxInCore
    <3>1. freed[q] \in Nat /\ MaxInCore \in Nat
      BY ZenonT(30), <2>2, ConstantsAssumption
    <3>2. n - freed[q] + m + l <= MaxInCore
      BY ZenonT(30), <2>5
    <3>3. QED
      BY SMTT(30), <2>3, <2>6, <3>1, <3>2
  <2>8. Lag(Nth(n + m), Nth(i)) = IF Nth(i) = 0 THEN NoData ELSE (n + m) - i
    BY ZenonT(30), <2>6, <2>7, LagCounts
  <2>9. Lag(dupecheck_seqnum[q], pbuf_global[q][i].seqnum) =
          IF pbuf_global[q][i].seqnum = 0 THEN NoData ELSE n + m - i
    <3>1. (n + m) - i = n + m - i
      BY SMTT(30), <2>3, <2>6
    <3>2. QED
      BY ZenonT(30), <2>5, <2>8, <3>1
  <2>10. QED
    BY <2>9, Zenon DEF n, m
<1>2. IInv => LagExact
  BY ZenonT(30), <1>1 DEF LagExact
<1>3. QED
  BY <1>2, Inductive, PTL

-----------------------------------------------------------------------------
(***************************************************************************)
(* Each global queue is a broadcast log.                                   *)
(***************************************************************************)

(* Only running workers have left "none". *)
Manned == \A w \in Worker : wpc[w] # "none" => w \in 1..workers_running

(* The initial state is that of a log without readers. *)
LEMMA LogInit ==
    ASSUME Init
    PROVE  Manned /\ Main!Init /\ Dupe!Init
<1>1. workers_running = 0 /\ 1..workers_running = {}
  BY SMTT(30) DEF Init
<1>2. \A q \in Queue : pbuf_global[q] = <<>> /\ freed[q] = 0
        /\ [w \in Worker |-> Position(q, w)] = [w \in Worker |-> 0]
  BY ZenonT(30) DEF Init, Position, Adv
<1>3. QED
  BY ZenonT(30), <1>1, <1>2 DEF Init, Manned, Main!Init, Dupe!Init, Queue

(* The steps of a log on queue q, in terms of the pipeline. *)
Places(q) == [w \in Worker |-> Position(q, w)]
LogSame(q) == UNCHANGED <<pbuf_global[q], freed[q], workers_running, Places(q)>>
LogAppend(q) ==
    /\ Len(pbuf_global[q]') > Len(pbuf_global[q])
    /\ SubSeq(pbuf_global[q]', 1, Len(pbuf_global[q])) = pbuf_global[q]
    /\ UNCHANGED <<freed[q], workers_running, Places(q)>>
LogRead(q, w) ==
    /\ w \in 1..workers_running
    /\ Position(q, w) < Len(pbuf_global[q])
    /\ Places(q)' = [Places(q) EXCEPT ![w] = @ + 1]
    /\ UNCHANGED <<pbuf_global[q], freed[q], workers_running>>
LogReclaim(q) ==
    /\ freed[q]' \in (freed[q] + 1)..Len(pbuf_global[q])
    /\ \A w \in 1..workers_running : freed[q]' < Places(q)[w]
    /\ UNCHANGED <<pbuf_global[q], workers_running, Places(q)>>
LogJoin(q, w) ==
    /\ w \notin 1..workers_running
    /\ 1..workers_running' = (1..workers_running) \cup {w}
    /\ Places(q)' = [Places(q) EXCEPT ![w] = Len(pbuf_global[q])]
    /\ UNCHANGED <<pbuf_global[q], freed[q]>>
LogLeave(q, w) ==
    /\ w \in 1..workers_running
    /\ 1..workers_running' = (1..workers_running) \ {w}
    /\ Places(q)' = [Places(q) EXCEPT ![w] = 0]
    /\ UNCHANGED <<pbuf_global[q], freed[q]>>
LogStep(q) ==
    \/ LogSame(q) \/ LogAppend(q) \/ LogReclaim(q)
    \/ \E w \in Worker : LogRead(q, w) \/ LogJoin(q, w) \/ LogLeave(q, w)

(* They are the steps of the abstract specification. *)
LEMMA LogStepMaps ==
    /\ LogStep("main") => [Main!Next]_Main!vars
    /\ LogStep("dupe") => [Dupe!Next]_Dupe!vars
BY ZenonT(30) DEF LogStep, LogSame, LogAppend, LogReclaim, LogRead, LogJoin, LogLeave,
   Places, Main!Next, Main!vars, Main!AppendEntries, Main!Reclaim, Main!Read,
   Main!Join, Main!Leave, Dupe!Next, Dupe!vars, Dupe!AppendEntries,
   Dupe!Reclaim, Dupe!Read, Dupe!Join, Dupe!Leave

(* A step that leaves queue, freed part and positions alone is a stutter. *)
LEMMA LogQuiet ==
    ASSUME NEW q \in Queue,
           UNCHANGED <<pbuf_global, freed, workers_running>>,
           \A w \in Worker : Position(q, w)' = Position(q, w)
    PROVE  LogStep(q)
BY ZenonT(30) DEF LogStep, LogSame, Places

(* The splice appends what was collected to the log. *)
LEMMA LogSplice ==
    ASSUME IInv, Splice, NEW q \in Queue
    PROVE  LogStep(q)
<1>1. /\ pbuf_global[q]' = pbuf_global[q] \o pb_out[q]
      /\ UNCHANGED <<freed, workers_running, prevp, pb, wpc>>
  BY ZenonT(30) DEF Splice, workerVars, acceptVars
<1>2. pbuf_global[q] \in Seq(Pbuf) /\ pb_out[q] \in Seq(Pbuf)
  BY ZenonT(30) DEF IInv, TypeOK
<1>3. UNCHANGED Places(q)
  BY ZenonT(30), <1>1 DEF Places, Position
<1> DEFINE a == pbuf_global[q]
           b == pb_out[q]
<1>4. CASE b = <<>>
  <2>1. a \o b = a
    BY SMTT(30), <1>2, <1>4
  <2>2. QED
    BY ZenonT(30), <1>1, <1>3, <2>1 DEF LogStep, LogSame
<1>5. CASE b # <<>>
  <2>1. a \in Seq(Pbuf) /\ b \in Seq(Pbuf)
    BY ZenonT(30), <1>2
  <2> HIDE DEF a, b
  <2>2. Len(a \o b) > Len(a) /\ SubSeq(a \o b, 1, Len(a)) = a
    BY SMTT(30), <1>5, <2>1
  <2>3. LogAppend(q)
    BY ZenonT(30), <1>1, <1>3, <2>2 DEF LogAppend, a, b
  <2>4. QED
    BY ZenonT(30), <2>3 DEF LogStep
<1>6. QED
  BY ZenonT(30), <1>4, <1>5

(* The purge reclaims a part of the log that every reader has passed. *)
LEMMA LogPurge ==
    ASSUME IInv, Purge, NEW q \in Queue
    PROVE  LogStep(q)
<1>1. dpc = "lag" /\ walk > workers_running
  BY ZenonT(30) DEF Purge
<1>2. PICK k \in freed[q]..Len(pbuf_global[q]) : PurgesTo(q, k) /\ freed[q]' = k
  BY ZenonT(30) DEF Purge, Queue
<1>3. UNCHANGED <<pbuf_global, workers_running, wpc, pb, prevp>>
  BY ZenonT(30) DEF Purge, workerVars, acceptVars
<1>4. UNCHANGED <<pbuf_global[q], workers_running, Places(q)>>
  BY ZenonT(30), <1>3 DEF Places, Position
<1>5. freed[q] \in Nat /\ Len(pbuf_global[q]) \in Nat
  <2>1. freed[q] \in Nat /\ pbuf_global[q] \in Seq(Pbuf)
    BY ZenonT(30) DEF IInv, TypeOK
  <2>2. QED
    BY SMTT(30), <2>1
<1>6. CASE k = freed[q]
  BY ZenonT(30), <1>2, <1>4, <1>6 DEF LogStep, LogSame
<1>7. CASE k # freed[q]
  <2>1. k \in (freed[q] + 1)..Len(pbuf_global[q]) /\ k # 0
    BY SMTT(30), <1>2, <1>5, <1>7
  <2>2. ASSUME NEW w \in 1..workers_running PROVE k < Places(q)[w]
    <3>1. k < Position(q, w)
      BY ZenonT(30), <1>1, <1>2, <2>1, PurgeStopsBehind
    <3>2. w \in Worker
      BY ZenonT(30), RunningAreWorkers DEF IInv
    <3>3. QED
      BY ZenonT(30), <3>1, <3>2 DEF Places
  <2>3. LogReclaim(q)
    BY ZenonT(30), <1>2, <1>4, <2>1, <2>2 DEF LogReclaim
  <2>4. QED
    BY ZenonT(30), <2>3 DEF LogStep
<1>8. QED
  BY ZenonT(30), <1>6, <1>7

(* process_outgoing reads the next entry of the one queue. *)
LEMMA LogProcess ==
    ASSUME IInv, Manned, NEW w \in Worker, NEW r \in Queue, Process(r, w),
           NEW q \in Queue
    PROVE  LogStep(q)
<1> DEFINE i == NextPb(r, w)
<1>1. /\ wpc[w] = r /\ i # 0
      /\ pb' = [pb EXCEPT ![w] = i]
      /\ wpc' = [wpc EXCEPT ![w] = Adv(r)]
      /\ UNCHANGED <<pbuf_global, freed, workers_running, prevp>>
  BY ZenonT(30) DEF Process, queueVars, acceptVars
<1>2. TypeOK /\ Safe(r)
  BY ZenonT(30) DEF IInv
<1>3. Position(r, w) = prevp[r][w] /\ Position(r, w)' = i
  BY ZenonT(30), <1>1, <1>2 DEF Position, Adv, TypeOK, Queue
<1>4. \A x \in Worker : x # w \/ q # r => Position(q, x)' = Position(q, x)
  BY ZenonT(30), <1>1, <1>2 DEF Position, Adv, TypeOK, Queue
<1>5. CASE q # r
  BY ZenonT(30), <1>1, <1>4, <1>5, LogQuiet
<1>6. CASE q = r
  <2>1. w \in 1..workers_running
    BY ZenonT(30), <1>1 DEF Manned, Queue
  <2>2. CursorOK(q, w)
    BY ZenonT(30), <1>2, <1>6, <2>1 DEF Safe
  <2>3. prevp[q][w] \in Nat /\ freed[q] \in Nat
    BY ZenonT(30), <1>2 DEF TypeOK
  <2>4. i = prevp[q][w] + 1
    <3>1. prevp[q][w] = 0 => freed[q] = 0
      BY SMTT(30), <1>3, <1>6, <2>2, <2>3 DEF CursorOK
    <3>2. i = IF prevp[q][w] = 0 THEN freed[q] + 1 ELSE prevp[q][w] + 1
      BY ZenonT(30), <1>1, <1>6 DEF NextPb
    <3>3. QED
      BY ZenonT(30), <2>3, <3>1, <3>2
  <2>5. i \in 1..Len(pbuf_global[q])
    BY ZenonT(30), <1>1, <1>2, <1>6, NextPbType
  <2>6. pbuf_global[q] \in Seq(Pbuf)
    BY ZenonT(30), <1>2 DEF TypeOK
  <2> HIDE DEF i
  <2>7. Position(q, w) < Len(pbuf_global[q]) /\ Position(q, w)' = Position(q, w) + 1
    <3>1. Position(q, w) = prevp[q][w] /\ Position(q, w)' = i
      BY ZenonT(30), <1>3, <1>6
    <3>2. Len(pbuf_global[q]) \in Nat
      BY SMTT(30), <2>6
    <3>3. prevp[q][w] < Len(pbuf_global[q])
      BY SMTT(30), <2>3, <2>4, <2>5, <3>2
    <3>4. QED
      BY ZenonT(30), <2>4, <3>1, <3>3
  <2>8. Places(q)' = [Places(q) EXCEPT ![w] = @ + 1]
    <3>1. \A x \in Worker : Position(q, x)' =
            IF x = w THEN Position(q, w) + 1 ELSE Position(q, x)
      BY ZenonT(30), <1>4, <2>7
    <3>2. Places(q)' = [x \in Worker |-> Position(q, x)']
      BY ZenonT(30) DEF Places
    <3>3. [Places(q) EXCEPT ![w] = @ + 1] =
            [x \in Worker |-> IF x = w THEN Position(q, w) + 1 ELSE Position(q, x)]
      BY ZenonT(30) DEF Places
    <3>4. QED
      BY ZenonT(30), <3>1, <3>2, <3>3
  <2>9. LogRead(q, w)
    BY ZenonT(30), <1>1, <2>1, <2>7, <2>8 DEF LogRead
  <2>10. QED
    BY ZenonT(30), <2>9 DEF LogStep
<1>7. QED
  BY ZenonT(30), <1>5, <1>6

(* A worker that was joined leaves both logs. *)
LEMMA LogWorkerJoined ==
    ASSUME IInv, WorkerJoined, NEW q \in Queue
    PROVE  LogStep(q)
<1> DEFINE w == workers_running
<1>1. TypeOK
  BY ZenonT(30) DEF IInv
<1>2. w \in Worker /\ w \in Nat
  BY SMTT(30), <1>1, ConstantsAssumption DEF WorkerJoined, TypeOK, Worker
<1>3. /\ workers_running' = w - 1
      /\ UNCHANGED <<pbuf_global, freed, pb>>
      /\ wpc' = [wpc EXCEPT ![w] = "none"]
      /\ prevp' = [r \in Queue |-> [prevp[r] EXCEPT ![w] = 0]]
  BY ZenonT(30) DEF WorkerJoined, queueVars
<1>4. w \in 1..workers_running /\ 1..workers_running' = (1..workers_running) \ {w}
  <2>1. w \in Nat /\ w >= 1
    BY SMTT(30), <1>2, ConstantsAssumption DEF Worker
  <2>2. \A n \in Nat : n >= 1 => n \in 1..n /\ 1..(n - 1) = (1..n) \ {n}
    BY SMTT(30)
  <2>3. QED
    BY ZenonT(30), <1>3, <2>1, <2>2
<1>5. \A x \in Worker : Position(q, x)' = IF x = w THEN 0 ELSE Position(q, x)
  <2>1. \A x \in Worker : wpc'[x] = IF x = w THEN "none" ELSE wpc[x]
    BY ZenonT(30), <1>1, <1>3 DEF TypeOK
  <2>2. \A x \in Worker : prevp'[q][x] = IF x = w THEN 0 ELSE prevp[q][x]
    BY ZenonT(30), <1>1, <1>3 DEF TypeOK
  <2>3. "none" # Adv(q)
    BY ZenonT(30) DEF Adv
  <2>4. QED
    BY ZenonT(30), <1>3, <2>1, <2>2, <2>3 DEF Position
<1>6. Places(q)' = [Places(q) EXCEPT ![w] = 0]
  <2>1. Places(q)' = [x \in Worker |-> Position(q, x)']
    BY ZenonT(30) DEF Places
  <2>2. [Places(q) EXCEPT ![w] = 0] =
          [x \in Worker |-> IF x = w THEN 0 ELSE Position(q, x)]
    BY ZenonT(30) DEF Places
  <2>3. QED
    BY ZenonT(30), <1>5, <2>1, <2>2
<1>7. QED
  BY ZenonT(30), <1>2, <1>3, <1>4, <1>6 DEF LogStep, LogLeave

(* A worker that is started joins both logs at their ends. *)
LEMMA LogWorkerStart ==
    ASSUME IInv, WorkerStart, NEW q \in Queue
    PROVE  LogStep(q)
<1> DEFINE w == workers_running + 1
<1>1. TypeOK
  BY ZenonT(30) DEF IInv
<1>2. w \in Worker /\ workers_running \in Nat
  BY SMTT(30), <1>1, ConstantsAssumption DEF WorkerStart, TypeOK, Worker
<1>3. /\ workers_running' = w
      /\ UNCHANGED <<pbuf_global, freed, pb>>
      /\ wpc' = [wpc EXCEPT ![w] = "top"]
      /\ prevp' = [r \in Queue |-> [prevp[r] EXCEPT ![w] = Len(pbuf_global[r])]]
  BY ZenonT(30) DEF WorkerStart, queueVars
<1>4. w \notin 1..workers_running /\ 1..workers_running' = (1..workers_running) \cup {w}
  BY SMTT(30), <1>2, <1>3
<1>5. \A x \in Worker :
        Position(q, x)' = IF x = w THEN Len(pbuf_global[q]) ELSE Position(q, x)
  <2>1. \A x \in Worker : wpc'[x] = IF x = w THEN "top" ELSE wpc[x]
    BY ZenonT(30), <1>1, <1>2, <1>3 DEF TypeOK
  <2>2. \A x \in Worker :
          prevp'[q][x] = IF x = w THEN Len(pbuf_global[q]) ELSE prevp[q][x]
    BY ZenonT(30), <1>1, <1>2, <1>3 DEF TypeOK
  <2>3. "top" # Adv(q)
    BY ZenonT(30) DEF Adv
  <2>4. QED
    BY ZenonT(30), <1>3, <2>1, <2>2, <2>3 DEF Position
<1>6. Places(q)' = [Places(q) EXCEPT ![w] = Len(pbuf_global[q])]
  <2>1. Places(q)' = [x \in Worker |-> Position(q, x)']
    BY ZenonT(30) DEF Places
  <2>2. [Places(q) EXCEPT ![w] = Len(pbuf_global[q])] =
          [x \in Worker |-> IF x = w THEN Len(pbuf_global[q]) ELSE Position(q, x)]
    BY ZenonT(30) DEF Places
  <2>3. QED
    BY ZenonT(30), <1>5, <2>1, <2>2
<1>7. QED
  BY ZenonT(30), <1>2, <1>3, <1>4, <1>6 DEF LogStep, LogJoin

(* Any step of a worker. *)
LEMMA LogWorkerStep ==
    ASSUME IInv, Manned, NEW w \in Worker, WorkerStep(w), NEW q \in Queue
    PROVE  LogStep(q)
<1>1. TypeOK
  BY ZenonT(30) DEF IInv
<1>2. ASSUME NEW v \in {"top", "main", "dupe", "poll"},
             wpc' = [wpc EXCEPT ![w] = v],
             wpc[w] \in {"top", "main", "dupe", "poll"},
             UNCHANGED <<pb, prevp, pbuf_global, freed, workers_running>>
      PROVE  LogStep(q)
  <2>1. \A x \in Worker : Position(q, x)' = Position(q, x)
    BY ZenonT(30), <1>1, <1>2, PositionFrame
  <2>2. QED
    BY ZenonT(30), <1>2, <2>1, LogQuiet
<1>3. CASE OutgoingStart(w) \/ OutgoingSkip(w) \/ PollDone(w)
  <2>1. PICK v \in {"top", "main", "dupe", "poll"} : wpc' = [wpc EXCEPT ![w] = v]
    BY ZenonT(30), <1>3 DEF OutgoingStart, OutgoingSkip, PollDone
  <2>2. /\ wpc[w] \in {"top", "main", "dupe", "poll"}
        /\ UNCHANGED <<pb, prevp, pbuf_global, freed, workers_running>>
    BY ZenonT(30), <1>3 DEF OutgoingStart, OutgoingSkip, PollDone, queueVars, acceptVars
  <2>3. QED
    BY ZenonT(30), <1>2, <2>1, <2>2
<1>4. ASSUME NEW r \in Queue, Process(r, w) PROVE LogStep(q)
  BY ZenonT(30), <1>4, LogProcess
<1>5. ASSUME NEW r \in Queue, Advance(r, w) PROVE LogStep(q)
  <2>1. \A x \in Worker : Position(q, x)' = Position(q, x)
    BY ZenonT(30), <1>1, <1>5, AdvancePosition
  <2>2. UNCHANGED <<pbuf_global, freed, workers_running>>
    BY ZenonT(30), <1>5 DEF Advance, queueVars, acceptVars
  <2>3. QED
    BY ZenonT(30), <2>1, <2>2, LogQuiet
<1>6. ASSUME NEW r \in Queue, QueueEnd(r, w) PROVE LogStep(q)
  <2>1. PICK v \in {"top", "main", "dupe", "poll"} : wpc' = [wpc EXCEPT ![w] = v]
    BY ZenonT(30), <1>6 DEF QueueEnd
  <2>2. wpc[w] \in {"top", "main", "dupe", "poll"}
    BY ZenonT(30), <1>6 DEF QueueEnd, Queue
  <2>3. UNCHANGED <<pb, prevp, pbuf_global, freed, workers_running>>
    BY ZenonT(30), <1>6 DEF QueueEnd, queueVars, acceptVars
  <2>4. QED
    BY ZenonT(30), <1>2, <2>1, <2>2, <2>3
<1>7. QED
  BY ZenonT(30), <1>3, <1>4, <1>5, <1>6 DEF WorkerStep

(* Every step is a step of the log of queue q, or a stutter of it. *)
LEMMA LogNext ==
    ASSUME IInv, Manned, [Next]_vars, NEW q \in Queue
    PROVE  LogStep(q)
<1> USE DEF queueVars, acceptVars, workerVars
<1>1. ASSUME UNCHANGED <<pbuf_global, freed, workers_running, workerVars>>
      PROVE  LogStep(q)
  <2>1. \A w \in Worker : Position(q, w)' = Position(q, w)
    BY ZenonT(30), <1>1 DEF Position
  <2>2. QED
    BY ZenonT(30), <1>1, <2>1, LogQuiet
<1>2. CASE Tick \/ UNCHANGED vars
  BY ZenonT(30), <1>1, <1>2 DEF Tick, vars
<1>3. ASSUME NEW w, NEW k, NEW l, Receive(w, k, l) \/ PseudoPush(w, k, l)
      PROVE  LogStep(q)
  BY ZenonT(30), <1>1, <1>3 DEF Receive, PseudoPush
<1>4. CASE DupecheckStep
  <2>1. CASE Splice
    BY ZenonT(30), <2>1, LogSplice
  <2>2. CASE Purge
    BY ZenonT(30), <2>2, LogPurge
  <2>3. CASE LoopTop \/ WalkSkip \/ DrainLock \/ DrainTake \/ CheckPacket
             \/ DrainDone \/ LagScan
    BY ZenonT(30), <1>1, <2>3 DEF LoopTop, WalkSkip, DrainLock, DrainTake,
       CheckPacket, DrainDone, LagScan
  <2>4. QED
    BY ZenonT(30), <1>4, <2>1, <2>2, <2>3 DEF DupecheckStep
<1>5. ASSUME NEW w \in Worker, WorkerStep(w) PROVE LogStep(q)
  BY ZenonT(30), <1>5, LogWorkerStep
<1>6. ASSUME NEW n \in Worker, DupecheckStop(n) PROVE LogStep(q)
  BY ZenonT(30), <1>1, <1>6 DEF DupecheckStop
<1>7. CASE DupecheckJoined \/ WorkerStop \/ DupecheckStart
  BY ZenonT(30), <1>1, <1>7 DEF DupecheckJoined, WorkerStop, DupecheckStart
<1>8. CASE WorkerJoined
  BY ZenonT(30), <1>8, LogWorkerJoined
<1>9. CASE WorkerStart
  BY ZenonT(30), <1>9, LogWorkerStart
<1>10. QED
  BY ZenonT(30), <1>2, <1>3, <1>4, <1>5, <1>6, <1>7, <1>8, <1>9 DEF Next, AcceptStep

(* A worker that ends is not counted any more, and one that starts is. *)
LEMMA MannedNext ==
    ASSUME IInv, Manned, [Next]_vars
    PROVE  Manned'
<1> USE DEF acceptVars, workerVars
<1>1. TypeOK
  BY ZenonT(30) DEF IInv
<1>2. ASSUME UNCHANGED <<workers_running, wpc>> PROVE Manned'
  BY ZenonT(30), <1>2 DEF Manned
<1>3. CASE Tick \/ UNCHANGED vars
  BY ZenonT(30), <1>2, <1>3 DEF Tick, vars
<1>4. ASSUME NEW w, NEW k, NEW l, Receive(w, k, l) \/ PseudoPush(w, k, l)
      PROVE  Manned'
  BY ZenonT(30), <1>2, <1>4 DEF Receive, PseudoPush
<1>5. CASE DupecheckStep
  BY ZenonT(30), <1>2, <1>5 DEF DupecheckStep, LoopTop, WalkSkip, DrainLock, DrainTake,
     CheckPacket, DrainDone, Splice, LagScan, Purge
<1>6. ASSUME NEW w \in Worker, WorkerStep(w) PROVE Manned'
  <2>1. PICK v : wpc' = [wpc EXCEPT ![w] = v]
    BY ZenonT(30), <1>6 DEF WorkerStep, OutgoingStart, OutgoingSkip, PollDone, Process,
       Advance, QueueEnd
  <2>2. wpc[w] # "none" /\ UNCHANGED workers_running
    BY ZenonT(30), <1>6 DEF WorkerStep, OutgoingStart, OutgoingSkip, PollDone, Process,
       Advance, QueueEnd, Queue, Adv
  <2>3. \A x \in Worker : x # w => wpc'[x] = wpc[x]
    BY ZenonT(30), <1>1, <2>1 DEF TypeOK
  <2>4. QED
    BY ZenonT(30), <2>2, <2>3 DEF Manned
<1>7. ASSUME NEW n \in Worker, DupecheckStop(n) PROVE Manned'
  BY ZenonT(30), <1>2, <1>7 DEF DupecheckStop
<1>8. CASE DupecheckJoined \/ WorkerStop \/ DupecheckStart
  BY ZenonT(30), <1>2, <1>8 DEF DupecheckJoined, WorkerStop, DupecheckStart
<1>9. CASE WorkerJoined
  <2>1. workers_running \in Worker /\ workers_running \in Nat
    BY <1>1, <1>9, ConstantsAssumption DEF WorkerJoined, TypeOK, Worker
  <2>2. /\ workers_running' = workers_running - 1
        /\ wpc' = [wpc EXCEPT ![workers_running] = "none"]
    BY ZenonT(30), <1>9 DEF WorkerJoined
  <2>3. \A x \in 1..workers_running : x # workers_running => x \in 1..workers_running'
    BY SMTT(30), <2>1, <2>2
  <2>4. \A x \in Worker : wpc'[x] = IF x = workers_running THEN "none" ELSE wpc[x]
    BY ZenonT(30), <1>1, <2>1, <2>2 DEF TypeOK
  <2>5. QED
    BY ZenonT(30), <2>3, <2>4 DEF Manned
<1>10. CASE WorkerStart
  <2>1. workers_running + 1 \in Worker /\ workers_running \in Nat
    BY SMTT(30), <1>1, <1>10, ConstantsAssumption DEF WorkerStart, TypeOK, Worker
  <2>2. /\ workers_running' = workers_running + 1
        /\ wpc' = [wpc EXCEPT ![workers_running + 1] = "top"]
    BY ZenonT(30), <1>10 DEF WorkerStart
  <2>3. /\ \A x \in 1..workers_running : x \in 1..workers_running'
        /\ workers_running + 1 \in 1..workers_running'
    BY SMTT(30), <2>1, <2>2
  <2>4. \A x \in Worker : x # workers_running + 1 => wpc'[x] = wpc[x]
    BY ZenonT(30), <1>1, <2>1, <2>2 DEF TypeOK
  <2>5. QED
    BY ZenonT(30), <2>3, <2>4 DEF Manned
<1>11. QED
  BY ZenonT(30), <1>3, <1>4, <1>5, <1>6, <1>7, <1>8, <1>9, <1>10 DEF Next, AcceptStep

(***************************************************************************)
(* Each global queue implements BroadcastLog: whatever the dupecheck       *)
(* thread, the workers and the accept thread do, a worker gets every       *)
(* packet spliced after it started, in order and once, and packets are     *)
(* freed only behind all workers.                                          *)
(***************************************************************************)
THEOREM QueuesImplementLogs == Spec => QueuesAreLogs
<1>1. Init => Manned /\ Main!Init /\ Dupe!Init
  BY ZenonT(30), LogInit
<1>2. IInv /\ Manned /\ [Next]_vars => Manned'
  BY ZenonT(30), MannedNext
<1>3. IInv /\ Manned /\ [Next]_vars => [Main!Next]_Main!vars /\ [Dupe!Next]_Dupe!vars
  BY ZenonT(30), LogNext, LogStepMaps DEF Queue
<1>4. QED
  BY <1>1, <1>2, <1>3, Inductive, PTL DEF Spec, QueuesAreLogs, Main!Spec, Dupe!Spec
=============================================================================
