------------------------- MODULE ClientOutputProofs -------------------------
(***************************************************************************)
(* The output buffer of ClientOutput is a stream for any buffer size and   *)
(* any lines, and its timeouts close the connections they should.          *)
(***************************************************************************)
EXTENDS ClientOutput, TLAPS

Reason == {"none", "full", "error", "eof", "upgrade", "silent", "stuck"}
State == {"login", "connected", "closed"}

Client ==
    [proto : Protocol, inport : BOOLEAN, udp : BOOLEAN, state : State,
     why : Reason, obuf : [Cell -> Byte], obuf_start : Nat, obuf_end : Nat,
     obuf_flushsize : Nat, obuf_writes : Nat, pollout : BOOLEAN,
     wage : Nat, refused : BOOLEAN, kleft : Nat, rage : Nat, cage : Nat,
     upgraded : BOOLEAN, wire : Seq(Byte)]

(* The pointers into the buffer are in order and inside it. *)
InBuffer(x) == x \in Client /\ x.obuf_start <= x.obuf_end /\ x.obuf_end <= obuf_size

(* The bytes that wait. *)
Bytes(x) == [i \in 1..Queued(x) |-> x.obuf[x.obuf_start + i - 1]]

(* What writing leaves alone; times: what only a timed write changes. *)
Rest(x, y) ==
    /\ y.proto = x.proto /\ y.inport = x.inport /\ y.udp = x.udp /\ y.state = x.state
    /\ y.why = x.why /\ y.kleft = x.kleft /\ y.rage = x.rage /\ y.cage = x.cage
    /\ y.upgraded = x.upgraded
Timed(x, y) == y.wage = x.wage /\ y.refused = x.refused
Stored(x, y) ==
    y.obuf = x.obuf /\ y.obuf_start = x.obuf_start /\ y.obuf_end = x.obuf_end

(* The types of the fields that are counted with. *)
LEMMA Fields ==
    ASSUME NEW x \in Client
    PROVE  /\ x.obuf \in [Cell -> Byte] /\ x.obuf_start \in Nat /\ x.obuf_end \in Nat
           /\ x.obuf_flushsize \in Nat /\ x.obuf_writes \in Nat /\ x.wage \in Nat
           /\ x.kleft \in Nat /\ x.rage \in Nat /\ x.cage \in Nat
           /\ x.refused \in BOOLEAN /\ x.upgraded \in BOOLEAN /\ x.udp \in BOOLEAN
           /\ x.inport \in BOOLEAN /\ x.state \in State /\ x.proto \in Protocol
BY ZenonT(30) DEF Client

(* client_close leaves nothing to write. *)
LEMMA CloseEffect ==
    ASSUME NEW x \in Client, NEW cause, cause \in Reason, NEW y, y = client_close(x, cause)
    PROVE  /\ InBuffer(y) /\ y.state = "closed" /\ y.why = cause
           /\ y.refused = x.refused /\ y.wire = <<>> /\ Bytes(y) = <<>>
<1>1. /\ y.state = "closed" /\ y.why = cause /\ y.refused = x.refused /\ y.wire = <<>>
      /\ y.obuf_start = 0 /\ y.obuf_end = 0
  BY ZenonT(30) DEF client_close, client_alloc
<1>2. y \in Client
  <2> DEFINE z == client_alloc(x.proto, x.inport, FALSE, 0)
  <2>1. z \in Client
    <3>1. [i \in Cell |-> EOL] \in [Cell -> Byte] /\ <<>> \in Seq(Byte) /\ 0 \in Nat
      BY SMTT(30), OutputAssumption
    <3>2. "login" \in State /\ "none" \in Reason /\ x.proto \in Protocol /\ x.inport \in BOOLEAN
      BY ZenonT(30), Fields DEF State, Reason
    <3>3. QED
      BY ZenonT(30), <3>1, <3>2 DEF client_alloc, Client
  <2>2. y = [z EXCEPT !.state = "closed", !.why = cause, !.refused = x.refused]
    BY ZenonT(30) DEF client_close
  <2> HIDE DEF z
  <2>3. x.refused \in BOOLEAN /\ "closed" \in State
    BY ZenonT(30), Fields DEF State
  <2>4. QED
    BY ZenonT(30), <2>1, <2>2, <2>3 DEF Client
<1>3. InBuffer(y)
  BY SMTT(30), <1>1, <1>2, OutputAssumption DEF InBuffer
<1>4. Bytes(y) = <<>>
  BY SMTT(30), <1>1 DEF Bytes, Queued
<1>5. QED
  BY ZenonT(30), <1>1, <1>3, <1>4

(* Counting a write. *)
LEMMA CountedEffect ==
    ASSUME NEW x \in Client, NEW y, y = Counted(x)
    PROVE  /\ y \in Client /\ Rest(x, y) /\ Timed(x, y) /\ Stored(x, y)
           /\ y.wire = x.wire /\ y.obuf_flushsize = x.obuf_flushsize
<1> DEFINE n == IF x.obuf_writes > obuf_writes_threshold THEN x.obuf_writes
                ELSE x.obuf_writes + 1
<1>1. n \in Nat
  BY SMTT(30), Fields
<1>2. y = [x EXCEPT !.obuf_writes = n]
  BY ZenonT(30) DEF Counted
<1> HIDE DEF n
<1>3. y \in Client
  BY ZenonT(30), <1>1, <1>2 DEF Client
<1>4. QED
  BY ZenonT(30), <1>2, <1>3 DEF Rest, Timed, Stored, Client

(* Counting a write of SCTP may turn on the buffering. *)
LEMMA SctpCountedEffect ==
    ASSUME NEW x \in Client, NEW y, y = SctpCounted(x)
    PROVE  /\ y \in Client /\ Rest(x, y) /\ Timed(x, y) /\ Stored(x, y) /\ y.wire = x.wire
<1> DEFINE z == Counted(x)
           n == IF z.obuf_writes > obuf_writes_threshold /\ z.obuf_flushsize = 0
                THEN obuf_size \div 2 ELSE z.obuf_flushsize
<1>1. /\ z \in Client /\ Rest(x, z) /\ Timed(x, z) /\ Stored(x, z) /\ z.wire = x.wire
  BY ZenonT(30), CountedEffect
<1>2. y = [z EXCEPT !.obuf_flushsize = n]
  BY ZenonT(30) DEF SctpCounted
<1>3. n \in Nat
  BY SMTT(30), <1>1, OutputAssumption, Fields
<1> HIDE DEF z, n
<1>4. y \in Client
  BY ZenonT(30), <1>1, <1>2, <1>3 DEF Client
<1>5. Rest(z, y) /\ Timed(z, y) /\ Stored(z, y) /\ y.wire = z.wire
  BY ZenonT(30), <1>1, <1>2 DEF Rest, Timed, Stored, Client
<1>6. QED
  BY ZenonT(30), <1>1, <1>4, <1>5 DEF Rest, Timed, Stored

(* The socket is polled for output or not. *)
LEMMA PolloutEffect ==
    ASSUME NEW x \in Client, NEW b \in BOOLEAN, NEW y, y = [x EXCEPT !.pollout = b]
    PROVE  /\ y \in Client /\ Rest(x, y) /\ Timed(x, y) /\ Stored(x, y)
           /\ y.wire = x.wire /\ y.obuf_flushsize = x.obuf_flushsize
<1>1. y \in Client
  BY ZenonT(30) DEF Client
<1>2. QED
  BY ZenonT(30), <1>1 DEF Rest, Timed, Stored, Client

(* The socket refused data. *)
LEMMA RefusedEffect ==
    ASSUME NEW x \in Client, NEW y, y = Refused(x)
    PROVE  /\ y \in Client /\ Rest(x, y) /\ Stored(x, y) /\ y.wage = x.wage /\ y.refused
           /\ y.wire = x.wire /\ y.obuf_flushsize = x.obuf_flushsize
<1>1. y \in Client
  BY ZenonT(30) DEF Refused, Client
<1>2. QED
  BY ZenonT(30), <1>1 DEF Refused, Rest, Stored, Client

(* The pointers go back to the start. *)
LEMMA EmptiedEffect ==
    ASSUME NEW x \in Client, NEW y, y = Emptied(x)
    PROVE  /\ InBuffer(y) /\ Rest(x, y) /\ Timed(x, y) /\ Bytes(y) = <<>>
           /\ y.wire = x.wire /\ y.obuf_flushsize = x.obuf_flushsize
<1>1. y \in Client
  BY ZenonT(30) DEF Emptied, Client
<1>2. /\ Rest(x, y) /\ Timed(x, y) /\ y.obuf_start = 0 /\ y.obuf_end = 0
      /\ y.wire = x.wire /\ y.obuf_flushsize = x.obuf_flushsize
  BY ZenonT(30) DEF Emptied, Rest, Timed, Client
<1>3. QED
  BY SMTT(30), <1>1, <1>2, OutputAssumption DEF InBuffer, Bytes, Queued

(* What the steps of a write do to the client: everything but the flush    *)
(* size, the number of writes and the polling stays.                       *)
Same(x, y) ==
    InBuffer(y) /\ Rest(x, y) /\ Timed(x, y) /\ y.wire = x.wire /\ Bytes(y) = Bytes(x)

(* Where the bytes that wait are. *)
LEMMA WaitingCell ==
    ASSUME NEW a \in Nat, NEW e \in Nat, a <= e, e <= obuf_size, NEW i \in 1..(e - a)
    PROVE  a + i - 1 \in Cell
BY SMTT(30), OutputAssumption DEF Cell

(* The bytes that wait are a sequence of bytes. *)
LEMMA BytesSeq ==
    ASSUME NEW x, InBuffer(x)
    PROVE  Queued(x) \in Nat /\ Bytes(x) \in Seq(Byte) /\ Len(Bytes(x)) = Queued(x)
<1>1. /\ x.obuf \in [Cell -> Byte] /\ x.obuf_start \in Nat /\ x.obuf_end \in Nat
      /\ x.obuf_start <= x.obuf_end /\ x.obuf_end <= obuf_size
  BY ZenonT(30), Fields DEF InBuffer
<1>2. Queued(x) \in Nat
  BY SMTT(30), <1>1 DEF Queued
<1>3. ASSUME NEW i \in 1..Queued(x)
      PROVE  x.obuf[x.obuf_start + i - 1] \in Byte
  <2>1. x.obuf_start + i - 1 \in Cell
    BY ZenonT(30), <1>1, WaitingCell DEF Queued
  <2>2. QED
    BY ZenonT(30), <1>1, <2>1
<1>4. Bytes(x) \in [1..Queued(x) -> Byte]
  BY ZenonT(30), <1>3 DEF Bytes
<1>5. QED
  BY SMTT(30), <1>2, <1>4

(* A client with the same buffer has the same bytes. *)
LEMMA StoredSame ==
    ASSUME NEW x, NEW y, InBuffer(x), y \in Client, Stored(x, y), Rest(x, y), Timed(x, y),
           y.wire = x.wire
    PROVE  Same(x, y)
BY ZenonT(30) DEF Same, InBuffer, Stored, Bytes, Queued

(* Sameness carries over several steps. *)
LEMMA SameTransitive ==
    ASSUME NEW x, NEW y, NEW z, Same(x, y), Same(y, z)
    PROVE  Same(x, z)
BY ZenonT(30) DEF Same, Rest, Timed

(* The socket takes the first bytes that wait. *)
LEMMA TakeEffect ==
    ASSUME NEW x, InBuffer(x), NEW n \in 0..Queued(x), NEW y, y = Take(x, n)
    PROVE  /\ InBuffer(y) /\ Rest(x, y) /\ Timed(x, y) /\ y.obuf_end = x.obuf_end
           /\ y.obuf_flushsize = x.obuf_flushsize
           /\ Bytes(y) = SubSeq(Bytes(x), n + 1, Len(Bytes(x)))
           /\ y.wire = SubSeq(Bytes(x), 1, n)
<1> DEFINE taken == [i \in 1..n |-> x.obuf[x.obuf_start + i - 1]]
           start == x.obuf_start + n
<1>1. /\ x \in Client /\ x.obuf \in [Cell -> Byte] /\ x.obuf_start \in Nat /\ x.obuf_end \in Nat
      /\ x.obuf_start <= x.obuf_end /\ x.obuf_end <= obuf_size
  BY ZenonT(30), Fields DEF InBuffer
<1>2. Queued(x) \in Nat /\ Bytes(x) \in Seq(Byte) /\ Len(Bytes(x)) = Queued(x)
  BY ZenonT(30), BytesSeq
<1>3. taken = SubSeq(Bytes(x), 1, n)
  <2>1. \A i \in 1..n : i \in 1..Queued(x) /\ Bytes(x)[i] = x.obuf[x.obuf_start + i - 1]
    BY SMTT(30), <1>2 DEF Bytes
  <2>2. QED
    BY SMTT(30), <1>2, <2>1
<1>4. taken \in Seq(Byte)
  <2>1. SubSeq(Bytes(x), 1, n) \in Seq(Byte)
    <3> DEFINE q == Bytes(x)
    <3>1. q \in Seq(Byte) /\ n \in 0..Len(q)
      BY ZenonT(30), <1>2
    <3> HIDE DEF q
    <3>2. SubSeq(q, 1, n) \in Seq(Byte)
      BY SMTT(30), <3>1
    <3>3. QED
      BY ZenonT(30), <3>2 DEF q
  <2> HIDE DEF taken
  <2>2. QED
    BY ZenonT(30), <1>3, <2>1
<1>5. start \in Nat /\ start <= x.obuf_end
  BY SMTT(30), <1>1 DEF Queued
<1>6. y = [x EXCEPT !.wire = taken, !.obuf_start = start]
  BY ZenonT(30) DEF Take
<1> HIDE DEF taken, start
<1>7. y \in Client
  BY ZenonT(30), <1>1, <1>4, <1>5, <1>6 DEF Client
<1>8. /\ Rest(x, y) /\ Timed(x, y) /\ y.obuf = x.obuf /\ y.obuf_end = x.obuf_end
      /\ y.obuf_flushsize = x.obuf_flushsize /\ y.obuf_start = start /\ y.wire = taken
  BY ZenonT(30), <1>1, <1>6 DEF Rest, Timed, Client
<1>9. InBuffer(y)
  BY ZenonT(30), <1>1, <1>5, <1>7, <1>8 DEF InBuffer
<1>10. Bytes(y) = SubSeq(Bytes(x), n + 1, Len(Bytes(x)))
  <2>1. Queued(y) = Queued(x) - n
    BY SMTT(30), <1>1, <1>8 DEF Queued, start
  <2>2. Queued(y) \in Nat /\ Bytes(y) \in Seq(Byte) /\ Len(Bytes(y)) = Queued(y)
    BY ZenonT(30), <1>9, BytesSeq
  <2>3. ASSUME NEW i \in 1..Queued(y)
        PROVE  Bytes(y)[i] = Bytes(x)[i + n]
    <3>1. i + n \in 1..Queued(x)
      BY SMTT(30), <2>1, <2>2, <1>2
    <3>2. Bytes(x)[i + n] = x.obuf[x.obuf_start + (i + n) - 1]
      BY ZenonT(30), <3>1 DEF Bytes
    <3>3. Bytes(y)[i] = x.obuf[(x.obuf_start + n) + i - 1]
      BY ZenonT(30), <1>8 DEF Bytes, start
    <3>4. (x.obuf_start + n) + i - 1 = x.obuf_start + (i + n) - 1
      BY SMTT(30), <1>1, <2>2
    <3>5. QED
      BY ZenonT(30), <3>2, <3>3, <3>4
  <2>4. QED
    BY SMTT(30), <1>2, <2>1, <2>2, <2>3
<1>11. QED
  BY ZenonT(30), <1>3, <1>8, <1>9, <1>10

(* A timed write also renews the age. *)
LEMMA TakeTimedEffect ==
    ASSUME NEW x, InBuffer(x), NEW n \in 0..Queued(x), NEW y, y = TakeTimed(x, n)
    PROVE  /\ InBuffer(y) /\ Rest(x, y) /\ y.wage = 0 /\ y.refused = FALSE
           /\ y.obuf_flushsize = x.obuf_flushsize
           /\ Bytes(y) = SubSeq(Bytes(x), n + 1, Len(Bytes(x)))
           /\ y.wire = SubSeq(Bytes(x), 1, n)
<1> DEFINE t == Take(x, n)
<1>1. /\ InBuffer(t) /\ Rest(x, t) /\ t.obuf_flushsize = x.obuf_flushsize
      /\ Bytes(t) = SubSeq(Bytes(x), n + 1, Len(Bytes(x)))
      /\ t.wire = SubSeq(Bytes(x), 1, n)
  BY ZenonT(30), TakeEffect
<1>2. y = [t EXCEPT !.wage = 0, !.refused = FALSE]
  BY ZenonT(30) DEF TakeTimed
<1> HIDE DEF t
<1>3. t \in Client /\ 0 \in Nat
  BY ZenonT(30), <1>1 DEF InBuffer
<1>4. y \in Client
  BY ZenonT(30), <1>2, <1>3 DEF Client
<1>5. /\ Rest(t, y) /\ Stored(t, y) /\ y.wire = t.wire /\ y.wage = 0 /\ y.refused = FALSE
      /\ y.obuf_flushsize = t.obuf_flushsize
  BY ZenonT(30), <1>2, <1>3 DEF Rest, Stored, Client
<1>6. InBuffer(y) /\ Bytes(y) = Bytes(t)
  BY ZenonT(30), <1>1, <1>4, <1>5 DEF InBuffer, Stored, Bytes, Queued
<1>7. QED
  BY ZenonT(30), <1>1, <1>5, <1>6 DEF Rest

(* The bytes are moved to the start of the buffer if the line needs it. *)
LEMMA RoomEffect ==
    ASSUME NEW x, InBuffer(x), NEW len \in Nat, Fits(x, len), NEW y, y = MakeRoom(x, len)
    PROVE  /\ Same(x, y) /\ y.obuf_end + len <= obuf_size
           /\ y.obuf_flushsize = x.obuf_flushsize
<1>1. /\ x \in Client /\ x.obuf \in [Cell -> Byte] /\ x.obuf_start \in Nat /\ x.obuf_end \in Nat
      /\ x.obuf_start <= x.obuf_end /\ x.obuf_end <= obuf_size
  BY ZenonT(30), Fields DEF InBuffer
<1>2. Queued(x) \in Nat /\ Queued(x) <= x.obuf_end
  BY SMTT(30), <1>1 DEF Queued
<1>3. CASE x.obuf_end + len <= obuf_size
  BY ZenonT(30), <1>3 DEF MakeRoom, Same, Rest, Timed
<1>4. CASE ~(x.obuf_end + len <= obuf_size)
  <2> DEFINE moved == [i \in Cell |-> IF i < Queued(x) THEN x.obuf[x.obuf_start + i] ELSE x.obuf[i]]
             n == Queued(x)
  <2>1. ASSUME NEW i \in Cell, i < n
        PROVE  x.obuf_start + i \in Cell
    BY SMTT(30), <1>1, <1>2, <2>1, OutputAssumption DEF Cell, Queued
  <2>2. moved \in [Cell -> Byte]
    BY ZenonT(30), <1>1, <2>1
  <2>3. \A i \in 0..(n - 1) : i \in Cell /\ moved[i] = x.obuf[x.obuf_start + i]
    BY SMTT(30), <1>1, <1>2, OutputAssumption DEF Cell
  <2>4. y = [x EXCEPT !.obuf = moved, !.obuf_end = n, !.obuf_start = 0]
    BY ZenonT(30), <1>4 DEF MakeRoom
  <2>5. n + len <= obuf_size /\ n \in Nat /\ n <= obuf_size /\ 0 \in Nat
    BY SMTT(30), <1>1, <1>2, OutputAssumption DEF Fits
  <2>6. Bytes(x) = [i \in 1..n |-> x.obuf[x.obuf_start + i - 1]]
    BY ZenonT(30) DEF Bytes
  <2> HIDE DEF moved, n
  <2>7. y \in Client
    BY ZenonT(30), <1>1, <2>2, <2>4, <2>5 DEF Client
  <2>8. /\ Rest(x, y) /\ Timed(x, y) /\ y.wire = x.wire /\ y.obuf_flushsize = x.obuf_flushsize
        /\ y.obuf = moved /\ y.obuf_start = 0 /\ y.obuf_end = n
    BY ZenonT(30), <1>1, <2>4 DEF Rest, Timed, Client
  <2>9. InBuffer(y)
    BY SMTT(30), <2>5, <2>7, <2>8 DEF InBuffer
  <2>10. Bytes(y) = [i \in 1..n |-> moved[0 + i - 1]]
    BY SMTT(30), <2>5, <2>8 DEF Bytes, Queued
  <2>11. ASSUME NEW i \in 1..n
         PROVE  moved[0 + i - 1] = x.obuf[x.obuf_start + i - 1]
    <3>1. i - 1 \in 0..(n - 1) /\ 0 + i - 1 = i - 1
      BY SMTT(30), <2>5
    <3>2. moved[i - 1] = x.obuf[x.obuf_start + (i - 1)]
      BY ZenonT(30), <2>3, <3>1
    <3>3. x.obuf_start + (i - 1) = x.obuf_start + i - 1
      BY ZenonT(30), <1>1, <2>5
    <3>4. QED
      BY ZenonT(30), <3>1, <3>2, <3>3
  <2>12. Bytes(y) = Bytes(x)
    BY ZenonT(30), <2>6, <2>10, <2>11
  <2>13. QED
    BY ZenonT(30), <2>5, <2>8, <2>9, <2>12 DEF Same
<1>5. QED
  BY ZenonT(30), <1>3, <1>4

(* Where the bytes of a line go. *)
LEMMA LineCell ==
    ASSUME NEW e \in Nat, NEW k \in Nat, e + k <= obuf_size, NEW i \in 1..k
    PROVE  e + i - 1 \in Cell /\ e + i - 1 \in e..e + k - 1 /\ (e + i - 1) - e + 1 = i
BY SMTT(30), OutputAssumption DEF Cell

(* The places of the old bytes and of the new ones in the buffer. *)
LEMMA Behind ==
    ASSUME NEW a \in Nat, NEW k \in Nat, NEW n \in Nat
    PROVE  /\ \A i \in 1..k : a + i - 1 \in 0..((a + k) - 1) /\ i \in 1..(k + n)
           /\ \A i \in 1..n : k + i \in 1..(k + n) /\ a + (k + i) - 1 = (a + k) + i - 1
BY SMTT(30)

(* A sequence that starts with one sequence and goes on with another. *)
LEMMA Concatenated ==
    ASSUME NEW a \in Seq(Byte), NEW p \in Seq(Byte), NEW b \in Seq(Byte),
           Len(b) = Len(a) + Len(p), \A i \in 1..Len(a) : b[i] = a[i],
           \A i \in 1..Len(p) : b[Len(a) + i] = p[i]
    PROVE  b = a \o p
<1> DEFINE s == a \o p
<1>1. s \in Seq(Byte) /\ Len(s) = Len(a) + Len(p)
  BY SMTT(30)
<1>2. ASSUME NEW j \in 1..Len(b)
      PROVE  b[j] = s[j]
  <2>1. CASE j <= Len(a)
    BY SMTT(30), <2>1
  <2>2. CASE ~(j <= Len(a))
    <3>1. j - Len(a) \in 1..Len(p) /\ Len(a) + (j - Len(a)) = j
      BY SMTT(30), <2>2
    <3>2. b[Len(a) + (j - Len(a))] = p[j - Len(a)]
      BY ZenonT(30), <3>1
    <3>3. s[j] = p[j - Len(a)]
      BY SMTT(30), <2>2, <3>1
    <3>4. QED
      BY ZenonT(30), <3>1, <3>2, <3>3
  <2>3. QED
    BY ZenonT(30), <2>1, <2>2
<1> HIDE DEF s
<1>3. b = s
  BY SMTT(30), <1>1, <1>2
<1>4. QED
  BY ZenonT(30), <1>3 DEF s

(* A line that fits is put behind the bytes that wait. *)
LEMMA BufferEffect ==
    ASSUME NEW x, InBuffer(x), NEW p \in Seq(Byte), Fits(x, Len(p)), NEW y, y = Buffer(x, p)
    PROVE  /\ InBuffer(y) /\ Rest(x, y) /\ Timed(x, y) /\ y.wire = x.wire
           /\ y.obuf_flushsize = x.obuf_flushsize /\ Bytes(y) = Bytes(x) \o p
<1> DEFINE m == MakeRoom(x, Len(p))
           e == m.obuf_end
           filled == [i \in Cell |-> IF i \in e..e + Len(p) - 1 THEN p[i - e + 1] ELSE m.obuf[i]]
           new == e + Len(p)
<1>1. Len(p) \in Nat
  BY SMTT(30)
<1>2. Same(x, m) /\ new <= obuf_size /\ m.obuf_flushsize = x.obuf_flushsize
  BY ZenonT(30), <1>1, RoomEffect
<1>3. y = [m EXCEPT !.obuf = filled, !.obuf_end = new]
  BY ZenonT(30) DEF Buffer
<1> HIDE DEF m
<1>4. InBuffer(m) /\ m \in Client
  BY ZenonT(30), <1>2 DEF Same, InBuffer
<1>5. /\ m.obuf \in [Cell -> Byte] /\ m.obuf_start \in Nat /\ e \in Nat /\ new \in Nat
      /\ m.obuf_start <= e /\ e <= obuf_size
  BY SMTT(30), <1>1, <1>4, Fields DEF InBuffer
<1>6. filled \in [Cell -> Byte]
  <2>1. ASSUME NEW i \in Cell, i \in e..e + Len(p) - 1
        PROVE  p[i - e + 1] \in Byte
    <3>1. i - e + 1 \in 1..Len(p)
      BY SMTT(30), <1>1, <1>5, <2>1
    <3>2. QED
      BY SMTT(30), <3>1
  <2>2. QED
    BY ZenonT(30), <1>5, <2>1
<1>7. \A i \in 1..Len(p) : e + i - 1 \in Cell /\ filled[e + i - 1] = p[i]
  <2>1. SUFFICES ASSUME NEW i \in 1..Len(p)
                 PROVE  e + i - 1 \in Cell /\ filled[e + i - 1] = p[i]
    BY ZenonT(30)
  <2>2. /\ e + i - 1 \in Cell /\ e + i - 1 \in e..e + Len(p) - 1
        /\ (e + i - 1) - e + 1 = i
    <3> HIDE DEF e
    <3>1. QED
      BY ZenonT(30), <1>1, <1>2, <1>5, LineCell
  <2>3. QED
    BY ZenonT(30), <2>2
<1>8. \A i \in 0..(e - 1) : i \in Cell /\ filled[i] = m.obuf[i]
  BY SMTT(30), <1>1, <1>5, OutputAssumption DEF Cell
<1> HIDE DEF filled
<1>9. y \in Client
  BY ZenonT(30), <1>3, <1>4, <1>5, <1>6 DEF Client
<1>10. /\ Rest(m, y) /\ Timed(m, y) /\ y.wire = m.wire /\ y.obuf_flushsize = m.obuf_flushsize
       /\ y.obuf = filled /\ y.obuf_start = m.obuf_start /\ y.obuf_end = new
  BY ZenonT(30), <1>3, <1>4 DEF Rest, Timed, Client
<1>11. InBuffer(y)
  BY SMTT(30), <1>1, <1>2, <1>5, <1>9, <1>10 DEF InBuffer
<1>12. Bytes(y) = Bytes(m) \o p
  <2>1. /\ Queued(m) \in Nat /\ Bytes(m) \in Seq(Byte) /\ Len(Bytes(m)) = Queued(m)
        /\ Queued(y) \in Nat /\ Bytes(y) \in Seq(Byte) /\ Len(Bytes(y)) = Queued(y)
    BY ZenonT(30), <1>4, <1>11, BytesSeq
  <2>2. Queued(y) = Queued(m) + Len(p) /\ e = m.obuf_start + Queued(m)
    BY SMTT(30), <1>1, <1>5, <1>10 DEF Queued
  <2> DEFINE k == Queued(m)
             a0 == m.obuf_start
             n == Len(p)
  <2>3. /\ \A i \in 1..k : a0 + i - 1 \in 0..((a0 + k) - 1) /\ i \in 1..(k + n)
        /\ \A i \in 1..n : k + i \in 1..(k + n) /\ a0 + (k + i) - 1 = (a0 + k) + i - 1
    <3>1. a0 \in Nat /\ k \in Nat /\ n \in Nat
      BY ZenonT(30), <1>1, <1>5, <2>1
    <3> HIDE DEF a0, k, n
    <3>2. QED
      BY ZenonT(30), <3>1, Behind
  <2>4. ASSUME NEW i \in 1..Queued(m)
        PROVE  Bytes(y)[i] = Bytes(m)[i]
    <3>1. m.obuf_start + i - 1 \in 0..(e - 1) /\ i \in 1..Queued(y)
      BY ZenonT(30), <2>2, <2>3
    <3>2. Bytes(y)[i] = filled[m.obuf_start + i - 1]
      BY ZenonT(30), <1>10, <3>1 DEF Bytes
    <3>3. QED
      BY ZenonT(30), <1>8, <3>1, <3>2 DEF Bytes
  <2>5. ASSUME NEW i \in 1..Len(p)
        PROVE  Bytes(y)[Queued(m) + i] = p[i]
    <3>1. /\ Queued(m) + i \in 1..Queued(y)
          /\ m.obuf_start + (Queued(m) + i) - 1 = e + i - 1
      BY ZenonT(30), <2>2, <2>3
    <3>2. Bytes(y)[Queued(m) + i] = filled[m.obuf_start + (Queued(m) + i) - 1]
      BY ZenonT(30), <1>10, <3>1 DEF Bytes
    <3>3. QED
      BY ZenonT(30), <1>7, <3>1, <3>2
  <2> DEFINE b == Bytes(y)
             a == Bytes(m)
  <2>6. /\ a \in Seq(Byte) /\ b \in Seq(Byte) /\ Len(b) = Len(a) + Len(p)
        /\ \A i \in 1..Len(a) : b[i] = a[i]
        /\ \A i \in 1..Len(p) : b[Len(a) + i] = p[i]
    BY ZenonT(30), <2>1, <2>2, <2>4, <2>5
  <2> HIDE DEF a, b
  <2>7. b = a \o p
    BY ZenonT(30), <2>6, Concatenated
  <2>8. QED
    BY ZenonT(30), <2>7 DEF a, b
<1>13. QED
  BY ZenonT(30), <1>2, <1>10, <1>11, <1>12 DEF Same, Rest, Timed
-----------------------------------------------------------------------------
(***************************************************************************)
(* What a write does.                                                      *)
(***************************************************************************)

(* The first bytes of q were passed on and the others wait. *)
Passed(q, w) ==
    \E n \in 0..Len(q) : w.wire = SubSeq(q, 1, n) /\ Bytes(w) = SubSeq(q, n + 1, Len(q))

(* The write was timed, or the age stays and a refusal is not forgotten. *)
Renewed(x, w) == w.wage = 0 \/ (w.wage = x.wage /\ (x.refused => w.refused))

(* The write of p to x leaves w: it is open, and some line was accepted as *)
(* a whole, or it is closed.                                               *)
Wrote(x, p, w) ==
    /\ InBuffer(w)
    /\ IF Open(w) THEN /\ Rest(x, w) /\ Renewed(x, w)
                       /\ Passed(Bytes(x) \o p, w) \/ Passed(Bytes(x), w)
       ELSE w.why \in {"error", "full"} /\ w.wire = <<>> /\ Bytes(w) = <<>>

(* Nothing is passed on. *)
LEMMA PassedNone ==
    ASSUME NEW q \in Seq(Byte), NEW w, w.wire = <<>>, Bytes(w) = q
    PROVE  Passed(q, w)
<1>1. 0 \in 0..Len(q) /\ <<>> = SubSeq(q, 1, 0) /\ q = SubSeq(q, 0 + 1, Len(q))
  BY SMTT(30)
<1>2. QED
  BY ZenonT(30), <1>1 DEF Passed

(* The client was closed by a write. *)
LEMMA WroteClosed ==
    ASSUME NEW x, NEW p, NEW z \in Client, NEW cause, cause = "error" \/ cause = "full",
           NEW w, w = client_close(z, cause)
    PROVE  Wrote(x, p, w) /\ ~Open(w)
<1>1. cause \in Reason
  BY ZenonT(30) DEF Reason
<1>2. /\ InBuffer(w) /\ w.state = "closed" /\ w.why = cause /\ w.wire = <<>> /\ Bytes(w) = <<>>
  BY SMTT(30), <1>1, CloseEffect
<1>3. QED
  BY ZenonT(30), <1>2 DEF Wrote, Open

(* Emptying a buffer that was read to its end, or polling for output.      *)
LEMMA TcpWrittenEffect ==
    ASSUME NEW x, InBuffer(x), NEW y, y = TcpWritten(x)
    PROVE  Same(x, y)
<1>1. x \in Client /\ x.obuf_start \in Nat /\ x.obuf_end \in Nat /\ x.obuf_start <= x.obuf_end
  BY ZenonT(30), Fields DEF InBuffer
<1>2. CASE x.obuf_start >= x.obuf_end
  <2>1. Queued(x) = 0
    BY SMTT(30), <1>1, <1>2 DEF Queued
  <2>2. Bytes(x) = <<>>
    BY SMTT(30), <2>1 DEF Bytes
  <2>3. y = Emptied(x)
    BY ZenonT(30), <1>2 DEF TcpWritten
  <2>4. QED
    BY ZenonT(30), <1>1, <2>2, <2>3, EmptiedEffect DEF Same
<1>3. CASE ~(x.obuf_start >= x.obuf_end)
  <2>1. y = [x EXCEPT !.pollout = TRUE]
    BY ZenonT(30), <1>3 DEF TcpWritten
  <2>2. y \in Client /\ Rest(x, y) /\ Timed(x, y) /\ Stored(x, y) /\ y.wire = x.wire
    BY ZenonT(30), <1>1, <2>1, PolloutEffect
  <2>3. QED
    BY ZenonT(30), <2>2, StoredSame
<1>4. QED
  BY ZenonT(30), <1>2, <1>3

(* A line is put into the buffer of a client whose write was counted. *)
LEMMA CountedBuffer ==
    ASSUME NEW x, InBuffer(x), NEW p \in Seq(Byte), Fits(x, Len(p)),
           NEW z, z = Counted(x) \/ z = SctpCounted(x), NEW b, b = Buffer(z, p)
    PROVE  /\ InBuffer(b) /\ Rest(x, b) /\ Timed(x, b) /\ b.wire = x.wire
           /\ Bytes(b) = Bytes(x) \o p /\ Queued(b) = Queued(x) + Len(p)
           /\ z = Counted(x) => b.obuf_flushsize = x.obuf_flushsize
<1>1. x \in Client
  BY ZenonT(30) DEF InBuffer
<1>2. /\ z \in Client /\ Rest(x, z) /\ Timed(x, z) /\ Stored(x, z) /\ z.wire = x.wire
      /\ z = Counted(x) => z.obuf_flushsize = x.obuf_flushsize
  BY ZenonT(30), <1>1, CountedEffect, SctpCountedEffect
<1>3. Same(x, z)
  BY ZenonT(30), <1>2, StoredSame
<1>4. InBuffer(z) /\ Fits(z, Len(p))
  BY ZenonT(30), <1>2, <1>3 DEF Same, Stored, Fits, Queued
<1>5. /\ InBuffer(b) /\ Rest(z, b) /\ Timed(z, b) /\ b.wire = z.wire
      /\ b.obuf_flushsize = z.obuf_flushsize /\ Bytes(b) = Bytes(z) \o p
  BY ZenonT(30), <1>4, BufferEffect
<1>6. Bytes(b) = Bytes(x) \o p /\ b.wire = x.wire
  BY ZenonT(30), <1>3, <1>5 DEF Same
<1>7. Rest(x, b) /\ Timed(x, b)
  BY ZenonT(30), <1>3, <1>5 DEF Same, Rest, Timed
<1>8. Queued(b) = Queued(x) + Len(p)
  <2>1. Len(Bytes(b)) = Queued(b) /\ Len(Bytes(x)) = Queued(x) /\ Bytes(x) \in Seq(Byte)
    BY ZenonT(30), <1>5, BytesSeq
  <2>2. Len(Bytes(x) \o p) = Len(Bytes(x)) + Len(p)
    BY SMTT(30), <2>1
  <2>3. QED
    BY ZenonT(30), <1>6, <2>1, <2>2
<1>9. QED
  BY ZenonT(30), <1>2, <1>5, <1>6, <1>7, <1>8

(* The write went on from b to w, which was given the bytes of b. *)
LEMMA WroteOn ==
    ASSUME NEW x, InBuffer(x), x.wire = <<>>, Open(x), NEW p \in Seq(Byte),
           NEW b, InBuffer(b), Rest(x, b), Timed(x, b), b.wire = <<>>, Bytes(b) = Bytes(x) \o p,
           NEW w, InBuffer(w), Rest(b, w), Renewed(b, w), Passed(Bytes(b), w)
    PROVE  Wrote(x, p, w) /\ Open(w)
<1>1. Rest(x, w) /\ Open(w)
  BY ZenonT(30) DEF Rest, Open
<1>2. Renewed(x, w)
  BY ZenonT(30) DEF Timed, Renewed
<1>3. Passed(Bytes(x) \o p, w)
  BY ZenonT(30)
<1>4. QED
  BY ZenonT(30), <1>1, <1>2, <1>3 DEF Wrote

(* w is b but for what neither the stream nor the clock sees. *)
LEMMA PassedSame ==
    ASSUME NEW b, InBuffer(b), b.wire = <<>>, NEW w, Same(b, w)
    PROVE  InBuffer(w) /\ Rest(b, w) /\ Renewed(b, w) /\ Passed(Bytes(b), w)
<1>1. Bytes(b) \in Seq(Byte)
  BY ZenonT(30), BytesSeq
<1>2. InBuffer(w) /\ Rest(b, w) /\ w.wire = <<>> /\ Bytes(w) = Bytes(b) /\ Timed(b, w)
  BY ZenonT(30) DEF Same
<1>3. Passed(Bytes(b), w)
  BY ZenonT(30), <1>1, <1>2, PassedNone
<1>4. Renewed(b, w)
  BY ZenonT(30), <1>2 DEF Timed, Renewed
<1>5. QED
  BY ZenonT(30), <1>2, <1>3, <1>4

(* The socket refused and w is what is left. *)
LEMMA PassedRefused ==
    ASSUME NEW b, InBuffer(b), b.wire = <<>>, NEW w, Same(Refused(b), w)
    PROVE  InBuffer(w) /\ Rest(b, w) /\ Renewed(b, w) /\ Passed(Bytes(b), w) /\ w.refused
<1> DEFINE z == Refused(b)
<1>1. b \in Client
  BY ZenonT(30) DEF InBuffer
<1>2. z \in Client /\ Rest(b, z) /\ Stored(b, z) /\ z.wage = b.wage /\ z.refused /\ z.wire = b.wire
  BY ZenonT(30), <1>1, RefusedEffect
<1> HIDE DEF z
<1>3. InBuffer(w) /\ Rest(z, w) /\ Timed(z, w) /\ w.wire = z.wire /\ Bytes(w) = Bytes(z)
  BY ZenonT(30) DEF Same, z
<1>4. Bytes(z) = Bytes(b)
  BY ZenonT(30), <1>2 DEF Stored, Bytes, Queued
<1>5. Bytes(b) \in Seq(Byte)
  BY ZenonT(30), BytesSeq
<1>6. w.wire = <<>> /\ Bytes(w) = Bytes(b)
  BY ZenonT(30), <1>2, <1>3, <1>4
<1>7. Passed(Bytes(b), w)
  BY ZenonT(30), <1>5, <1>6, PassedNone
<1>8. Rest(b, w)
  BY ZenonT(30), <1>2, <1>3 DEF Rest
<1>9. Renewed(b, w) /\ w.refused
  BY ZenonT(30), <1>2, <1>3 DEF Timed, Renewed
<1>10. QED
  BY ZenonT(30), <1>3, <1>7, <1>8, <1>9

(* The refusal itself keeps the client in order. *)
LEMMA RefusedInBuffer ==
    ASSUME NEW b, InBuffer(b)
    PROVE  InBuffer(Refused(b)) /\ Queued(Refused(b)) = Queued(b)
<1> DEFINE z == Refused(b)
<1>1. b \in Client
  BY ZenonT(30) DEF InBuffer
<1>2. z \in Client /\ Stored(b, z)
  BY ZenonT(30), <1>1, RefusedEffect
<1> HIDE DEF z
<1>3. InBuffer(z) /\ Queued(z) = Queued(b)
  BY ZenonT(30), <1>2 DEF InBuffer, Stored, Queued
<1>4. QED
  BY ZenonT(30), <1>3 DEF z

(* The socket took n bytes and w is what is left. *)
LEMMA PassedTimed ==
    ASSUME NEW b, InBuffer(b), NEW n \in 0..Queued(b), NEW w, Same(TakeTimed(b, n), w)
    PROVE  InBuffer(w) /\ Rest(b, w) /\ Renewed(b, w) /\ Passed(Bytes(b), w) /\ w.wage = 0
<1> DEFINE z == TakeTimed(b, n)
<1>1. /\ InBuffer(z) /\ Rest(b, z) /\ z.wage = 0
      /\ Bytes(z) = SubSeq(Bytes(b), n + 1, Len(Bytes(b))) /\ z.wire = SubSeq(Bytes(b), 1, n)
  BY ZenonT(30), TakeTimedEffect
<1> HIDE DEF z
<1>2. InBuffer(w) /\ Rest(z, w) /\ Timed(z, w) /\ w.wire = z.wire /\ Bytes(w) = Bytes(z)
  BY ZenonT(30) DEF Same, z
<1>3. n \in 0..Len(Bytes(b))
  BY ZenonT(30), BytesSeq
<1>4. Passed(Bytes(b), w)
  BY ZenonT(30), <1>1, <1>2, <1>3 DEF Passed
<1>5. Rest(b, w)
  BY ZenonT(30), <1>1, <1>2 DEF Rest
<1>6. w.wage = 0 /\ Renewed(b, w)
  BY ZenonT(30), <1>1, <1>2 DEF Timed, Renewed
<1>7. QED
  BY ZenonT(30), <1>2, <1>4, <1>5, <1>6

(* A step that only polls. *)
LEMMA PolloutSame ==
    ASSUME NEW x, InBuffer(x), NEW f \in BOOLEAN, NEW y, y = [x EXCEPT !.pollout = f]
    PROVE  Same(x, y)
<1>1. x \in Client
  BY ZenonT(30) DEF InBuffer
<1>2. y \in Client /\ Rest(x, y) /\ Timed(x, y) /\ Stored(x, y) /\ y.wire = x.wire
  BY ZenonT(30), <1>1, PolloutEffect
<1>3. QED
  BY ZenonT(30), <1>2, StoredSame

(* A client is the same as itself. *)
LEMMA SameSelf ==
    ASSUME NEW x, InBuffer(x)
    PROVE  Same(x, x)
BY ZenonT(30) DEF Same, Rest, Timed

(* An emptied buffer that had been read to its end. *)
LEMMA EmptiedSame ==
    ASSUME NEW x, InBuffer(x), Queued(x) = 0
    PROVE  Same(x, Emptied(x))
<1>1. x \in Client
  BY ZenonT(30) DEF InBuffer
<1>2. Bytes(x) = <<>>
  BY SMTT(30) DEF Bytes
<1> DEFINE y == Emptied(x)
<1>3. InBuffer(y) /\ Rest(x, y) /\ Timed(x, y) /\ Bytes(y) = <<>> /\ y.wire = x.wire
  BY ZenonT(30), <1>1, EmptiedEffect
<1> HIDE DEF y
<1>4. Same(x, y)
  BY ZenonT(30), <1>2, <1>3 DEF Same
<1>5. QED
  BY ZenonT(30), <1>4 DEF y

(* tcp_client_write; a keepalive is not buffered. *)
LEMMA TcpWrote ==
    ASSUME NEW x, InBuffer(x), x.wire = <<>>, Open(x), NEW p \in Seq(Byte),
           NEW r \in Answer(Queued(x) + Len(p)), NEW w, w = tcp_client_write(x, p, r)
    PROVE  /\ Wrote(x, p, w)
           /\ p = Ping /\ x.obuf_flushsize = 0 /\ Open(w) => w.refused \/ w.wage = 0
<1> DEFINE z == Counted(x)
           b == Buffer(z, p)
<1>1. x \in Client
  BY ZenonT(30) DEF InBuffer
<1>2. CASE x.udp /\ p # <<>> /\ p[1] # Hash
  <2>1. w = x
    BY ZenonT(30), <1>2 DEF tcp_client_write
  <2>2. InBuffer(w) /\ Rest(x, w) /\ Renewed(x, w) /\ Passed(Bytes(x), w)
    BY ZenonT(30), <2>1, SameSelf, PassedSame
  <2>3. Wrote(x, p, w)
    BY ZenonT(30), <2>1, <2>2 DEF Wrote
  <2>4. p # Ping
    BY ZenonT(30), <1>2, OutputAssumption
  <2>5. QED
    BY ZenonT(30), <2>3, <2>4
<1>3. CASE ~(x.udp /\ p # <<>> /\ p[1] # Hash) /\ ~Fits(x, Len(p))
  <2>1. w = client_close(x, "full")
    BY ZenonT(30), <1>3 DEF tcp_client_write
  <2>2. QED
    BY ZenonT(30), <1>1, <2>1, WroteClosed
<1>4. CASE ~(x.udp /\ p # <<>> /\ p[1] # Hash) /\ Fits(x, Len(p))
  <2>1. /\ InBuffer(b) /\ Rest(x, b) /\ Timed(x, b) /\ b.wire = <<>>
        /\ Bytes(b) = Bytes(x) \o p /\ Queued(b) = Queued(x) + Len(p)
        /\ b.obuf_flushsize = x.obuf_flushsize
    BY SMTT(30), <1>4, CountedBuffer
  <2>2. w = IF ~MustFlush(b, Len(p)) THEN TcpWritten(b)
            ELSE IF r = PIPE \/ (r = ERROR /\ p # <<>>) THEN client_close(x, "error")
            ELSE IF r = AGAIN THEN Refused(b)
            ELSE IF r = ERROR THEN TcpWritten(Refused(b))
            ELSE TcpWritten(TakeTimed(b, r))
    BY ZenonT(30), <1>4 DEF tcp_client_write
  <2> HIDE DEF b
  <2>3. CASE ~MustFlush(b, Len(p))
    <3>1. w = TcpWritten(b)
      BY ZenonT(30), <2>2, <2>3
    <3>2. InBuffer(w) /\ Rest(b, w) /\ Renewed(b, w) /\ Passed(Bytes(b), w)
      BY ZenonT(30), <2>1, <3>1, TcpWrittenEffect, PassedSame
    <3>3. Wrote(x, p, w)
      BY ZenonT(30), <2>1, <3>2, WroteOn
    <3>4. ~(p = Ping /\ x.obuf_flushsize = 0)
      <4>1. b.obuf_start \in Nat /\ b.obuf_end \in Nat /\ Queued(x) \in Nat
        BY ZenonT(30), <2>1, Fields, BytesSeq DEF InBuffer
      <4>2. ASSUME p = Ping
            PROVE  Len(p) > 0
        BY SMTT(30), <4>2, OutputAssumption DEF Lines
      <4>3. QED
        BY SMTT(30), <2>1, <2>3, <4>1, <4>2 DEF MustFlush, Queued
    <3>5. QED
      BY ZenonT(30), <3>3, <3>4
  <2>4. CASE MustFlush(b, Len(p)) /\ (r = PIPE \/ (r = ERROR /\ p # <<>>))
    <3>1. w = client_close(x, "error")
      BY ZenonT(30), <2>2, <2>4
    <3>2. QED
      BY ZenonT(30), <1>1, <3>1, WroteClosed
  <2>5. CASE MustFlush(b, Len(p)) /\ r = AGAIN
    <3>1. w = Refused(b)
      BY SMTT(30), <2>2, <2>5 DEF AGAIN, PIPE, ERROR
    <3>2. Same(Refused(b), w)
      BY ZenonT(30), <2>1, <3>1, RefusedInBuffer, SameSelf
    <3>3. InBuffer(w) /\ Rest(b, w) /\ Renewed(b, w) /\ Passed(Bytes(b), w) /\ w.refused
      BY ZenonT(30), <2>1, <3>2, PassedRefused
    <3>4. QED
      BY ZenonT(30), <2>1, <3>3, WroteOn
  <2>6. CASE MustFlush(b, Len(p)) /\ r = ERROR /\ p = <<>>
    <3>1. w = TcpWritten(Refused(b))
      BY SMTT(30), <2>2, <2>6 DEF AGAIN, PIPE, ERROR
    <3>2. Same(Refused(b), w)
      BY ZenonT(30), <2>1, <3>1, RefusedInBuffer, TcpWrittenEffect
    <3>3. InBuffer(w) /\ Rest(b, w) /\ Renewed(b, w) /\ Passed(Bytes(b), w) /\ w.refused
      BY ZenonT(30), <2>1, <3>2, PassedRefused
    <3>4. QED
      BY ZenonT(30), <2>1, <3>3, WroteOn
  <2>7. CASE MustFlush(b, Len(p)) /\ r \in 1..Queued(b)
    <3>1. w = TcpWritten(TakeTimed(b, r))
      BY SMTT(30), <2>2, <2>7 DEF AGAIN, PIPE, ERROR
    <3>2. r \in 0..Queued(b)
      BY SMTT(30), <2>7
    <3>3. InBuffer(TakeTimed(b, r))
      BY ZenonT(30), <2>1, <3>2, TakeTimedEffect
    <3>4. Same(TakeTimed(b, r), w)
      BY ZenonT(30), <3>1, <3>3, TcpWrittenEffect
    <3>5. InBuffer(w) /\ Rest(b, w) /\ Renewed(b, w) /\ Passed(Bytes(b), w) /\ w.wage = 0
      BY ZenonT(30), <2>1, <3>2, <3>4, PassedTimed
    <3>6. QED
      BY ZenonT(30), <2>1, <3>5, WroteOn
  <2>8. QED
    BY ZenonT(30), <2>1, <2>3, <2>4, <2>5, <2>6, <2>7 DEF Answer
<1>5. QED
  BY ZenonT(30), <1>2, <1>3, <1>4

(* ssl_write *)
LEMMA SslWriteEffect ==
    ASSUME NEW b, InBuffer(b), b.wire = <<>>, NEW r \in Answer(Queued(b)),
           NEW w, w = ssl_write(b, r)
    PROVE  \/ w = client_close(b, "error")
           \/ /\ InBuffer(w) /\ Rest(b, w) /\ Renewed(b, w) /\ Passed(Bytes(b), w)
              /\ w.refused \/ w.wage = 0
<1>1. CASE r = ERROR
  BY ZenonT(30), <1>1 DEF ssl_write
<1>2. CASE r \in {AGAIN, PIPE}
  <2>1. \E f \in BOOLEAN : w = [Refused(b) EXCEPT !.pollout = f]
    <3>1. CASE r = AGAIN
      <4>1. w = [Refused(b) EXCEPT !.pollout = TRUE]
        BY SMTT(30), <3>1 DEF ssl_write, WANT_READ, AGAIN, PIPE, ERROR
      <4>2. QED
        BY ZenonT(30), <4>1
    <3>2. CASE r = PIPE
      <4>1. w = [Refused(b) EXCEPT !.pollout = FALSE]
        BY SMTT(30), <3>2 DEF ssl_write, WANT_READ, AGAIN, PIPE, ERROR
      <4>2. QED
        BY ZenonT(30), <4>1
    <3>3. QED
      BY ZenonT(30), <1>2, <3>1, <3>2
  <2>2. Same(Refused(b), w)
    BY ZenonT(30), <2>1, RefusedInBuffer, PolloutSame
  <2>3. QED
    BY ZenonT(30), <2>2, PassedRefused
<1>3. CASE r \in 1..Queued(b)
  <2> DEFINE t == TakeTimed(b, r)
  <2>1. w = IF t.obuf_start >= t.obuf_end THEN [Emptied(t) EXCEPT !.pollout = FALSE]
            ELSE [t EXCEPT !.pollout = TRUE]
    BY SMTT(30), <1>3 DEF ssl_write, WANT_READ, AGAIN, PIPE, ERROR
  <2>2. r \in 0..Queued(b)
    BY SMTT(30), <1>3
  <2>3. InBuffer(t)
    BY ZenonT(30), <2>2, TakeTimedEffect
  <2> HIDE DEF t
  <2>4. t.obuf_start \in Nat /\ t.obuf_end \in Nat /\ t.obuf_start <= t.obuf_end
    BY ZenonT(30), <2>3, Fields DEF InBuffer
  <2>5. ASSUME t.obuf_start >= t.obuf_end
        PROVE  Same(t, w)
    <3>1. Queued(t) = 0
      BY SMTT(30), <2>4, <2>5 DEF Queued
    <3>2. Same(t, Emptied(t))
      BY ZenonT(30), <2>3, <3>1, EmptiedSame
    <3>3. InBuffer(Emptied(t))
      BY ZenonT(30), <3>2 DEF Same
    <3>4. Same(Emptied(t), w)
      BY ZenonT(30), <2>1, <2>5, <3>3, PolloutSame
    <3>5. QED
      BY ZenonT(30), <3>2, <3>4, SameTransitive
  <2>6. ASSUME ~(t.obuf_start >= t.obuf_end)
        PROVE  Same(t, w)
    BY ZenonT(30), <2>1, <2>3, <2>6, PolloutSame
  <2>7. Same(TakeTimed(b, r), w)
    BY ZenonT(30), <2>5, <2>6 DEF t
  <2>8. QED
    BY ZenonT(30), <2>2, <2>7, PassedTimed
<1>4. QED
  BY ZenonT(30), <1>1, <1>2, <1>3 DEF Answer

(* ssl_client_write; a keepalive is not buffered. *)
LEMMA TlsWrote ==
    ASSUME NEW x, InBuffer(x), x.wire = <<>>, Open(x), NEW p \in Seq(Byte),
           NEW r \in Answer(Queued(x) + Len(p)), NEW w, w = ssl_client_write(x, p, r)
    PROVE  /\ Wrote(x, p, w)
           /\ p = Ping /\ x.obuf_flushsize = 0 /\ Open(w) => w.refused \/ w.wage = 0
<1> DEFINE z == Counted(x)
           b == Buffer(z, p)
<1>1. x \in Client
  BY ZenonT(30) DEF InBuffer
<1>2. CASE ~Fits(x, Len(p))
  <2>1. w = client_close(x, "full")
    BY ZenonT(30), <1>2 DEF ssl_client_write
  <2>2. QED
    BY ZenonT(30), <1>1, <2>1, WroteClosed
<1>3. CASE Fits(x, Len(p))
  <2>1. /\ InBuffer(b) /\ Rest(x, b) /\ Timed(x, b) /\ b.wire = <<>>
        /\ Bytes(b) = Bytes(x) \o p /\ Queued(b) = Queued(x) + Len(p)
        /\ b.obuf_flushsize = x.obuf_flushsize
    BY SMTT(30), <1>3, CountedBuffer
  <2>2. w = IF MustFlush(b, Len(p)) THEN ssl_write(b, r) ELSE [b EXCEPT !.pollout = TRUE]
    BY ZenonT(30), <1>3 DEF ssl_client_write
  <2> HIDE DEF b
  <2>3. CASE ~MustFlush(b, Len(p))
    <3>1. Same(b, w)
      BY ZenonT(30), <2>1, <2>2, <2>3, PolloutSame
    <3>2. InBuffer(w) /\ Rest(b, w) /\ Renewed(b, w) /\ Passed(Bytes(b), w)
      BY ZenonT(30), <2>1, <3>1, PassedSame
    <3>3. Wrote(x, p, w)
      BY ZenonT(30), <2>1, <3>2, WroteOn
    <3>4. ~(p = Ping /\ x.obuf_flushsize = 0)
      <4>1. b.obuf_start \in Nat /\ b.obuf_end \in Nat /\ Queued(x) \in Nat
        BY ZenonT(30), <2>1, Fields, BytesSeq DEF InBuffer
      <4>2. ASSUME p = Ping
            PROVE  Len(p) > 0
        BY SMTT(30), <4>2, OutputAssumption DEF Lines
      <4>3. QED
        BY SMTT(30), <2>1, <2>3, <4>1, <4>2 DEF MustFlush, Queued
    <3>5. QED
      BY ZenonT(30), <3>3, <3>4
  <2>4. CASE MustFlush(b, Len(p))
    <3>1. w = ssl_write(b, r) /\ r \in Answer(Queued(b))
      BY ZenonT(30), <2>1, <2>2, <2>4
    <3>2. CASE w = client_close(b, "error")
      <4>1. b \in Client
        BY ZenonT(30), <2>1 DEF InBuffer
      <4>2. QED
        BY ZenonT(30), <3>2, <4>1, WroteClosed
    <3>3. CASE /\ InBuffer(w) /\ Rest(b, w) /\ Renewed(b, w) /\ Passed(Bytes(b), w)
               /\ w.refused \/ w.wage = 0
      BY ZenonT(30), <2>1, <3>3, WroteOn
    <3>4. QED
      BY ZenonT(30), <2>1, <3>1, <3>2, <3>3, SslWriteEffect
  <2>5. QED
    BY ZenonT(30), <2>3, <2>4
<1>4. QED
  BY ZenonT(30), <1>2, <1>3

(* sctp_client_write: the whole buffer is sent, or nothing; a flush of     *)
(* what waits is always sent.                                              *)
LEMMA SctpWrote ==
    ASSUME NEW x, InBuffer(x), x.wire = <<>>, Open(x), NEW p \in Seq(Byte),
           NEW r \in Answer(Queued(x) + Len(p)), NEW w, w = sctp_client_write(x, p, r)
    PROVE  /\ Wrote(x, p, w)
           /\ Open(w) => \/ w.wage = 0
                         \/ Queued(w) = Queued(x) + Len(p) /\ ~(p = <<>> /\ Queued(x) > 0)
<1> DEFINE z == SctpCounted(x)
           b == IF p = <<>> THEN x ELSE Buffer(z, p)
           s == IF MustFlush(b, Len(p)) THEN TakeTimed(b, Queued(b)) ELSE b
<1>1. x \in Client /\ Queued(x) \in Nat /\ Len(p) \in Nat
  BY SMTT(30), BytesSeq DEF InBuffer
<1>2. CASE ~Fits(x, Len(p))
  <2>1. w = client_close(x, "full")
    BY ZenonT(30), <1>2 DEF sctp_client_write
  <2>2. QED
    BY ZenonT(30), <1>1, <2>1, WroteClosed
<1>3. CASE Fits(x, Len(p)) /\ MustFlush(b, Len(p)) /\ r # Queued(b)
  <2>1. w = client_close(x, "error")
    BY ZenonT(30), <1>3 DEF sctp_client_write
  <2>2. QED
    BY ZenonT(30), <1>1, <2>1, WroteClosed
<1>4. CASE Fits(x, Len(p)) /\ ~(MustFlush(b, Len(p)) /\ r # Queued(b))
  <2>1. w = IF s.obuf_start >= s.obuf_end THEN Emptied(s) ELSE s
    BY ZenonT(30), <1>4 DEF sctp_client_write
  <2>2. /\ InBuffer(b) /\ Rest(x, b) /\ Timed(x, b) /\ b.wire = <<>>
        /\ Bytes(b) = Bytes(x) \o p /\ Queued(b) = Queued(x) + Len(p)
    <3>1. CASE p = <<>>
      <4>1. Bytes(x) \in Seq(Byte) /\ b = x
        BY ZenonT(30), <3>1, BytesSeq
      <4>2. Bytes(x) = Bytes(x) \o <<>> /\ Queued(x) = Queued(x) + 0
        BY SMTT(30), <1>1, <4>1
      <4>3. QED
        BY ZenonT(30), <3>1, <4>1, <4>2 DEF Rest, Timed
    <3>2. CASE p # <<>>
      BY SMTT(30), <1>4, <3>2, CountedBuffer
    <3>3. QED
      BY ZenonT(30), <3>1, <3>2
  <2> HIDE DEF b
  <2>3. ASSUME InBuffer(s)
        PROVE  Same(s, w)
    <3> HIDE DEF s
    <3>1. s.obuf_start \in Nat /\ s.obuf_end \in Nat /\ s.obuf_start <= s.obuf_end
      BY ZenonT(30), <2>3, Fields DEF InBuffer
    <3>2. CASE s.obuf_start >= s.obuf_end
      <4>1. Queued(s) = 0
        BY SMTT(30), <3>1, <3>2 DEF Queued
      <4>2. QED
        BY ZenonT(30), <2>1, <2>3, <3>2, <4>1, EmptiedSame
    <3>3. CASE ~(s.obuf_start >= s.obuf_end)
      BY ZenonT(30), <2>1, <2>3, <3>3, SameSelf
    <3>4. QED
      BY ZenonT(30), <3>2, <3>3
  <2>4. CASE MustFlush(b, Len(p))
    <3>1. s = TakeTimed(b, Queued(b)) /\ Queued(b) \in 0..Queued(b)
      BY SMTT(30), <1>1, <2>2, <2>4
    <3> HIDE DEF s
    <3>2. InBuffer(s)
      BY ZenonT(30), <2>2, <3>1, TakeTimedEffect
    <3>3. Same(TakeTimed(b, Queued(b)), w)
      BY ZenonT(30), <2>3, <3>1, <3>2
    <3>4. InBuffer(w) /\ Rest(b, w) /\ Renewed(b, w) /\ Passed(Bytes(b), w) /\ w.wage = 0
      BY ZenonT(30), <2>2, <3>1, <3>3, PassedTimed
    <3>5. QED
      BY ZenonT(30), <2>2, <3>4, WroteOn
  <2>5. CASE ~MustFlush(b, Len(p))
    <3>1. s = b
      BY ZenonT(30), <2>5
    <3>2. Same(b, w)
      BY ZenonT(30), <2>2, <2>3, <3>1
    <3>3. InBuffer(w) /\ Rest(b, w) /\ Renewed(b, w) /\ Passed(Bytes(b), w)
      BY ZenonT(30), <2>2, <3>2, PassedSame
    <3>4. Wrote(x, p, w)
      BY ZenonT(30), <2>2, <3>3, WroteOn
    <3>5. Queued(w) = Queued(b)
      BY ZenonT(30), <2>2, <3>2, BytesSeq DEF Same
    <3>6. ~(p = <<>> /\ Queued(x) > 0)
      <4>1. b.obuf_start \in Nat /\ b.obuf_end \in Nat
        BY ZenonT(30), <2>2, Fields DEF InBuffer
      <4>2. QED
        BY SMTT(30), <1>1, <2>2, <2>5, <4>1 DEF MustFlush, Queued
    <3>7. QED
      BY ZenonT(30), <2>2, <3>4, <3>5, <3>6
  <2>6. QED
    BY ZenonT(30), <2>4, <2>5
<1>5. QED
  BY ZenonT(30), <1>2, <1>3, <1>4

(* c->write, whatever the protocol. *)
LEMMA WriteEffect ==
    ASSUME NEW x, InBuffer(x), x.wire = <<>>, Open(x), NEW p \in Seq(Byte),
           NEW r \in Answer(Queued(x) + Len(p)), NEW w, w = Write(x, p, r)
    PROVE  /\ Wrote(x, p, w)
           /\ x.proto # "sctp" /\ p = Ping /\ x.obuf_flushsize = 0 /\ Open(w)
                => w.refused \/ w.wage = 0
           /\ x.proto = "sctp" /\ Open(w)
                => \/ w.wage = 0
                   \/ Queued(w) = Queued(x) + Len(p) /\ ~(p = <<>> /\ Queued(x) > 0)
<1>1. x.proto \in {"tcp", "tls", "sctp"}
  BY ZenonT(30), Fields DEF InBuffer, Protocol
<1>2. CASE x.proto = "tcp"
  <2>1. w = tcp_client_write(x, p, r)
    BY ZenonT(30), <1>2 DEF Write
  <2>2. QED
    BY ZenonT(30), <1>2, <2>1, TcpWrote
<1>3. CASE x.proto = "tls"
  <2>1. w = ssl_client_write(x, p, r)
    BY ZenonT(30), <1>3 DEF Write
  <2>2. QED
    BY ZenonT(30), <1>3, <2>1, TlsWrote
<1>4. CASE x.proto = "sctp"
  <2>1. w = sctp_client_write(x, p, r)
    BY ZenonT(30), <1>4 DEF Write
  <2>2. QED
    BY ZenonT(30), <1>4, <2>1, SctpWrote
<1>5. QED
  BY ZenonT(30), <1>1, <1>2, <1>3, <1>4
-----------------------------------------------------------------------------
(***************************************************************************)
(* The inductive invariant.  The time of the last timed write is bounded   *)
(* through the time that is left to the next keepalive: the keepalive      *)
(* renews it, unless the socket refuses.  Only SCTP may put a keepalive    *)
(* into the buffer, and then the next round sends it.                      *)
(***************************************************************************)
Healthy(x, l) ==
    IF Open(x)
    THEN /\ x.why = "none" /\ x.kleft <= keepalive_interval
         /\ \/ x.refused
            \/ x.kleft > 0 /\ x.wage + x.kleft <= keepalive_interval
            \/ x.kleft = 0 /\ x.wage <= keepalive_interval + (KEEPALIVE_POLL_FREQ - l)
            \/ /\ x.proto = "sctp" /\ Queued(x) > 0
               /\ x.kleft >= keepalive_interval - (KEEPALIVE_POLL_FREQ - l)
    ELSE x.why = "stuck" => x.refused

(* Every limit, with the time since the last round. *)
Timely(x, l) ==
    Open(x) =>
      /\ x.wage <= sock_write_expire + (KEEPALIVE_POLL_FREQ - l)
      /\ x.inport /\ x.state = "login" =>
           x.cage <= client_login_timeout + (IF x.upgraded THEN KEEPALIVE_POLL_FREQ ELSE 0)
                       + (KEEPALIVE_POLL_FREQ - l)
      /\ ~(x.inport /\ x.state = "login") =>
           x.rage <= InputLimit(x) + (KEEPALIVE_POLL_FREQ - l)

InOrder(x, l) == InBuffer(x) /\ l \in 0..KEEPALIVE_POLL_FREQ /\ Healthy(x, l) /\ Timely(x, l)

(* What the stream sees of a step from x to w. *)
Streamed(x, w) ==
    IF Open(w) THEN \E line \in Lines \cup {<<>>} : Passed(Bytes(x) \o line, w)
    ELSE w.wire = <<>> /\ Bytes(w) = <<>>

(* The assumptions on the periods. *)
LEMMA Periods ==
    /\ keepalive_interval \in Nat /\ KEEPALIVE_POLL_FREQ \in Nat /\ sock_write_expire \in Nat
    /\ 0 < KEEPALIVE_POLL_FREQ /\ KEEPALIVE_POLL_FREQ < keepalive_interval
    /\ keepalive_interval + KEEPALIVE_POLL_FREQ <= sock_write_expire
    /\ client_login_timeout \in Nat /\ client_timeout \in Nat /\ upstream_timeout \in Nat
    /\ obuf_size \in Nat
BY SMTT(30), OutputAssumption

(* A step that counts no time keeps the invariant. *)
LEMMA TimesKept ==
    ASSUME NEW x, NEW w, NEW l, InOrder(x, l), Open(x), InBuffer(w), Rest(x, w), Renewed(x, w),
           x.proto = "sctp" => w.wage = 0 \/ Queued(w) >= Queued(x)
    PROVE  InOrder(w, l) /\ Open(w)
<1>1. /\ x.wage \in Nat /\ x.kleft \in Nat /\ x.rage \in Nat /\ x.cage \in Nat
      /\ w.wage \in Nat /\ Queued(x) \in Nat /\ Queued(w) \in Nat
      /\ l \in 0..KEEPALIVE_POLL_FREQ
  BY ZenonT(30), Fields, BytesSeq DEF InOrder, InBuffer
<1>2. Healthy(x, l) /\ Timely(x, l)
  BY ZenonT(30) DEF InOrder
<1>3. /\ w.proto = x.proto /\ w.inport = x.inport /\ w.state = x.state /\ w.why = x.why
      /\ w.kleft = x.kleft /\ w.rage = x.rage /\ w.cage = x.cage /\ w.upgraded = x.upgraded
  BY ZenonT(30) DEF Rest
<1>4. Open(w)
  BY ZenonT(30), <1>3 DEF Open
<1>5. Healthy(w, l)
  BY SMTT(30), <1>1, <1>2, <1>3, <1>4, Periods DEF Healthy, Renewed
<1>6. Timely(w, l)
  <2>1. w.wage <= sock_write_expire + (KEEPALIVE_POLL_FREQ - l)
    BY SMTT(30), <1>1, <1>2, Periods DEF Timely, Renewed
  <2>2. InputLimit(w) = InputLimit(x)
    BY ZenonT(30), <1>3 DEF InputLimit
  <2>3. QED
    BY ZenonT(30), <1>2, <1>3, <2>1, <2>2 DEF Timely
<1>7. QED
  BY ZenonT(30), <1>1, <1>4, <1>5, <1>6 DEF InOrder

(* A closed client needs nothing more. *)
LEMMA ClosedInOrder ==
    ASSUME NEW x, InBuffer(x), NEW l \in 0..KEEPALIVE_POLL_FREQ, NEW cause, cause \in Reason,
           cause = "stuck" => x.refused, NEW w, w = client_close(x, cause), NEW y
    PROVE  InOrder(w, l) /\ ~Open(w) /\ Streamed(y, w)
<1>1. x \in Client
  BY ZenonT(30) DEF InBuffer
<1>2. /\ InBuffer(w) /\ w.state = "closed" /\ w.why = cause
      /\ w.refused = x.refused /\ w.wire = <<>> /\ Bytes(w) = <<>>
  BY SMTT(30), <1>1, CloseEffect
<1>3. ~Open(w)
  BY ZenonT(30), <1>2 DEF Open
<1>4. Healthy(w, l) /\ Timely(w, l) /\ Streamed(y, w)
  BY ZenonT(30), <1>2, <1>3 DEF Healthy, Timely, Streamed
<1>5. QED
  BY ZenonT(30), <1>2, <1>3, <1>4 DEF InOrder

(* The causes of the closes. *)
LEMMA Reasons ==
    {"none", "full", "error", "eof", "upgrade", "silent", "stuck"} = Reason
BY ZenonT(30) DEF Reason

(* Every step starts with no bytes passed on. *)
LEMMA QuietEffect ==
    ASSUME NEW x, InBuffer(x), NEW y, y = Quiet(x)
    PROVE  /\ InBuffer(y) /\ Rest(x, y) /\ Timed(x, y) /\ Stored(x, y) /\ y.wire = <<>>
           /\ Bytes(y) = Bytes(x) /\ Queued(y) = Queued(x)
           /\ y.obuf_flushsize = x.obuf_flushsize
<1>1. x \in Client /\ <<>> \in Seq(Byte)
  BY SMTT(30) DEF InBuffer
<1>2. y \in Client
  BY ZenonT(30), <1>1 DEF Quiet, Client
<1>3. /\ Rest(x, y) /\ Timed(x, y) /\ Stored(x, y) /\ y.wire = <<>>
      /\ y.obuf_flushsize = x.obuf_flushsize
  BY ZenonT(30), <1>1 DEF Quiet, Rest, Timed, Stored, Client
<1>4. InBuffer(y) /\ Bytes(y) = Bytes(x) /\ Queued(y) = Queued(x)
  BY ZenonT(30), <1>2, <1>3 DEF InBuffer, Stored, Bytes, Queued
<1>5. QED
  BY ZenonT(30), <1>3, <1>4

(* The quiet client is in order as well. *)
LEMMA QuietInOrder ==
    ASSUME NEW x, NEW l, InOrder(x, l), Open(x), NEW y, y = Quiet(x)
    PROVE  /\ InOrder(y, l) /\ Open(y) /\ InBuffer(y) /\ y.wire = <<>>
           /\ Bytes(y) = Bytes(x) /\ Queued(y) = Queued(x)
<1>1. InBuffer(x)
  BY ZenonT(30) DEF InOrder
<1>2. /\ InBuffer(y) /\ Rest(x, y) /\ Timed(x, y) /\ y.wire = <<>>
      /\ Bytes(y) = Bytes(x) /\ Queued(y) = Queued(x)
  BY ZenonT(30), <1>1, QuietEffect
<1>3. Renewed(x, y) /\ Queued(y) >= Queued(x)
  BY SMTT(30), <1>1, <1>2, BytesSeq DEF Timed, Renewed
<1>4. InOrder(y, l) /\ Open(y)
  BY ZenonT(30), <1>2, <1>3, TimesKept
<1>5. QED
  BY ZenonT(30), <1>2, <1>4

(* Nothing but the bytes passed on changes in the stream. *)
LEMMA StreamedPassed ==
    ASSUME NEW x, InBuffer(x), NEW w, Open(w), Passed(Bytes(x), w)
    PROVE  Streamed(x, w)
<1>1. Bytes(x) \in Seq(Byte)
  BY ZenonT(30), BytesSeq
<1>2. Bytes(x) \o <<>> = Bytes(x)
  BY SMTT(30), <1>1
<1>3. <<>> \in Lines \cup {<<>>}
  BY ZenonT(30)
<1>4. QED
  BY ZenonT(30), <1>2, <1>3 DEF Streamed

(* A write is a step of the stream. *)
LEMMA StreamedWrote ==
    ASSUME NEW x, InBuffer(x), NEW p \in Lines \cup {<<>>}, NEW w, Wrote(x, p, w)
    PROVE  Streamed(x, w)
<1>1. CASE Open(w) /\ Passed(Bytes(x) \o p, w)
  BY ZenonT(30), <1>1 DEF Streamed
<1>2. CASE Open(w) /\ Passed(Bytes(x), w)
  BY ZenonT(30), <1>2, StreamedPassed
<1>3. CASE ~Open(w)
  BY ZenonT(30), <1>3 DEF Streamed, Wrote
<1>4. QED
  BY ZenonT(30), <1>1, <1>2, <1>3 DEF Wrote
-----------------------------------------------------------------------------
(***************************************************************************)
(* The steps.                                                              *)
(***************************************************************************)

(* A write keeps the invariant. *)
LEMMA WroteInOrder ==
    ASSUME NEW x, NEW l, InOrder(x, l), Open(x), NEW p \in Seq(Byte), NEW w, Wrote(x, p, w),
           x.proto = "sctp" /\ Open(w) => w.wage = 0 \/ Queued(w) = Queued(x) + Len(p)
    PROVE  InOrder(w, l)
<1>1. InBuffer(x) /\ InBuffer(w) /\ l \in 0..KEEPALIVE_POLL_FREQ
  BY ZenonT(30) DEF InOrder, Wrote
<1>2. CASE Open(w)
  <2>1. Rest(x, w) /\ Renewed(x, w)
    BY ZenonT(30), <1>2 DEF Wrote
  <2>2. Queued(x) \in Nat /\ Len(p) \in Nat
    BY SMTT(30), <1>1, BytesSeq
  <2>3. x.proto = "sctp" => w.wage = 0 \/ Queued(w) >= Queued(x)
    BY SMTT(30), <1>2, <2>2
  <2>4. QED
    BY ZenonT(30), <1>1, <2>1, <2>3, TimesKept
<1>3. CASE ~Open(w)
  <2>1. w.why = "error" \/ w.why = "full"
    BY ZenonT(30), <1>3 DEF Wrote
  <2>2. Healthy(w, l) /\ Timely(w, l)
    BY ZenonT(30), <1>3, <2>1 DEF Healthy, Timely
  <2>3. QED
    BY ZenonT(30), <1>1, <2>2 DEF InOrder
<1>4. QED
  BY ZenonT(30), <1>2, <1>3

(* What is streamed depends on the bytes that waited. *)
LEMMA StreamedFrom ==
    ASSUME NEW x, NEW y, Bytes(y) = Bytes(x), NEW w, Streamed(y, w)
    PROVE  Streamed(x, w)
BY ZenonT(30) DEF Streamed

(* The lines are sequences of bytes. *)
LEMMA LineTypes ==
    /\ \A p \in Lines \cup {<<>>} : p \in Seq(Byte)
    /\ Ping \in Lines /\ Len(Ping) \in Nat /\ Len(Ping) > 0
<1>1. Line \subseteq Seq(Byte) /\ Ping \in Seq(Byte) /\ Ping # <<>>
  BY ZenonT(30), OutputAssumption DEF Lines
<1>2. ASSUME NEW p \in Lines \cup {<<>>}
      PROVE  p \in Seq(Byte)
  <2>1. p \in Line \/ p = Ping \/ p = <<>>
    BY ZenonT(30) DEF Lines
  <2>2. <<>> \in Seq(Byte)
    BY SMTT(30)
  <2>3. QED
    BY ZenonT(30), <1>1, <2>1, <2>2
<1>3. Ping \in Lines
  BY ZenonT(30) DEF Lines
<1>4. Len(Ping) \in Nat /\ Len(Ping) > 0
  BY SMTT(30), <1>1
<1>5. QED
  BY ZenonT(30), <1>2, <1>3, <1>4

(* Send *)
LEMMA SendStep ==
    ASSUME InOrder(c, rleft), Send
    PROVE  Open(c) /\ InOrder(c', rleft') /\ Streamed(c, c')
<1> DEFINE x == Quiet(c)
<1>1. Open(c) /\ rleft' = rleft
  BY ZenonT(30) DEF Send
<1>2. PICK p \in Line : \E r \in Answer(Offered(c, p)) : c' = Write(x, p, r)
  BY ZenonT(30) DEF Send
<1>3. PICK r \in Answer(Offered(c, p)) : c' = Write(x, p, r)
  BY ZenonT(30), <1>2
<1>4. p \in Lines \cup {<<>>} /\ p \in Seq(Byte)
  BY ZenonT(30), LineTypes DEF Lines
<1>5. /\ InOrder(x, rleft) /\ Open(x) /\ InBuffer(x) /\ x.wire = <<>>
      /\ Bytes(x) = Bytes(c) /\ Queued(x) = Queued(c)
  BY ZenonT(30), <1>1, QuietInOrder
<1> HIDE DEF x
<1>6. r \in Answer(Queued(x) + Len(p))
  BY ZenonT(30), <1>5 DEF Offered
<1>7. /\ Wrote(x, p, c')
      /\ x.proto = "sctp" /\ Open(c') => c'.wage = 0 \/ Queued(c') = Queued(x) + Len(p)
  BY ZenonT(30), <1>3, <1>4, <1>5, <1>6, WriteEffect
<1>8. InOrder(c', rleft)
  BY ZenonT(30), <1>4, <1>5, <1>7, WroteInOrder
<1>9. Streamed(c, c')
  BY ZenonT(30), <1>4, <1>5, <1>7, StreamedWrote, StreamedFrom
<1>10. QED
  BY ZenonT(30), <1>1, <1>8, <1>9

(* A part of the client that neither the stream nor the clock sees. *)
LEMMA BufferingEffect ==
    ASSUME NEW x, InBuffer(x), NEW n \in Nat, NEW m \in Nat, NEW y,
           y = [x EXCEPT !.obuf_flushsize = n, !.obuf_writes = m] \/ y = [x EXCEPT !.obuf_flushsize = n]
    PROVE  Same(x, y)
<1>1. x \in Client
  BY ZenonT(30) DEF InBuffer
<1>2. y \in Client
  <2>1. CASE y = [x EXCEPT !.obuf_flushsize = n, !.obuf_writes = m]
    BY ZenonT(30), <1>1, <2>1 DEF Client
  <2>2. CASE y = [x EXCEPT !.obuf_flushsize = n]
    BY ZenonT(30), <1>1, <2>2 DEF Client
  <2>3. QED
    BY ZenonT(30), <2>1, <2>2
<1>3. Rest(x, y) /\ Timed(x, y) /\ Stored(x, y) /\ y.wire = x.wire
  BY ZenonT(30), <1>1 DEF Rest, Timed, Stored, Client
<1>4. QED
  BY ZenonT(30), <1>2, <1>3, StoredSame

(* The keepalive, at a round: what is known of the age afterwards. *)
Kept(k) ==
    /\ k.why = "none" /\ k.kleft \in 1..keepalive_interval
    /\ \/ k.refused
       \/ k.wage + k.kleft <= keepalive_interval
       \/ /\ k.proto = "sctp" /\ Queued(k) > 0 /\ k.kleft = keepalive_interval
          /\ k.wage <= keepalive_interval + KEEPALIVE_POLL_FREQ

(* The end of a round. *)
LEMMA RoundEnd ==
    ASSUME NEW y, NEW k, InBuffer(k), Open(k), Kept(k), Streamed(y, k), NEW w,
           w = (IF ~Open(k) THEN k
                ELSE IF InputTimeout(k) THEN client_close(k, "silent")
                ELSE IF WriteTimeout(k) THEN client_close(k, "stuck")
                ELSE AdjustBuffering(k))
    PROVE  InOrder(w, KEEPALIVE_POLL_FREQ) /\ Streamed(y, w)
<1> DEFINE l == KEEPALIVE_POLL_FREQ
<1>1. /\ k \in Client /\ k.wage \in Nat /\ k.kleft \in Nat /\ k.rage \in Nat /\ k.cage \in Nat
      /\ k.obuf_flushsize \in Nat /\ k.upgraded \in BOOLEAN /\ Queued(k) \in Nat
  BY ZenonT(30), Fields, BytesSeq DEF InBuffer
<1>2. l \in 0..KEEPALIVE_POLL_FREQ
  BY SMTT(30), Periods
<1>3. CASE InputTimeout(k)
  <2>1. w = client_close(k, "silent") /\ "silent" \in Reason
    BY ZenonT(30), <1>3, Reasons
  <2>2. QED
    BY ZenonT(30), <1>2, <2>1, ClosedInOrder
<1>4. CASE ~InputTimeout(k) /\ WriteTimeout(k)
  <2>1. w = client_close(k, "stuck") /\ "stuck" \in Reason
    BY ZenonT(30), <1>4, Reasons
  <2>2. k.refused
    BY SMTT(30), <1>1, <1>4, Periods DEF Kept, WriteTimeout
  <2>3. QED
    BY ZenonT(30), <1>2, <2>1, <2>2, ClosedInOrder
<1>5. CASE ~InputTimeout(k) /\ ~WriteTimeout(k)
  <2> DEFINE flush == IF k.obuf_writes > obuf_writes_threshold
                      THEN IF k.obuf_flushsize = 0 THEN obuf_size \div 2 ELSE k.obuf_flushsize
                      ELSE IF k.obuf_writes < obuf_writes_threshold_hys THEN 0
                      ELSE k.obuf_flushsize
  <2>1. w = [k EXCEPT !.obuf_flushsize = flush, !.obuf_writes = 0]
    BY ZenonT(30), <1>5 DEF AdjustBuffering
  <2>2. flush \in Nat /\ 0 \in Nat
    BY SMTT(30), <1>1, Periods
  <2> HIDE DEF flush
  <2>3. Same(k, w)
    BY ZenonT(30), <2>1, <2>2, BufferingEffect
  <2>4. /\ InBuffer(w) /\ Rest(k, w) /\ w.wage = k.wage /\ w.refused = k.refused
        /\ w.wire = k.wire /\ Bytes(w) = Bytes(k)
    BY ZenonT(30), <2>3 DEF Same, Timed
  <2>5. Queued(w) = Queued(k)
    BY ZenonT(30), <2>4, BytesSeq
  <2>6. Open(w)
    BY ZenonT(30), <2>4 DEF Rest, Open
  <2>7. Streamed(y, w)
    BY ZenonT(30), <2>4, <2>6 DEF Streamed, Passed
  <2>8. Healthy(w, l)
    BY SMTT(30), <1>1, <2>4, <2>5, <2>6, Periods DEF Healthy, Kept, Rest
  <2>9. Timely(w, l)
    <3>1. w.wage <= sock_write_expire
      BY SMTT(30), <1>1, <1>5, <2>4, Periods DEF WriteTimeout
    <3>2. k.inport /\ k.state = "login" => k.cage <= client_login_timeout
      BY SMTT(30), <1>1, <1>5, Periods DEF InputTimeout
    <3>3. ~(k.inport /\ k.state = "login") => k.rage <= InputLimit(k)
      BY SMTT(30), <1>1, <1>5, Periods DEF InputTimeout, InputLimit
    <3>4. /\ w.inport = k.inport /\ w.state = k.state /\ w.cage = k.cage /\ w.rage = k.rage
          /\ w.upgraded = k.upgraded
      BY ZenonT(30), <2>4 DEF Rest
    <3>5. InputLimit(w) = InputLimit(k) /\ InputLimit(k) \in Nat
      BY ZenonT(30), <3>4, Periods DEF InputLimit
    <3>6. QED
      BY SMTT(30), <1>1, <3>1, <3>2, <3>3, <3>4, <3>5, Periods DEF Timely
  <2>10. QED
    BY ZenonT(30), <1>2, <2>4, <2>7, <2>8, <2>9 DEF InOrder
<1>6. QED
  BY ZenonT(30), <1>3, <1>4, <1>5

(* The client to which a keepalive is written. *)
LEMMA DueEffect ==
    ASSUME NEW x, InBuffer(x), NEW y,
           y = [x EXCEPT !.kleft = keepalive_interval, !.obuf_flushsize = 0]
    PROVE  /\ InBuffer(y) /\ Timed(x, y) /\ y.wire = x.wire /\ Bytes(y) = Bytes(x)
           /\ Queued(y) = Queued(x) /\ y.proto = x.proto /\ y.state = x.state /\ y.why = x.why
           /\ y.kleft = keepalive_interval /\ y.obuf_flushsize = 0
<1>1. x \in Client /\ keepalive_interval \in Nat /\ 0 \in Nat
  BY ZenonT(30), Periods DEF InBuffer
<1>2. y \in Client
  BY ZenonT(30), <1>1 DEF Client
<1>3. /\ Stored(x, y) /\ Timed(x, y) /\ y.wire = x.wire /\ y.proto = x.proto
      /\ y.state = x.state /\ y.why = x.why
      /\ y.kleft = keepalive_interval /\ y.obuf_flushsize = 0
  BY ZenonT(30), <1>1 DEF Stored, Timed, Client
<1>4. InBuffer(y) /\ Bytes(y) = Bytes(x) /\ Queued(y) = Queued(x)
  BY SMTT(30), <1>2, <1>3 DEF InBuffer, Stored, Bytes, Queued
<1>5. QED
  BY ZenonT(30), <1>3, <1>4

(* A keepalive is due: it is written, past the buffering. *)
LEMMA PingKept ==
    ASSUME NEW x, InOrder(x, 0), Open(x), x.wire = <<>>, x.kleft = 0,
           NEW r \in Answer(Queued(x) + Len(Ping)), NEW k, k = Keepalive(x, r)
    PROVE  /\ InBuffer(k) /\ Streamed(x, k)
           /\ IF Open(k) THEN Kept(k) ELSE k.why # "stuck"
<1> DEFINE y == [x EXCEPT !.kleft = keepalive_interval, !.obuf_flushsize = 0]
           w == Write(y, Ping, r)
<1>1. InBuffer(x) /\ x.obuf_flushsize \in Nat /\ x.wage \in Nat /\ Healthy(x, 0)
  BY ZenonT(30), Fields DEF InOrder, InBuffer
<1>2. /\ InBuffer(y) /\ Timed(x, y) /\ y.wire = <<>> /\ Bytes(y) = Bytes(x)
      /\ Queued(y) = Queued(x) /\ y.proto = x.proto /\ y.state = x.state /\ y.why = x.why
      /\ y.kleft = keepalive_interval /\ y.obuf_flushsize = 0
  BY ZenonT(30), <1>1, DueEffect
<1>3. k = IF Open(w) THEN [w EXCEPT !.obuf_flushsize = x.obuf_flushsize] ELSE w
  BY SMTT(30) DEF Keepalive
<1> HIDE DEF y
<1>4. Open(y) /\ Ping \in Seq(Byte) /\ r \in Answer(Queued(y) + Len(Ping))
  BY ZenonT(30), <1>2, LineTypes DEF Open
<1>5. /\ Wrote(y, Ping, w)
      /\ y.proto # "sctp" /\ Open(w) => w.refused \/ w.wage = 0
      /\ y.proto = "sctp" /\ Open(w) => w.wage = 0 \/ Queued(w) = Queued(y) + Len(Ping)
  BY ZenonT(30), <1>2, <1>4, WriteEffect
<1> HIDE DEF w
<1>6. InBuffer(w) /\ Streamed(y, w)
  BY ZenonT(30), <1>2, <1>5, LineTypes, StreamedWrote DEF Wrote
<1>7. CASE ~Open(w)
  <2>1. k = w
    BY ZenonT(30), <1>3, <1>7
  <2>2. w.why # "stuck"
    BY ZenonT(30), <1>5, <1>7 DEF Wrote
  <2>3. QED
    BY ZenonT(30), <1>2, <1>6, <1>7, <2>1, <2>2, StreamedFrom
<1>8. CASE Open(w)
  <2>1. Same(w, k)
    BY ZenonT(30), <1>1, <1>3, <1>6, <1>8, BufferingEffect
  <2>2. /\ InBuffer(k) /\ Rest(w, k) /\ k.wage = w.wage /\ k.refused = w.refused
        /\ k.wire = w.wire /\ Bytes(k) = Bytes(w)
    BY ZenonT(30), <2>1 DEF Same, Timed
  <2>3. Queued(k) = Queued(w) /\ Queued(y) \in Nat /\ k.wage \in Nat
    BY ZenonT(30), <1>2, <1>6, <2>2, BytesSeq, Fields DEF InBuffer
  <2>4. Open(k)
    BY ZenonT(30), <1>8, <2>2 DEF Rest, Open
  <2>5. Streamed(x, k)
    <3>1. Streamed(x, w)
      BY ZenonT(30), <1>2, <1>6, StreamedFrom
    <3>2. QED
      BY ZenonT(30), <1>8, <2>2, <2>4, <3>1 DEF Streamed, Passed
  <2>6. /\ k.kleft = keepalive_interval /\ k.proto = y.proto /\ k.why = x.why
        /\ w.wage = 0 \/ (w.wage = x.wage /\ (x.refused => w.refused))
    BY ZenonT(30), <1>2, <1>5, <1>8, <2>2 DEF Wrote, Rest, Renewed, Timed
  <2>7. x.why = "none" /\ (x.refused \/ x.wage <= keepalive_interval + KEEPALIVE_POLL_FREQ)
    BY SMTT(30), <1>1, Periods DEF Healthy
  <2>8. Kept(k)
    BY SMTT(30), <1>5, <1>8, <2>2, <2>3, <2>6, <2>7, LineTypes, Periods DEF Kept
  <2>9. QED
    BY ZenonT(30), <2>2, <2>4, <2>5, <2>8
<1>9. QED
  BY ZenonT(30), <1>7, <1>8

(* No keepalive is due: what waits is flushed. *)
LEMMA FlushKept ==
    ASSUME NEW x, InOrder(x, 0), Open(x), x.wire = <<>>, x.kleft > 0,
           NEW r \in Answer(Queued(x) + 0), NEW k, k = Keepalive(x, r)
    PROVE  /\ InBuffer(k) /\ Streamed(x, k)
           /\ IF Open(k) THEN Kept(k) ELSE k.why # "stuck"
<1>1. InBuffer(x) /\ x.kleft \in Nat /\ x.wage \in Nat /\ Healthy(x, 0) /\ Queued(x) \in Nat
  BY ZenonT(30), Fields, BytesSeq DEF InOrder, InBuffer
<1>2. k = Write(x, <<>>, r)
  BY SMTT(30), <1>1 DEF Keepalive
<1>3. <<>> \in Seq(Byte) /\ <<>> \in Lines \cup {<<>>} /\ r \in Answer(Queued(x) + Len(<<>>))
  BY SMTT(30)
<1>4. /\ Wrote(x, <<>>, k)
      /\ x.proto = "sctp" /\ Open(k) => k.wage = 0 \/ ~(Queued(x) > 0)
  BY ZenonT(30), <1>1, <1>2, <1>3, WriteEffect
<1>5. InBuffer(k) /\ Streamed(x, k)
  BY ZenonT(30), <1>1, <1>3, <1>4, StreamedWrote DEF Wrote
<1>6. CASE ~Open(k)
  <2>1. k.why # "stuck"
    BY ZenonT(30), <1>4, <1>6 DEF Wrote
  <2>2. QED
    BY ZenonT(30), <1>5, <1>6, <2>1
<1>7. CASE Open(k)
  <2>1. /\ k.kleft = x.kleft /\ k.proto = x.proto /\ k.why = x.why
        /\ k.wage = 0 \/ (k.wage = x.wage /\ (x.refused => k.refused))
    BY ZenonT(30), <1>4, <1>7 DEF Wrote, Rest, Renewed
  <2>2. Kept(k)
    BY SMTT(30), <1>1, <1>4, <1>7, <2>1, Periods DEF Kept, Healthy
  <2>3. QED
    BY ZenonT(30), <1>5, <1>7, <2>2
<1>8. QED
  BY ZenonT(30), <1>6, <1>7

(* Round *)
LEMMA RoundStep ==
    ASSUME InOrder(c, rleft), Round
    PROVE  Open(c) /\ InOrder(c', rleft') /\ Streamed(c, c')
<1> DEFINE x == Quiet(c)
<1>1. Open(c) /\ rleft' = KEEPALIVE_POLL_FREQ /\ rleft = 0
  BY SMTT(30), Periods DEF Round, InOrder
<1>2. PICK r \in Answer(Offered(c, Ping)) :
        r <= Offered(c, IF c.kleft <= 0 THEN Ping ELSE <<>>) /\ c' = KeepRound(x, r)
  BY ZenonT(30) DEF Round
<1>3. /\ InOrder(x, rleft) /\ Open(x) /\ InBuffer(x) /\ x.wire = <<>>
      /\ Bytes(x) = Bytes(c) /\ Queued(x) = Queued(c)
  BY ZenonT(30), <1>1, QuietInOrder
<1>4. x.kleft = c.kleft /\ c.kleft \in Nat /\ Queued(x) \in Nat
  <2>1. InBuffer(c) /\ c \in Client
    BY ZenonT(30) DEF InOrder, InBuffer
  <2>2. Rest(c, x)
    BY ZenonT(30), <2>1, QuietEffect
  <2>3. QED
    BY ZenonT(30), <1>3, <2>1, <2>2, Fields, BytesSeq DEF Rest
<1> DEFINE k == Keepalive(x, r)
<1>5. c' = IF ~Open(k) THEN k
           ELSE IF InputTimeout(k) THEN client_close(k, "silent")
           ELSE IF WriteTimeout(k) THEN client_close(k, "stuck")
           ELSE AdjustBuffering(k)
  BY ZenonT(30), <1>2 DEF KeepRound
<1> HIDE DEF x
<1>6. /\ InBuffer(k) /\ Streamed(x, k)
      /\ IF Open(k) THEN Kept(k) ELSE k.why # "stuck"
  <2>1. CASE c.kleft = 0
    <3>1. r \in Answer(Queued(x) + Len(Ping))
      BY ZenonT(30), <1>3 DEF Offered
    <3>2. QED
      BY SMTT(30), <1>1, <1>3, <1>4, <2>1, <3>1, PingKept
  <2>2. CASE c.kleft > 0
    <3>1. Offered(c, IF c.kleft <= 0 THEN Ping ELSE <<>>) = Queued(x) + 0
      BY SMTT(30), <1>3, <1>4, <2>2 DEF Offered
    <3>2. r <= Queued(x) + 0
      BY ZenonT(30), <1>2, <3>1
    <3>3. r \in {AGAIN, PIPE, ERROR} \/ r \in 1..Offered(c, Ping)
      BY ZenonT(30) DEF Answer
    <3>4. r \in Answer(Queued(x) + 0)
      BY SMTT(30), <1>4, <3>2, <3>3 DEF Answer
    <3>5. QED
      BY ZenonT(30), <1>1, <1>3, <1>4, <2>2, <3>4, FlushKept
  <2>3. QED
    BY SMTT(30), <1>4, <2>1, <2>2
<1> HIDE DEF k
<1>7. Streamed(c, k)
  BY ZenonT(30), <1>3, <1>6, StreamedFrom
<1>8. CASE Open(k)
  BY ZenonT(30), <1>1, <1>5, <1>6, <1>7, <1>8, RoundEnd
<1>9. CASE ~Open(k)
  <2>1. c' = k
    BY ZenonT(30), <1>5, <1>9
  <2>2. InBuffer(k) /\ k.why # "stuck" /\ KEEPALIVE_POLL_FREQ \in 0..KEEPALIVE_POLL_FREQ
    BY SMTT(30), <1>6, <1>9, Periods
  <2>3. Healthy(k, KEEPALIVE_POLL_FREQ) /\ Timely(k, KEEPALIVE_POLL_FREQ)
    BY ZenonT(30), <1>9, <2>2 DEF Healthy, Timely
  <2>4. QED
    BY ZenonT(30), <1>1, <1>7, <2>1, <2>2, <2>3 DEF InOrder
<1>10. QED
  BY ZenonT(30), <1>8, <1>9

(* A client that lost bytes to its socket, or is the same, is in order. *)
LEMMA PassedInOrder ==
    ASSUME NEW x, NEW l, InOrder(x, l), Open(x), x.proto # "sctp",
           NEW w, InBuffer(w), Rest(x, w), Renewed(x, w), Passed(Bytes(x), w)
    PROVE  InOrder(w, l) /\ Streamed(x, w)
<1>1. InBuffer(x)
  BY ZenonT(30) DEF InOrder
<1>2. InOrder(w, l) /\ Open(w)
  BY ZenonT(30), TimesKept
<1>3. QED
  BY ZenonT(30), <1>1, <1>2, StreamedPassed

(* The same for one whose buffer stays, whatever its protocol. *)
LEMMA SameInOrder ==
    ASSUME NEW x, NEW l, InOrder(x, l), Open(x), x.wire = <<>>, NEW w, Same(x, w)
    PROVE  InOrder(w, l) /\ Streamed(x, w)
<1>1. InBuffer(x)
  BY ZenonT(30) DEF InOrder
<1>2. InBuffer(w) /\ Rest(x, w) /\ Renewed(x, w) /\ Passed(Bytes(x), w)
  BY ZenonT(30), <1>1, PassedSame
<1>3. Queued(w) >= Queued(x)
  BY SMTT(30), <1>1, <1>2, BytesSeq DEF Same
<1>4. InOrder(w, l) /\ Open(w)
  BY ZenonT(30), <1>2, <1>3, TimesKept
<1>5. QED
  BY ZenonT(30), <1>1, <1>2, <1>4, StreamedPassed

(* An answer of ssl_write. *)
LEMMA SslInOrder ==
    ASSUME NEW x, NEW l, InOrder(x, l), Open(x), x.wire = <<>>, x.proto = "tls",
           NEW r \in Answer(Queued(x)), NEW w, w = ssl_write(x, r)
    PROVE  InOrder(w, l) /\ Streamed(x, w)
<1>1. InBuffer(x) /\ l \in 0..KEEPALIVE_POLL_FREQ
  BY ZenonT(30) DEF InOrder
<1>2. CASE w = client_close(x, "error")
  <2>1. "error" \in Reason /\ "error" # "stuck"
    BY ZenonT(30), Reasons
  <2>2. QED
    BY ZenonT(30), <1>1, <1>2, <2>1, ClosedInOrder
<1>3. CASE InBuffer(w) /\ Rest(x, w) /\ Renewed(x, w) /\ Passed(Bytes(x), w)
  BY ZenonT(30), <1>3, PassedInOrder
<1>4. QED
  BY ZenonT(30), <1>1, <1>2, <1>3, SslWriteEffect

(* The socket of a TCP client is writable: obuf_wtime stays. *)
LEMMA TakenInOrder ==
    ASSUME NEW x, NEW l, InOrder(x, l), Open(x), x.proto = "tcp", NEW n \in 1..Queued(x),
           NEW w, NEW t, t = Take(x, n),
           w = (IF t.obuf_start = t.obuf_end THEN [Emptied(t) EXCEPT !.pollout = FALSE] ELSE t)
    PROVE  InOrder(w, l) /\ Streamed(x, w)
<1>1. InBuffer(x) /\ Queued(x) \in Nat
  BY ZenonT(30), BytesSeq DEF InOrder
<1>2. n \in 0..Queued(x) /\ n \in 0..Len(Bytes(x))
  BY SMTT(30), <1>1, BytesSeq
<1>3. /\ InBuffer(t) /\ Rest(x, t) /\ Timed(x, t)
      /\ Bytes(t) = SubSeq(Bytes(x), n + 1, Len(Bytes(x))) /\ t.wire = SubSeq(Bytes(x), 1, n)
  BY ZenonT(30), <1>1, <1>2, TakeEffect
<1>4. Same(t, w)
  <2>1. CASE t.obuf_start = t.obuf_end
    <3>1. Queued(t) = 0
      BY SMTT(30), <1>3, <2>1, Fields DEF InBuffer, Queued
    <3>2. Same(t, Emptied(t))
      BY ZenonT(30), <1>3, <3>1, EmptiedSame
    <3>3. InBuffer(Emptied(t))
      BY ZenonT(30), <3>2 DEF Same
    <3>4. Same(Emptied(t), w)
      BY ZenonT(30), <2>1, <3>3, PolloutSame
    <3>5. QED
      BY ZenonT(30), <3>2, <3>4, SameTransitive
  <2>2. CASE t.obuf_start # t.obuf_end
    BY ZenonT(30), <1>3, <2>2, SameSelf
  <2>3. QED
    BY ZenonT(30), <2>1, <2>2
<1>5. InBuffer(w) /\ Rest(x, w) /\ Renewed(x, w)
  BY ZenonT(30), <1>3, <1>4 DEF Same, Rest, Timed, Renewed
<1>6. Passed(Bytes(x), w)
  BY ZenonT(30), <1>2, <1>3, <1>4 DEF Same, Passed
<1>7. QED
  BY ZenonT(30), <1>5, <1>6, PassedInOrder

(* Writable *)
LEMMA WritableStep ==
    ASSUME InOrder(c, rleft), Writable
    PROVE  Open(c) /\ InOrder(c', rleft') /\ Streamed(c, c')
<1> DEFINE x == Quiet(c)
<1>1. Open(c) /\ rleft' = rleft /\ InBuffer(c) /\ c.proto \in {"tcp", "tls", "sctp"}
  BY ZenonT(30), Fields DEF Writable, InOrder, InBuffer, Protocol
<1>2. /\ InOrder(x, rleft) /\ Open(x) /\ InBuffer(x) /\ x.wire = <<>>
      /\ Bytes(x) = Bytes(c) /\ Queued(x) = Queued(c)
  BY ZenonT(30), <1>1, QuietInOrder
<1>3. x.proto = c.proto /\ rleft \in 0..KEEPALIVE_POLL_FREQ
  BY ZenonT(30), <1>1, QuietEffect DEF Rest, InOrder
<1>4. SUFFICES InOrder(c', rleft) /\ Streamed(x, c')
  BY ZenonT(30), <1>1, <1>2, StreamedFrom
<1>5. CASE Queued(c) = 0
  <2>1. c' = [Emptied(x) EXCEPT !.pollout = FALSE]
    BY ZenonT(30), <1>5 DEF Writable
  <2> HIDE DEF x
  <2>2. Same(x, Emptied(x))
    BY ZenonT(30), <1>2, <1>5, EmptiedSame
  <2>3. InBuffer(Emptied(x))
    BY ZenonT(30), <2>2 DEF Same
  <2>4. Same(Emptied(x), c')
    BY ZenonT(30), <2>1, <2>3, PolloutSame
  <2>5. Same(x, c')
    BY ZenonT(30), <2>2, <2>4, SameTransitive
  <2>6. QED
    BY ZenonT(30), <1>2, <2>5, SameInOrder
<1>6. CASE Queued(c) # 0
  <2>1. PICK r \in Answer(Queued(c)) :
          c' = CASE c.proto = "tls" -> ssl_write(x, r)
                 [] c.proto = "sctp" -> client_close(x, "error")
                 [] c.proto = "tcp" ->
                      IF r \in {PIPE, ERROR} THEN client_close(x, "error")
                      ELSE IF r = AGAIN THEN x
                      ELSE LET t == Take(x, r) IN
                           IF t.obuf_start = t.obuf_end
                           THEN [Emptied(t) EXCEPT !.pollout = FALSE] ELSE t
    BY ZenonT(30), <1>6 DEF Writable
  <2> HIDE DEF x
  <2>2. ASSUME c' = client_close(x, "error")
        PROVE  InOrder(c', rleft) /\ Streamed(x, c')
    <3>1. "error" \in Reason /\ "error" # "stuck"
      BY ZenonT(30), Reasons
    <3>2. QED
      BY ZenonT(30), <1>2, <1>3, <2>2, <3>1, ClosedInOrder
  <2>3. CASE c.proto = "tls"
    <3>1. c' = ssl_write(x, r)
      BY ZenonT(30), <2>1, <2>3
    <3>2. QED
      BY ZenonT(30), <1>2, <1>3, <2>3, <3>1, SslInOrder
  <2>4. CASE c.proto = "sctp"
    <3>1. c' = client_close(x, "error")
      BY ZenonT(30), <2>1, <2>4
    <3>2. QED
      BY ZenonT(30), <2>2, <3>1
  <2>5. CASE c.proto = "tcp"
    <3>1. CASE r \in {PIPE, ERROR}
      <4>1. c' = client_close(x, "error")
        BY ZenonT(30), <2>1, <2>5, <3>1
      <4>2. QED
        BY ZenonT(30), <2>2, <4>1
    <3>2. CASE r = AGAIN
      <4>1. c' = x
        BY SMTT(30), <2>1, <2>5, <3>2 DEF AGAIN, PIPE, ERROR
      <4>2. QED
        BY ZenonT(30), <1>2, <4>1, SameSelf, SameInOrder
    <3>3. CASE r \in 1..Queued(c)
      <4> DEFINE t == Take(x, r)
      <4>1. c' = IF t.obuf_start = t.obuf_end THEN [Emptied(t) EXCEPT !.pollout = FALSE] ELSE t
        BY SMTT(30), <2>1, <2>5, <3>3 DEF AGAIN, PIPE, ERROR
      <4> HIDE DEF t
      <4>2. t = Take(x, r) /\ r \in 1..Queued(x)
        BY ZenonT(30), <1>2, <3>3 DEF t
      <4>3. QED
        BY ZenonT(30), <1>2, <1>3, <2>5, <4>1, <4>2, TakenInOrder
    <3>4. QED
      BY ZenonT(30), <3>1, <3>2, <3>3 DEF Answer
  <2>6. QED
    BY ZenonT(30), <1>1, <2>3, <2>4, <2>5
<1>7. QED
  BY ZenonT(30), <1>5, <1>6

(* Readable *)
LEMMA ReadableStep ==
    ASSUME InOrder(c, rleft), Readable
    PROVE  Open(c) /\ InOrder(c', rleft') /\ Streamed(c, c')
<1> DEFINE x == Quiet(c)
<1>1. Open(c) /\ rleft' = rleft /\ InBuffer(c)
  BY ZenonT(30) DEF Readable, InOrder
<1>2. PICK s \in {c.state, "connected"} :
        c' = [x EXCEPT !.rage = 0, !.state = s, !.cage = IF s = "login" THEN @ ELSE 0]
  BY ZenonT(30) DEF Readable
<1>3. /\ InOrder(x, rleft) /\ Open(x) /\ InBuffer(x) /\ x.wire = <<>>
      /\ Bytes(x) = Bytes(c) /\ Queued(x) = Queued(c)
  BY ZenonT(30), <1>1, QuietInOrder
<1>4. x.state = c.state
  BY ZenonT(30), <1>1, QuietEffect DEF Rest
<1> HIDE DEF x
<1> DEFINE g == IF s = "login" THEN x.cage ELSE 0
<1>5. /\ x \in Client /\ x.cage \in Nat /\ x.state \in State /\ x.wage \in Nat /\ x.rage \in Nat
      /\ x.kleft \in Nat /\ rleft \in 0..KEEPALIVE_POLL_FREQ
  BY ZenonT(30), <1>3, Fields DEF InBuffer, InOrder
<1>6. s \in State /\ s # "closed" /\ (s = "login" => x.state = "login") /\ g \in Nat /\ 0 \in Nat
  BY ZenonT(30), <1>1, <1>4, <1>5 DEF Open, State
<1>7. c' = [x EXCEPT !.rage = 0, !.state = s, !.cage = g]
  BY ZenonT(30), <1>2
<1>8. s = "login" => g = x.cage
  BY ZenonT(30)
<1> HIDE DEF g
<1>9. c' \in Client
  BY ZenonT(30), <1>5, <1>6, <1>7 DEF Client
<1>10. /\ Stored(x, c') /\ c'.wire = x.wire /\ Timed(x, c') /\ c'.proto = x.proto
       /\ c'.inport = x.inport /\ c'.why = x.why /\ c'.kleft = x.kleft
       /\ c'.upgraded = x.upgraded /\ c'.rage = 0 /\ c'.state = s /\ c'.cage = g
  BY ZenonT(30), <1>5, <1>7 DEF Stored, Timed, Client
<1>11. InBuffer(c') /\ Bytes(c') = Bytes(x) /\ Queued(c') = Queued(x)
  BY ZenonT(30), <1>3, <1>9, <1>10 DEF InBuffer, Stored, Bytes, Queued
<1>12. Open(c')
  BY ZenonT(30), <1>6, <1>10 DEF Open
<1>13. Healthy(c', rleft)
  BY ZenonT(30), <1>3, <1>10, <1>11, <1>12 DEF Healthy, InOrder, Timed
<1>14. Timely(c', rleft)
  <2>1. InputLimit(c') \in Nat
    BY ZenonT(30), Periods DEF InputLimit
  <2>2. Timely(x, rleft)
    BY ZenonT(30), <1>3 DEF InOrder
  <2>3. c'.wage <= sock_write_expire + (KEEPALIVE_POLL_FREQ - rleft)
    BY ZenonT(30), <1>3, <1>10, <2>2 DEF Timely, Timed
  <2>4. c'.rage <= InputLimit(c') + (KEEPALIVE_POLL_FREQ - rleft)
    BY SMTT(30), <1>5, <1>10, <2>1, Periods
  <2>5. QED
    BY ZenonT(30), <1>3, <1>6, <1>8, <1>10, <2>2, <2>3, <2>4 DEF Timely
<1>15. Streamed(c, c')
  <2>1. Bytes(c) \in Seq(Byte)
    BY ZenonT(30), <1>1, BytesSeq
  <2>2. Passed(Bytes(c), c')
    BY <1>3, <1>10, <1>11, <2>1, PassedNone
  <2>3. QED
    BY ZenonT(30), <1>1, <1>12, <2>2, StreamedPassed
<1>16. QED
  BY ZenonT(30), <1>1, <1>5, <1>11, <1>13, <1>14, <1>15 DEF InOrder

(* ReadEof *)
LEMMA ReadEofStep ==
    ASSUME InOrder(c, rleft), ReadEof
    PROVE  Open(c) /\ InOrder(c', rleft') /\ Streamed(c, c')
<1>1. Open(c) /\ c' = client_close(c, "eof") /\ rleft' = rleft
  BY ZenonT(30) DEF ReadEof
<1>2. /\ InBuffer(c) /\ rleft \in 0..KEEPALIVE_POLL_FREQ
      /\ "eof" \in Reason /\ "eof" # "stuck"
  BY ZenonT(30), Reasons DEF InOrder
<1>3. QED
  BY ZenonT(30), <1>1, <1>2, ClosedInOrder

(* TlsReadable *)
LEMMA TlsReadableStep ==
    ASSUME InOrder(c, rleft), TlsReadable
    PROVE  Open(c) /\ InOrder(c', rleft') /\ Streamed(c, c')
<1> DEFINE x == Quiet(c)
<1>1. Open(c) /\ rleft' = rleft /\ InBuffer(c) /\ c.proto = "tls"
  BY ZenonT(30) DEF TlsReadable, InOrder
<1>2. /\ InOrder(x, rleft) /\ Open(x) /\ InBuffer(x) /\ x.wire = <<>>
      /\ Bytes(x) = Bytes(c) /\ Queued(x) = Queued(c)
  BY ZenonT(30), <1>1, QuietInOrder
<1>3. x.proto = c.proto
  BY ZenonT(30), <1>1, QuietEffect DEF Rest
<1>4. SUFFICES InOrder(c', rleft) /\ Streamed(x, c')
  BY ZenonT(30), <1>1, <1>2, StreamedFrom
<1>5. CASE c' = [x EXCEPT !.pollout = @ \/ Queued(c) > 0]
  <2> DEFINE f == x.pollout \/ Queued(c) > 0
  <2>1. c' = [x EXCEPT !.pollout = f] /\ f \in BOOLEAN
    BY ZenonT(30), <1>5
  <2> HIDE DEF x, f
  <2>2. Same(x, c')
    BY ZenonT(30), <1>2, <2>1, PolloutSame
  <2>3. QED
    BY ZenonT(30), <1>2, <2>2, SameInOrder
<1>6. CASE \E r \in Answer(Queued(c)) : c' = ssl_write(x, r)
  <2>1. PICK r \in Answer(Queued(c)) : c' = ssl_write(x, r)
    BY ZenonT(30), <1>6
  <2> HIDE DEF x
  <2>2. QED
    BY ZenonT(30), <1>1, <1>2, <1>3, <2>1, SslInOrder
<1>7. QED
  BY ZenonT(30), <1>5, <1>6 DEF TlsReadable

(* client_alloc gives a client. *)
LEMMA AllocType ==
    ASSUME NEW proto \in Protocol, NEW inport \in BOOLEAN, NEW udp \in BOOLEAN,
           NEW keepalive \in Nat
    PROVE  client_alloc(proto, inport, udp, keepalive) \in Client
<1>1. [i \in Cell |-> EOL] \in [Cell -> Byte] /\ <<>> \in Seq(Byte) /\ 0 \in Nat
  BY SMTT(30), OutputAssumption
<1>2. "login" \in State /\ "none" \in Reason
  BY ZenonT(30) DEF State, Reason
<1>3. QED
  BY ZenonT(30), <1>1, <1>2 DEF client_alloc, Client

(* y has what a live upgrade keeps of x. *)
Carried(x, keepalive, y) ==
    /\ InBuffer(y) /\ Bytes(y) = Bytes(x) /\ Queued(y) = Queued(x) /\ y.wire = <<>>
    /\ y.proto = x.proto /\ y.inport = x.inport /\ y.state = x.state /\ y.why = "none"
    /\ y.cage = x.cage /\ y.upgraded = TRUE /\ y.wage = 0 /\ y.rage = 0
    /\ y.kleft = keepalive

(* A live upgrade moves the bytes that wait to a new buffer. *)
LEMMA RestoredEffect ==
    ASSUME NEW x, InBuffer(x), NEW keepalive \in Nat,
           NEW y, \E udp \in BOOLEAN : y = Restored(x, udp, keepalive)
    PROVE  Carried(x, keepalive, y)
<1> PICK udp \in BOOLEAN : y = Restored(x, udp, keepalive)
  BY ZenonT(30)
<1> DEFINE n == Queued(x)
           moved == [i \in Cell |-> IF i < n THEN x.obuf[x.obuf_start + i] ELSE EOL]
           z == client_alloc(x.proto, x.inport, udp, keepalive)
<1>1. /\ x \in Client /\ x.obuf \in [Cell -> Byte] /\ x.obuf_start \in Nat /\ x.obuf_end \in Nat
      /\ x.obuf_start <= x.obuf_end /\ x.obuf_end <= obuf_size
      /\ x.state \in State /\ x.cage \in Nat /\ x.proto \in Protocol /\ x.inport \in BOOLEAN
  BY ZenonT(30), Fields DEF InBuffer
<1>2. n \in Nat /\ n <= x.obuf_end /\ n <= obuf_size
  BY SMTT(30), <1>1, Periods DEF Queued
<1>3. ASSUME NEW i \in Cell, i < n
      PROVE  x.obuf_start + i \in Cell
  BY SMTT(30), <1>1, <1>2, <1>3, Periods DEF Cell, Queued
<1>4. moved \in [Cell -> Byte]
  BY ZenonT(30), <1>1, <1>3, OutputAssumption
<1>5. \A i \in 0..(n - 1) : i \in Cell /\ moved[i] = x.obuf[x.obuf_start + i]
  BY SMTT(30), <1>1, <1>2, Periods DEF Cell
<1>6. y = [z EXCEPT !.state = x.state, !.cage = x.cage, !.upgraded = TRUE, !.obuf = moved,
                    !.obuf_end = n]
  BY ZenonT(30) DEF Restored
<1>7. z \in Client
  BY ZenonT(30), <1>1, AllocType
<1>8. /\ y.wire = <<>> /\ y.proto = x.proto /\ y.inport = x.inport /\ y.state = x.state
      /\ y.why = "none" /\ y.cage = x.cage /\ y.upgraded = TRUE /\ y.wage = 0 /\ y.rage = 0
      /\ y.kleft = keepalive /\ y.obuf = moved /\ y.obuf_start = 0 /\ y.obuf_end = n
  <2> HIDE DEF moved, n
  <2>1. QED
    BY SMTT(30), <1>6 DEF client_alloc
<1> HIDE DEF z, moved
<1>9. y \in Client
  <2> HIDE DEF n
  <2>1. QED
    BY ZenonT(30), <1>1, <1>2, <1>4, <1>6, <1>7 DEF Client
<1>10. InBuffer(y) /\ Queued(y) = n
  BY SMTT(30), <1>2, <1>8, <1>9 DEF InBuffer, Queued
<1>11. Bytes(y) = Bytes(x)
  <2>1. Bytes(y) = [i \in 1..n |-> moved[0 + i - 1]]
    BY ZenonT(30), <1>8, <1>10 DEF Bytes
  <2>2. Bytes(x) = [i \in 1..n |-> x.obuf[x.obuf_start + i - 1]]
    BY ZenonT(30) DEF Bytes
  <2> HIDE DEF n
  <2>3. ASSUME NEW i \in 1..n
        PROVE  moved[0 + i - 1] = x.obuf[x.obuf_start + i - 1]
    <3>1. i - 1 \in 0..(n - 1) /\ 0 + i - 1 = i - 1
      BY SMTT(30), <1>2
    <3>2. moved[i - 1] = x.obuf[x.obuf_start + (i - 1)]
      BY ZenonT(30), <1>5, <3>1
    <3>3. x.obuf_start + (i - 1) = x.obuf_start + i - 1
      BY ZenonT(30), <1>1, <1>2
    <3>4. QED
      BY ZenonT(30), <3>1, <3>2, <3>3
  <2>4. QED
    BY ZenonT(30), <2>1, <2>2, <2>3
<1>12. QED
  BY ZenonT(30), <1>8, <1>10, <1>11 DEF Carried

(* Upgrade *)
LEMMA UpgradeStep ==
    ASSUME InOrder(c, rleft), Upgrade
    PROVE  Open(c) /\ InOrder(c', rleft') /\ Streamed(c, c')
<1> DEFINE l == KEEPALIVE_POLL_FREQ
<1>1. /\ Open(c) /\ rleft' = l /\ InBuffer(c) /\ c.udp \in BOOLEAN /\ c.cage \in Nat
      /\ ~c.upgraded /\ rleft \in 0..KEEPALIVE_POLL_FREQ /\ l \in 0..KEEPALIVE_POLL_FREQ
  BY SMTT(30), Fields, Periods DEF Upgrade, InOrder, InBuffer
<1>2. CASE c' = client_close(c, "upgrade")
  <2>1. "upgrade" \in Reason /\ "upgrade" # "stuck"
    BY ZenonT(30), Reasons
  <2>2. QED
    BY ZenonT(30), <1>1, <1>2, <2>1, ClosedInOrder
<1>3. CASE \E udp \in {c.udp, FALSE}, keepalive \in 0..(keepalive_interval \div 2) - 1, p \in Line :
             \E r \in Answer(Offered(c, p)) : c' = Write(Restored(c, udp, keepalive), p, r)
  <2>1. PICK udp \in {c.udp, FALSE}, keepalive \in 0..(keepalive_interval \div 2) - 1, p \in Line :
               \E r \in Answer(Offered(c, p)) : c' = Write(Restored(c, udp, keepalive), p, r)
    BY ZenonT(30), <1>3
  <2> DEFINE x == Restored(c, udp, keepalive)
  <2>2. PICK r \in Answer(Offered(c, p)) : c' = Write(x, p, r)
    BY ZenonT(30), <2>1
  <2>3. /\ udp \in BOOLEAN /\ keepalive \in Nat /\ keepalive <= keepalive_interval
        /\ p \in Lines \cup {<<>>} /\ p \in Seq(Byte)
    <3>1. udp \in BOOLEAN
      BY ZenonT(30), <1>1
    <3>2. keepalive \in Nat /\ keepalive <= keepalive_interval
      BY SMTT(30), Periods
    <3>3. p \in Lines \cup {<<>>} /\ p \in Seq(Byte)
      BY ZenonT(30), LineTypes DEF Lines
    <3>4. QED
      BY ZenonT(30), <3>1, <3>2, <3>3
  <2>4. x = Restored(c, udp, keepalive)
    BY ZenonT(30)
  <2> HIDE DEF x
  <2>5. /\ InBuffer(x) /\ Bytes(x) = Bytes(c) /\ Queued(x) = Queued(c) /\ x.wire = <<>>
        /\ x.proto = c.proto /\ x.inport = c.inport /\ x.state = c.state /\ x.why = "none"
        /\ x.cage = c.cage /\ x.upgraded = TRUE /\ x.wage = 0 /\ x.rage = 0
        /\ x.kleft = keepalive
    <3>1. \E u \in BOOLEAN : x = Restored(c, u, keepalive)
      BY ZenonT(30), <2>3, <2>4
    <3>2. Carried(c, keepalive, x)
      BY ZenonT(30), <1>1, <2>3, <3>1, RestoredEffect
    <3>3. QED
      BY ZenonT(30), <3>2 DEF Carried
  <2>6. Open(x)
    BY ZenonT(30), <1>1, <2>5 DEF Open
  <2>7. InOrder(x, l)
    <3>1. Healthy(x, l)
      BY SMTT(30), <2>3, <2>5, <2>6, Periods DEF Healthy
    <3>2. Timely(c, rleft) /\ InputLimit(x) \in Nat
      BY ZenonT(30), Periods DEF InOrder, InputLimit
    <3>3. x.inport /\ x.state = "login" =>
            x.cage <= client_login_timeout + KEEPALIVE_POLL_FREQ + (KEEPALIVE_POLL_FREQ - l)
      BY SMTT(30), <1>1, <2>5, <3>2, Periods DEF Timely
    <3>4. Timely(x, l)
      BY SMTT(30), <2>5, <2>6, <3>2, <3>3, Periods DEF Timely
    <3>5. QED
      BY ZenonT(30), <1>1, <2>5, <3>1, <3>4 DEF InOrder
  <2>8. r \in Answer(Queued(x) + Len(p))
    BY ZenonT(30), <2>5 DEF Offered
  <2>9. /\ Wrote(x, p, c')
        /\ x.proto = "sctp" /\ Open(c') => c'.wage = 0 \/ Queued(c') = Queued(x) + Len(p)
    BY ZenonT(30), <2>2, <2>3, <2>5, <2>6, <2>8, WriteEffect
  <2>10. InOrder(c', l)
    BY ZenonT(30), <2>3, <2>6, <2>7, <2>9, WroteInOrder
  <2>11. Streamed(c, c')
    BY ZenonT(30), <2>3, <2>5, <2>9, StreamedWrote, StreamedFrom
  <2>12. QED
    BY ZenonT(30), <1>1, <2>10, <2>11
<1>4. QED
  BY ZenonT(30), <1>2, <1>3 DEF Upgrade

(* An age grows by a second, or is past every limit. *)
LEMMA OlderEffect ==
    ASSUME NEW n \in Nat, NEW limit \in Nat
    PROVE  Older(n, limit) \in Nat /\ Older(n, limit) <= n + 1
BY SMTT(30), Periods DEF Older

(* Tick *)
LEMMA TickStep ==
    ASSUME InOrder(c, rleft), Tick
    PROVE  Open(c) /\ InOrder(c', rleft') /\ Streamed(c, c')
<1> DEFINE x == Quiet(c)
           wage == Older(x.wage, sock_write_expire)
           kleft == IF x.kleft > 0 THEN x.kleft - 1 ELSE x.kleft
           rage == Older(x.rage, InputLimit(c))
           cage == IF c.state = "login" THEN Older(x.cage, client_login_timeout) ELSE 0
<1>1. Open(c) /\ InBuffer(c) /\ rleft > 0 /\ rleft' = rleft - 1 /\ rleft \in 0..KEEPALIVE_POLL_FREQ
  BY ZenonT(30) DEF Tick, InOrder
<1>2. /\ InOrder(x, rleft) /\ Open(x) /\ InBuffer(x) /\ x.wire = <<>>
      /\ Bytes(x) = Bytes(c) /\ Queued(x) = Queued(c)
  BY ZenonT(30), <1>1, QuietInOrder
<1>3. x.state = c.state /\ x.inport = c.inport
  BY ZenonT(30), <1>1, QuietEffect DEF Rest
<1>4. c' = [x EXCEPT !.wage = wage, !.kleft = kleft, !.rage = rage, !.cage = cage]
  BY ZenonT(30) DEF Tick
<1> HIDE DEF x
<1>5. /\ x \in Client /\ x.cage \in Nat /\ x.wage \in Nat /\ x.rage \in Nat /\ x.kleft \in Nat
      /\ Queued(x) \in Nat
  BY ZenonT(30), <1>2, Fields, BytesSeq DEF InBuffer
<1>6. InputLimit(c) = InputLimit(x) /\ InputLimit(x) \in Nat
  BY ZenonT(30), <1>3, Periods DEF InputLimit
<1>7. /\ wage \in Nat /\ wage <= x.wage + 1 /\ rage \in Nat /\ rage <= x.rage + 1
      /\ cage \in Nat /\ cage <= x.cage + 1
  <2>1. wage \in Nat /\ wage <= x.wage + 1
    BY ZenonT(30), <1>5, Periods, OlderEffect
  <2>2. rage \in Nat /\ rage <= x.rage + 1
    BY ZenonT(30), <1>5, <1>6, OlderEffect
  <2>3. cage \in Nat /\ cage <= x.cage + 1
    <3>1. CASE c.state = "login"
      BY ZenonT(30), <1>5, <3>1, Periods, OlderEffect
    <3>2. CASE c.state # "login"
      BY SMTT(30), <1>5, <3>2
    <3>3. QED
      BY ZenonT(30), <3>1, <3>2
  <2>4. QED
    BY ZenonT(30), <2>1, <2>2, <2>3
<1>8. kleft \in Nat /\ (x.kleft > 0 => kleft = x.kleft - 1) /\ (x.kleft = 0 => kleft = 0)
  BY SMTT(30), <1>5
<1> HIDE DEF wage, kleft, rage, cage
<1>9. c' \in Client
  BY ZenonT(30), <1>4, <1>5, <1>7, <1>8 DEF Client
<1>10. /\ Stored(x, c') /\ c'.wire = x.wire /\ c'.proto = x.proto /\ c'.inport = x.inport
       /\ c'.state = x.state /\ c'.why = x.why /\ c'.refused = x.refused
       /\ c'.upgraded = x.upgraded /\ c'.wage = wage /\ c'.kleft = kleft
       /\ c'.rage = rage /\ c'.cage = cage
  BY ZenonT(30), <1>4, <1>5 DEF Stored, Client
<1>11. InBuffer(c') /\ Bytes(c') = Bytes(x) /\ Queued(c') = Queued(x)
  BY ZenonT(30), <1>2, <1>9, <1>10 DEF InBuffer, Stored, Bytes, Queued
<1>12. Open(c') /\ rleft - 1 \in 0..KEEPALIVE_POLL_FREQ
  BY SMTT(30), <1>1, <1>2, <1>10, Periods DEF Open
<1>13. Healthy(c', rleft - 1)
  <2>1. Healthy(x, rleft)
    BY ZenonT(30), <1>2 DEF InOrder
  <2>2. c'.why = "none" /\ c'.kleft <= keepalive_interval
    BY SMTT(30), <1>2, <1>5, <1>8, <1>10, <2>1, Periods DEF Healthy
  <2>3. CASE x.refused
    BY ZenonT(30), <1>10, <1>12, <2>2, <2>3 DEF Healthy
  <2>4. CASE x.kleft > 0 /\ x.wage + x.kleft <= keepalive_interval
    <3>1. wage + kleft <= keepalive_interval
      BY SMTT(30), <1>5, <1>7, <1>8, <2>4, Periods
    <3>2. kleft > 0 \/ (kleft = 0 /\ wage <= keepalive_interval + (KEEPALIVE_POLL_FREQ - (rleft - 1)))
      BY SMTT(30), <1>1, <1>7, <1>8, <3>1, Periods
    <3>3. QED
      BY ZenonT(30), <1>10, <1>12, <2>2, <3>1, <3>2 DEF Healthy
  <2>5. CASE x.kleft = 0 /\ x.wage <= keepalive_interval + (KEEPALIVE_POLL_FREQ - rleft)
    <3>1. kleft = 0 /\ wage <= keepalive_interval + (KEEPALIVE_POLL_FREQ - (rleft - 1))
      BY SMTT(30), <1>1, <1>5, <1>7, <1>8, <2>5, Periods
    <3>2. QED
      BY ZenonT(30), <1>10, <1>12, <2>2, <3>1 DEF Healthy
  <2>6. CASE /\ x.proto = "sctp" /\ Queued(x) > 0
             /\ x.kleft >= keepalive_interval - (KEEPALIVE_POLL_FREQ - rleft)
    <3>1. kleft >= keepalive_interval - (KEEPALIVE_POLL_FREQ - (rleft - 1))
      BY SMTT(30), <1>1, <1>5, <1>8, <2>6, Periods
    <3>2. QED
      BY ZenonT(30), <1>10, <1>11, <1>12, <2>2, <2>6, <3>1 DEF Healthy
  <2>7. QED
    BY ZenonT(30), <1>2, <2>1, <2>3, <2>4, <2>5, <2>6 DEF Healthy
<1>14. Timely(c', rleft - 1)
  <2>1. Timely(x, rleft) /\ x.upgraded \in BOOLEAN
    BY ZenonT(30), <1>2, <1>5, Fields DEF InOrder
  <2>2. c'.wage <= sock_write_expire + (KEEPALIVE_POLL_FREQ - (rleft - 1))
    BY SMTT(30), <1>1, <1>2, <1>5, <1>7, <1>10, <2>1, Periods DEF Timely
  <2>3. InputLimit(c') = InputLimit(x)
    BY ZenonT(30), <1>10 DEF InputLimit
  <2> DEFINE extra == IF x.upgraded THEN KEEPALIVE_POLL_FREQ ELSE 0
  <2>4. extra \in Nat
    BY ZenonT(30), Periods
  <2>5. /\ x.inport /\ x.state = "login" =>
             x.cage <= client_login_timeout + extra + (KEEPALIVE_POLL_FREQ - rleft)
        /\ ~(x.inport /\ x.state = "login") =>
             x.rage <= InputLimit(x) + (KEEPALIVE_POLL_FREQ - rleft)
    BY ZenonT(30), <1>2, <2>1 DEF Timely
  <2>6. extra = IF c'.upgraded THEN KEEPALIVE_POLL_FREQ ELSE 0
    BY ZenonT(30), <1>10
  <2> HIDE DEF extra
  <2>7. /\ x.inport /\ x.state = "login" =>
             cage <= client_login_timeout + extra + (KEEPALIVE_POLL_FREQ - (rleft - 1))
        /\ ~(x.inport /\ x.state = "login") =>
             rage <= InputLimit(x) + (KEEPALIVE_POLL_FREQ - (rleft - 1))
    BY SMTT(30), <1>1, <1>5, <1>6, <1>7, <2>4, <2>5, Periods
  <2>8. QED
    BY ZenonT(30), <1>10, <2>2, <2>3, <2>6, <2>7 DEF Timely
<1>15. Streamed(c, c')
  <2>1. Bytes(c) \in Seq(Byte)
    BY ZenonT(30), <1>1, BytesSeq
  <2>2. Passed(Bytes(c), c')
    BY ZenonT(30), <1>2, <1>10, <1>11, <2>1, PassedNone
  <2>3. QED
    BY ZenonT(30), <1>1, <1>12, <2>2, StreamedPassed
<1>16. QED
  BY ZenonT(30), <1>1, <1>11, <1>12, <1>13, <1>14, <1>15 DEF InOrder
-----------------------------------------------------------------------------
(***************************************************************************)
(* The theorems.                                                           *)
(***************************************************************************)

(* A step changes an open client as a stream may change, and keeps it in order. *)
LEMMA StepInOrder ==
    ASSUME InOrder(c, rleft), [OutputNext]_outputVars
    PROVE  /\ InOrder(c', rleft')
           /\ c' = c \/ (Open(c) /\ Streamed(c, c'))
<1>1. CASE UNCHANGED outputVars
  BY ZenonT(30), <1>1 DEF outputVars
<1>2. CASE Send
  BY ZenonT(30), <1>2, SendStep
<1>3. CASE Round
  BY ZenonT(30), <1>3, RoundStep
<1>4. CASE Writable
  BY ZenonT(30), <1>4, WritableStep
<1>5. CASE Readable
  BY ZenonT(30), <1>5, ReadableStep
<1>6. CASE ReadEof
  BY ZenonT(30), <1>6, ReadEofStep
<1>7. CASE TlsReadable
  BY ZenonT(30), <1>7, TlsReadableStep
<1>8. CASE Upgrade
  BY ZenonT(30), <1>8, UpgradeStep
<1>9. CASE Tick
  BY ZenonT(30), <1>9, TickStep
<1>10. QED
  BY ZenonT(30), <1>1, <1>2, <1>3, <1>4, <1>5, <1>6, <1>7, <1>8, <1>9 DEF OutputNext

(* A new client is in order, and nothing waits for it. *)
LEMMA InitInOrder ==
    ASSUME OutputInit
    PROVE  InOrder(c, rleft) /\ Bytes(c) = <<>> /\ c.wire = <<>> /\ Open(c)
<1>1. PICK k \in Kinds, keepalive \in {0, keepalive_interval} :
        c = client_alloc(k.proto, k.inport, k.udp, keepalive)
  BY ZenonT(30) DEF OutputInit
<1>2. k.proto \in Protocol /\ k.inport \in BOOLEAN /\ k.udp \in BOOLEAN /\ keepalive \in Nat
  <2>1. k \in [proto : Protocol, inport : BOOLEAN, udp : BOOLEAN]
    BY ZenonT(30), OutputAssumption
  <2>2. QED
    BY SMTT(30), <2>1, Periods
<1>3. c \in Client
  BY ZenonT(30), <1>1, <1>2, AllocType
<1>4. /\ c.obuf_start = 0 /\ c.obuf_end = 0 /\ c.wire = <<>> /\ c.state = "login"
      /\ c.why = "none" /\ c.wage = 0 /\ c.rage = 0 /\ c.cage = 0 /\ c.kleft = keepalive
      /\ c.upgraded = FALSE
  BY ZenonT(30), <1>1 DEF client_alloc
<1>5. InBuffer(c) /\ Bytes(c) = <<>> /\ Open(c)
  BY SMTT(30), <1>3, <1>4, Periods DEF InBuffer, Bytes, Queued, Open
<1>6. rleft = KEEPALIVE_POLL_FREQ /\ rleft \in 0..KEEPALIVE_POLL_FREQ
  BY SMTT(30), Periods DEF OutputInit
<1>7. Healthy(c, rleft)
  BY SMTT(30), <1>1, <1>2, <1>4, <1>5, <1>6, Periods DEF Healthy
<1>8. Timely(c, rleft)
  <2>1. InputLimit(c) \in Nat
    BY ZenonT(30), Periods DEF InputLimit
  <2>2. QED
    BY SMTT(30), <1>4, <1>5, <1>6, <2>1, Periods DEF Timely
<1>9. QED
  BY ZenonT(30), <1>4, <1>5, <1>6, <1>7, <1>8 DEF InOrder

(* The client is always in order: the pointers of its buffer, the time     *)
(* left to its keepalive and every age of send_keepalives (worker.c).      *)
THEOREM AlwaysInOrder == OutputSpec => []InOrder(c, rleft)
<1>1. OutputInit => InOrder(c, rleft)
  BY ZenonT(30), InitInOrder
<1>2. InOrder(c, rleft) /\ [OutputNext]_outputVars => InOrder(c, rleft)'
  BY ZenonT(30), StepInOrder
<1>3. QED
  BY <1>1, <1>2, PTL DEF OutputSpec

(* A connection is closed for a write timeout only if its socket refused   *)
(* data, for any traffic and any protocol: obuf_wtime (worker.c:1738) is   *)
(* renewed in time by the keepalives.                                      *)
THEOREM HealthyAreKept == OutputSpec => []HealthyKept
<1>1. InOrder(c, rleft) => HealthyKept
  BY ZenonT(30) DEF InOrder, Healthy, HealthyKept
<1>2. QED
  BY <1>1, AlwaysInOrder, PTL

(* An open connection was written to, read from and logged in within its   *)
(* limits and one round of send_keepalives, for any limits.                *)
THEOREM TimeoutsAreKept == OutputSpec => []TimeoutsKept
<1>1. InOrder(c, rleft) => TimeoutsKept
  <2>1. SUFFICES ASSUME InOrder(c, rleft), Open(c)
                 PROVE  TimeoutsKept
    BY ZenonT(30) DEF TimeoutsKept
  <2>2. /\ Timely(c, rleft) /\ rleft \in 0..KEEPALIVE_POLL_FREQ /\ c.wage \in Nat
        /\ c.rage \in Nat /\ c.cage \in Nat /\ c.upgraded \in BOOLEAN /\ InputLimit(c) \in Nat
    BY ZenonT(30), <2>1, Fields, Periods DEF InOrder, InBuffer, InputLimit
  <2>3. c.wage <= sock_write_expire + KEEPALIVE_POLL_FREQ
    BY SMTT(30), <2>1, <2>2, Periods DEF Timely
  <2>4. ~(c.inport /\ c.state = "login") => c.rage <= InputLimit(c) + KEEPALIVE_POLL_FREQ
    BY SMTT(30), <2>1, <2>2, Periods DEF Timely
  <2>5. c.inport /\ c.state = "login" =>
          c.cage <= client_login_timeout + (IF c.upgraded THEN 2 ELSE 1) * KEEPALIVE_POLL_FREQ
    <3>1. CASE c.upgraded
      BY SMTT(30), <2>1, <2>2, <3>1, Periods DEF Timely
    <3>2. CASE ~c.upgraded
      BY SMTT(30), <2>1, <2>2, <3>2, Periods DEF Timely
    <3>3. QED
      BY ZenonT(30), <3>1, <3>2
  <2>6. QED
    BY ZenonT(30), <2>3, <2>4, <2>5 DEF TimeoutsKept
<1>2. QED
  BY <1>1, AlwaysInOrder, PTL

(* The output buffer with its three ways of writing (tcp_client_write,     *)
(* ssl_client_write, sctp_client_write) implements the byte stream of      *)
(* OutStream, for any buffer size, any lines and any answers of the socket. *)
THEOREM OutputIsStream == OutputSpec => OutIsStream
<1>1. OutputInit => Stream!StreamInit
  <2>1. ASSUME OutputInit
        PROVE  Stream!StreamInit
    <3>1. Bytes(c) = <<>> /\ c.wire = <<>> /\ Open(c)
      BY ZenonT(30), <2>1, InitInOrder
    <3>2. Pending = <<>>
      BY ZenonT(30), <3>1 DEF Pending, Bytes
    <3>3. QED
      BY ZenonT(30), <3>1, <3>2 DEF Stream!StreamInit, Open
  <2>2. QED
    BY ZenonT(30), <2>1
<1>2. InOrder(c, rleft) /\ [OutputNext]_outputVars => [Stream!StreamNext]_(Stream!streamVars)
  <2>1. SUFFICES ASSUME InOrder(c, rleft), [OutputNext]_outputVars
                 PROVE  [Stream!StreamNext]_(Stream!streamVars)
    BY ZenonT(30)
  <2>2. Pending = Bytes(c) /\ Pending' = Bytes(c')
    BY ZenonT(30) DEF Pending, Bytes, Queued
  <2>3. CASE c' = c
    BY ZenonT(30), <2>2, <2>3 DEF Stream!streamVars
  <2>4. CASE Open(c) /\ Open(c') /\ Streamed(c, c')
    <3>1. PICK line \in Lines \cup {<<>>} : Passed(Bytes(c) \o line, c')
      BY ZenonT(30), <2>4 DEF Streamed
    <3>2. PICK n \in 0..Len(Bytes(c) \o line) :
            /\ c'.wire = SubSeq(Bytes(c) \o line, 1, n)
            /\ Bytes(c') = SubSeq(Bytes(c) \o line, n + 1, Len(Bytes(c) \o line))
      BY ZenonT(30), <3>1 DEF Passed
    <3>3. Stream!Pass(line, n)
      BY ZenonT(30), <2>2, <2>4, <3>2 DEF Stream!Pass, Open
    <3>4. n \in 0..Len(Pending \o line)
      BY ZenonT(30), <2>2, <3>2
    <3>5. QED
      BY ZenonT(30), <3>1, <3>3, <3>4 DEF Stream!StreamNext
  <2>5. CASE Open(c) /\ ~Open(c') /\ Streamed(c, c')
    <3>1. Bytes(c') = <<>> /\ c'.wire = <<>>
      BY ZenonT(30), <2>5 DEF Streamed
    <3>2. Stream!Close
      BY ZenonT(30), <2>2, <2>5, <3>1 DEF Stream!Close, Open
    <3>3. QED
      BY ZenonT(30), <3>2 DEF Stream!StreamNext
  <2>6. QED
    BY ZenonT(30), <2>1, <2>3, <2>4, <2>5, StepInOrder
<1>3. QED
  BY <1>1, <1>2, AlwaysInOrder, PTL DEF OutputSpec, OutIsStream, Stream!StreamSpec
=============================================================================
