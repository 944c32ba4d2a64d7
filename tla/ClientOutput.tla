--------------------------- MODULE ClientOutput ---------------------------
(***************************************************************************)
(* The output side of a client connection (worker.c, tls.c, sctp.c): the   *)
(* output buffer, the three ways of writing it to a socket, and the round  *)
(* of send_keepalives that flushes it, keeps the connection alive, closes  *)
(* it on a timeout and chooses between buffered and immediate writing.     *)
(*                                                                         *)
(* The client is a record with the fields of struct client_t.  Times are   *)
(* kept as ages or as time left and stop counting once they are past every *)
(* limit.  The socket answers a write with the number of bytes it takes or *)
(* with an error, and may choose any answer at any time.                   *)
(***************************************************************************)
EXTENDS Integers, Sequences

CONSTANTS
    Line,                     \* what may be written: byte sequences that end in EOL
    Ping,                     \* the keepalive line; starts with Hash
    EOL, Hash, Byte,          \* two bytes of the set Byte: line feed and '#'
    obuf_size,
    obuf_writes_threshold, obuf_writes_threshold_hys,
    keepalive_interval, KEEPALIVE_POLL_FREQ,
    sock_write_expire,
    client_login_timeout, client_timeout, upstream_timeout,
    Kinds                     \* connections: records [proto, inport, udp]

Protocol == {"tcp", "tls", "sctp"}
Lines == Line \cup {Ping}

(* The periods are fixed in worker.c: 20, 2 and 25 seconds. *)
ASSUME OutputAssumption ==
    /\ Line \subseteq Seq(Byte) /\ Ping \in Seq(Byte) /\ EOL \in Byte /\ Hash \in Byte
    /\ \A p \in Lines : p # <<>> /\ p[Len(p)] = EOL
    /\ Ping[1] = Hash
    /\ obuf_size \in Nat \ {0}
    /\ keepalive_interval \in Nat \ {0} /\ KEEPALIVE_POLL_FREQ \in Nat \ {0}
    /\ KEEPALIVE_POLL_FREQ < keepalive_interval
    /\ sock_write_expire \in Nat /\ keepalive_interval + KEEPALIVE_POLL_FREQ <= sock_write_expire
    /\ obuf_writes_threshold \in Nat /\ obuf_writes_threshold_hys \in 0..obuf_writes_threshold
    /\ Kinds \subseteq [proto : Protocol, inport : BOOLEAN, udp : BOOLEAN]
    /\ \A k \in Kinds : k.udp => k.proto = "tcp" /\ k.inport
    /\ {client_login_timeout, client_timeout, upstream_timeout} \subseteq Nat \ {0}

VARIABLES c,          \* the client
          rleft       \* next_keepalive - tick of its worker

outputVars == <<c, rleft>>

Cell == 0..obuf_size - 1

(* What a socket may answer: bytes taken, or one of these. *)
AGAIN == 0
PIPE == -1
ERROR == -2
WANT_READ == PIPE         \* a TLS answer: first something must be read
Answer(n) == {AGAIN, PIPE, ERROR} \cup 1..n

(* client_alloc, for an accepted client or an uplink. *)
client_alloc(proto, inport, udp, keepalive) ==
    [proto |-> proto, inport |-> inport, udp |-> udp, state |-> "login", why |-> "none",
     obuf |-> [i \in Cell |-> EOL], obuf_start |-> 0, obuf_end |-> 0,
     obuf_flushsize |-> 0, obuf_writes |-> 0, pollout |-> FALSE,
     wage |-> 0, refused |-> FALSE, kleft |-> keepalive,
     rage |-> 0, cage |-> 0, upgraded |-> FALSE, wire |-> <<>>]

OutputInit ==
    /\ \E k \in Kinds, keepalive \in {0, keepalive_interval} :
         c = client_alloc(k.proto, k.inport, k.udp, keepalive)
    /\ rleft = KEEPALIVE_POLL_FREQ

Open(x) == x.state # "closed"
Queued(x) == x.obuf_end - x.obuf_start

(* client_close: the client is wiped. *)
client_close(x, why) ==
    [client_alloc(x.proto, x.inport, FALSE, 0) EXCEPT
       !.state = "closed", !.why = why, !.refused = x.refused]
-----------------------------------------------------------------------------
(***************************************************************************)
(* The output buffer.                                                      *)
(***************************************************************************)

(* client_buffer_outgoing_allocate, when the data fits. *)
MakeRoom(x, len) ==
    IF x.obuf_end + len <= obuf_size THEN x
    ELSE [x EXCEPT !.obuf = [i \in Cell |-> IF i < Queued(x) THEN x.obuf[x.obuf_start + i]
                                            ELSE x.obuf[i]],
                   !.obuf_end = Queued(x), !.obuf_start = 0]

Fits(x, len) == len <= obuf_size - Queued(x)

(* client_buffer_outgoing_data *)
Buffer(x, p) ==
    LET m == MakeRoom(x, Len(p))
    IN  [m EXCEPT !.obuf = [i \in Cell |-> IF i \in m.obuf_end..m.obuf_end + Len(p) - 1
                                           THEN p[i - m.obuf_end + 1] ELSE m.obuf[i]],
                  !.obuf_end = @ + Len(p)]

(* The socket takes n bytes; handle_client_writable leaves obuf_wtime. *)
Take(x, n) ==
    [x EXCEPT !.wire = [i \in 1..n |-> x.obuf[x.obuf_start + i - 1]],
              !.obuf_start = @ + n]

(* Mutant: writing does not renew obuf_wtime, as in handle_client_writable. *)
TakeTimedNever(x, n) == [Take(x, n) EXCEPT !.refused = FALSE]

TakeTimed(x, n) == [Take(x, n) EXCEPT !.wage = 0, !.refused = FALSE]

Emptied(x) == [x EXCEPT !.obuf_start = 0, !.obuf_end = 0]
Refused(x) == [x EXCEPT !.refused = TRUE]

MustFlush(x, len) == x.obuf_end > x.obuf_flushsize \/ (len = 0 /\ x.obuf_end > x.obuf_start)
-----------------------------------------------------------------------------
(***************************************************************************)
(* Writing: r is the answer of the socket, if it is asked.                 *)
(***************************************************************************)

(* obuf_writes is only compared with the threshold: it stops above it. *)
Counted(x) == [x EXCEPT !.obuf_writes = IF @ > obuf_writes_threshold THEN @ ELSE @ + 1]

(* The end of tcp_client_write. *)
TcpWritten(x) == IF x.obuf_start >= x.obuf_end THEN Emptied(x) ELSE [x EXCEPT !.pollout = TRUE]

tcp_client_write(x, p, r) ==
    LET b == Buffer(Counted(x), p)
    IN  IF x.udp /\ p # <<>> /\ p[1] # Hash THEN x          \* udp_client_write
        ELSE IF ~Fits(x, Len(p)) THEN client_close(x, "full")
        ELSE IF ~MustFlush(b, Len(p)) THEN TcpWritten(b)
        ELSE IF r = PIPE \/ (r = ERROR /\ p # <<>>) THEN client_close(x, "error")
        ELSE IF r = AGAIN THEN Refused(b)
        ELSE IF r = ERROR THEN TcpWritten(Refused(b))
        ELSE TcpWritten(TakeTimed(b, r))

(* SSL_write may want to write later or, during a handshake, to read.      *)
ssl_write(x, r) ==
    IF r = ERROR THEN client_close(x, "error")
    ELSE IF r = AGAIN THEN [Refused(x) EXCEPT !.pollout = TRUE]
    ELSE IF r = WANT_READ THEN [Refused(x) EXCEPT !.pollout = FALSE]
    ELSE LET t == TakeTimed(x, r)
         IN  IF t.obuf_start >= t.obuf_end THEN [Emptied(t) EXCEPT !.pollout = FALSE]
             ELSE [t EXCEPT !.pollout = TRUE]

ssl_client_write(x, p, r) ==
    LET b == Buffer(Counted(x), p)
    IN  IF ~Fits(x, Len(p)) THEN client_close(x, "full")
        ELSE IF MustFlush(b, Len(p)) THEN ssl_write(b, r)
        ELSE [b EXCEPT !.pollout = TRUE]

SctpCounted(x) ==
    LET n == Counted(x)
    IN  [n EXCEPT !.obuf_flushsize = IF n.obuf_writes > obuf_writes_threshold /\ @ = 0
                                     THEN obuf_size \div 2 ELSE @]

sctp_client_write(x, p, r) ==
    LET b == IF p = <<>> THEN x ELSE Buffer(SctpCounted(x), p)
        s == IF MustFlush(b, Len(p)) THEN TakeTimed(b, Queued(b)) ELSE b
    IN  IF ~Fits(x, Len(p)) THEN client_close(x, "full")
        ELSE IF MustFlush(b, Len(p)) /\ r # Queued(b) THEN client_close(x, "error")
        ELSE IF s.obuf_start >= s.obuf_end THEN Emptied(s) ELSE s

(* c->write, as collect_new_clients sets it. *)
Write(x, p, r) ==
    CASE x.proto = "tcp" -> tcp_client_write(x, p, r)
      [] x.proto = "tls" -> ssl_client_write(x, p, r)
      [] x.proto = "sctp" -> sctp_client_write(x, p, r)

(* How many bytes a write of p may hand to the socket. *)
Offered(x, p) == Queued(x) + Len(p)
-----------------------------------------------------------------------------
(***************************************************************************)
(* The round of send_keepalives, for this client.                          *)
(***************************************************************************)

(* The keepalive is written at once, otherwise the buffer is flushed. *)
Keepalive(x, r) ==
    IF x.kleft <= 0
    THEN LET w == Write([x EXCEPT !.kleft = keepalive_interval, !.obuf_flushsize = 0], Ping, r)
         IN  IF Open(w) THEN [w EXCEPT !.obuf_flushsize = x.obuf_flushsize] ELSE w
    ELSE Write(x, <<>>, r)

InputTimeout(x) ==
    IF ~x.inport THEN x.rage >= upstream_timeout
    ELSE IF x.state = "login" THEN x.cage >= client_login_timeout
    ELSE x.rage >= client_timeout

WriteTimeout(x) == x.wage > sock_write_expire

AdjustBuffering(x) ==
    LET flush == IF x.obuf_writes > obuf_writes_threshold
                 THEN IF x.obuf_flushsize = 0 THEN obuf_size \div 2 ELSE x.obuf_flushsize
                 ELSE IF x.obuf_writes < obuf_writes_threshold_hys THEN 0
                 ELSE x.obuf_flushsize
    IN  [x EXCEPT !.obuf_flushsize = flush, !.obuf_writes = 0]

(* Mutant: the age of the last write is not looked at. *)
KeepRoundNoExpiry(x, r) ==
    LET w == Keepalive(x, r)
    IN  IF ~Open(w) THEN w
        ELSE IF InputTimeout(w) THEN client_close(w, "silent")
        ELSE AdjustBuffering(w)

KeepRound(x, r) ==
    LET w == Keepalive(x, r)
    IN  IF ~Open(w) THEN w
        ELSE IF InputTimeout(w) THEN client_close(w, "silent")
        ELSE IF WriteTimeout(w) THEN client_close(w, "stuck")
        ELSE AdjustBuffering(w)
-----------------------------------------------------------------------------
(***************************************************************************)
(* Steps.                                                                  *)
(***************************************************************************)
Quiet(x) == [x EXCEPT !.wire = <<>>]

(* Any part of the server writes a line: a packet, a reply, the greeting. *)
Send ==
    /\ Open(c)
    /\ \E p \in Line : \E r \in Answer(Offered(c, p)) : c' = Write(Quiet(c), p, r)
    /\ UNCHANGED rleft

Round ==
    /\ Open(c) /\ rleft <= 0
    /\ \E r \in Answer(Offered(c, Ping)) :
         LET n == Offered(c, IF c.kleft <= 0 THEN Ping ELSE <<>>)
         IN  r <= n /\ c' = KeepRound(Quiet(c), r)
    /\ rleft' = KEEPALIVE_POLL_FREQ

(* handle_client_event with XP_OUT: handle_client_writable, ssl_writable;  *)
(* sctp_writable closes, but no SCTP socket is polled for output.          *)
Writable ==
    /\ Open(c) /\ c.pollout
    /\ IF Queued(c) = 0 THEN c' = [Emptied(Quiet(c)) EXCEPT !.pollout = FALSE]
       ELSE \E r \in Answer(Queued(c)) :
              LET x == Quiet(c) IN
              c' = CASE c.proto = "tls" -> ssl_write(x, r)
                     [] c.proto = "sctp" -> client_close(x, "error")
                     [] c.proto = "tcp" ->
                          IF r \in {PIPE, ERROR} THEN client_close(x, "error")
                          ELSE IF r = AGAIN THEN x
                          ELSE LET t == Take(x, r) IN
                               IF t.obuf_start = t.obuf_end
                               THEN [Emptied(t) EXCEPT !.pollout = FALSE] ELSE t
    /\ UNCHANGED rleft

(* Something arrives: client_postread notes the time, and the handler of   *)
(* the line may log the client in.                                         *)
Readable ==
    /\ Open(c)
    /\ \E s \in {c.state, "connected"} :
         c' = [Quiet(c) EXCEPT !.rage = 0, !.state = s, !.cage = IF s = "login" THEN @ ELSE 0]
    /\ UNCHANGED rleft

(* The other end closes the connection. *)
ReadEof == Open(c) /\ c' = client_close(c, "eof") /\ UNCHANGED rleft

(* ssl_readable without data: SSL_read wants to read, or to write. *)
TlsReadable ==
    /\ Open(c) /\ c.proto = "tls"
    /\ \/ c' = [Quiet(c) EXCEPT !.pollout = @ \/ Queued(c) > 0]
       \/ Queued(c) > 0 /\ \E r \in Answer(Queued(c)) : c' = ssl_write(Quiet(c), r)
    /\ UNCHANGED rleft

(* Mutant: the bytes before obuf_start are written down as well. *)
RestoredWhole(x, udp, keepalive) ==
    [client_alloc(x.proto, x.inport, udp, keepalive) EXCEPT
       !.state = x.state, !.cage = x.cage, !.upgraded = TRUE,
       !.obuf = x.obuf, !.obuf_end = x.obuf_end]

(* worker_client_json and accept_liveupgrade_single: the bytes that wait   *)
(* go to the start of a new buffer; the time of the connect is kept.       *)
Restored(x, udp, keepalive) ==
    [client_alloc(x.proto, x.inport, udp, keepalive) EXCEPT
       !.state = x.state, !.cage = x.cage, !.upgraded = TRUE,
       !.obuf = [i \in Cell |-> IF i < Queued(x) THEN x.obuf[x.obuf_start + i] ELSE EOL],
       !.obuf_end = Queued(x)]

(* A live upgrade: TLS connections and uplinks are closed; the new process *)
(* restores the others, maybe without the UDP feed, and a worker with a    *)
(* new round greets the client.  At most one upgrade is made.              *)
Upgrade ==
    /\ Open(c) /\ ~c.upgraded
    /\ \/ (c.proto = "tls" \/ ~c.inport) /\ c' = client_close(c, "upgrade")
       \/ /\ c.proto # "tls" /\ c.inport
          /\ \E udp \in {c.udp, FALSE}, keepalive \in 0..(keepalive_interval \div 2) - 1, p \in Line :
               \E r \in Answer(Offered(c, p)) : c' = Write(Restored(c, udp, keepalive), p, r)
    /\ rleft' = KEEPALIVE_POLL_FREQ

(* An age counts to just past the latest round that may look at it. *)
Older(n, limit) == IF n > limit + 2 * KEEPALIVE_POLL_FREQ THEN n ELSE n + 1

InputLimit(x) == IF x.inport THEN client_timeout ELSE upstream_timeout

(* A second passes; the worker runs its round as soon as it is due. *)
Tick ==
    /\ Open(c) /\ rleft > 0
    /\ rleft' = rleft - 1
    /\ c' = [Quiet(c) EXCEPT !.wage = Older(@, sock_write_expire),
                             !.kleft = IF @ > 0 THEN @ - 1 ELSE @,
                             !.rage = Older(@, InputLimit(c)),
                             !.cage = IF c.state = "login" THEN Older(@, client_login_timeout) ELSE 0]

OutputNext ==
    Send \/ Round \/ Writable \/ Readable \/ ReadEof \/ TlsReadable \/ Upgrade \/ Tick

OutputSpec == OutputInit /\ [][OutputNext]_outputVars
-----------------------------------------------------------------------------

(* The bytes that wait in the output buffer. *)
Pending == [i \in 1..Queued(c) |-> c.obuf[c.obuf_start + i - 1]]

Stream == INSTANCE OutStream WITH Line <- Lines, queue <- Pending, wire <- c.wire, open <- Open(c)

(* The output buffer of a client, whatever mix of partial writes, moves    *)
(* inside the buffer and changes of the flush size, is a queue of bytes    *)
(* that takes whole lines and loses, repeats and reorders nothing; a live  *)
(* upgrade included.                                                       *)
OutIsStream == Stream!StreamSpec

(* A connection is closed for a write timeout (obuf_wtime, worker.c:1738)  *)
(* only if its socket refused data since the last timed write: the         *)
(* keepalive, which bypasses the buffering, renews obuf_wtime in time.     *)
HealthyKept == c.why = "stuck" => c.refused

(* No connection is forgotten: as long as it stays open, the last timed   *)
(* write, the last read and, for a client that has not logged in, the      *)
(* connect lie no further back than their limits and one round, however    *)
(* the traffic falls between the rounds.  A live upgrade adds one round to *)
(* the time of a login.                                                    *)
TimeoutsKept ==
    Open(c) =>
      /\ c.wage <= sock_write_expire + KEEPALIVE_POLL_FREQ
      /\ c.inport /\ c.state = "login" => c.cage <= client_login_timeout
                                             + (IF c.upgraded THEN 2 ELSE 1) * KEEPALIVE_POLL_FREQ
      /\ ~(c.inport /\ c.state = "login") => c.rage <= InputLimit(c) + KEEPALIVE_POLL_FREQ
=============================================================================
