------------------------------ MODULE Incoming ------------------------------
(***************************************************************************)
(* incoming_parse: from a line of a client to a packet buffer, or to the   *)
(* reason for which it is dropped.  The hand-over of the buffer to the     *)
(* dupecheck thread is in Pipeline.                                        *)
(*                                                                         *)
(* A packet p is a record: src, dst and via (a path of QConstruct), info   *)
(* (an information field of AprsParse), shape (what the header looks like, *)
(* see Shape) and party, the header of a third-party packet: "ip" when it  *)
(* has TCPIP or TCPXX in it.                                               *)
(***************************************************************************)
EXTENDS QConstruct, AprsParse

(* What the checks on the text of the header find, in their order.  The    *)
(* blanks are what quirks mode takes out: "lead" before the source, "src"  *)
(* after it, "path" after path elements, "inside" within one.              *)
Shapes == {"good", "blank", "lead", "src", "path", "inside",
           "short", "nocolon", "nodst", "nopath", "nobody", "long"}

ShapeFault(quirks, shape) ==
  CASE shape = "blank" -> IF quirks THEN "EMPTY" ELSE "SHORT_PACKET"
    [] shape \in {"lead", "src"} -> IF quirks THEN "" ELSE "INV_SRCCALL"
    [] shape = "path" -> IF quirks THEN "" ELSE "INV_PATH_CALL"
    [] shape = "inside" -> "INV_PATH_CALL"
    [] shape = "short" -> "SHORT_PACKET"
    [] shape = "nocolon" -> "NO_COLON"
    [] shape = "nodst" -> "NO_DST"
    [] shape = "nopath" -> "NO_PATH"
    [] OTHER -> ""

(* digi_path_drop *)
NoGate(via) == \E i \in 1..Len(via) : via[i][1] \in {"NOGATE", "RFONLY"}

(* check_path_calls: a three-character element starting with q is not a    *)
(* callsign; a trailing comma is not looked at.  A callsign that is only   *)
(* good after a q construct is the 32-digit address of a server.           *)
PathCallsOk(srv, via) ==
  \A i \in 1..Len(via) :
    Len(via[i]) = 2 =>
      /\ via[i][1] \notin srv.badcalls
      /\ via[i][1] \in srv.longcalls => \E j \in 1..i - 1 : IsQ(via[j])

(* check_igate_calls: a construct that is kept, and the calls after it. *)
IgateDisallowed(srv, q) ==
  \E i \in q.at..q.kept : q.via[i][1] \in srv.disallow_igate

HasTcpXx(via) == \E i \in 1..Len(via) : via[i][1] = "TCPXX"

(* filter_check_tcpip: TCPIP* in front of what qconst_start points to. *)
HasTcpIp(via, at) == \E i \in 1..at - 1 : via[i] = TcpIp

(* filter_entrycall_insert takes the call after the construct from the     *)
(* fifth character on; where qconst_start points to TCPIP* there is none,  *)
(* and a 32-digit address is too long for one.                             *)
EntryCall(srv, via, at) ==
  IF IsQ(via[at]) /\ at < Len(via) /\ Len(via[at + 1]) = 2 /\ via[at + 1][1] \notin srv.longcalls
  THEN via[at + 1][1] ELSE ""

Fault(rc) == [rc |-> rc, queued |-> FALSE, pb |-> <<>>]

FreshPbuf(c, p, via, at, now) ==
  [origin |-> c.id, t |-> now, src |-> p.src, dst |-> p.dst, via |-> via, at |-> at,
   entry |-> "", types |-> {}, srcname |-> p.src, dstname |-> "", pos |-> 0,
   sym |-> <<"", "">>, info |-> p.info, dupe |-> FALSE, haspos |-> FALSE, tcpip |-> FALSE, upstr |-> FALSE, rc |-> "0"]

(* The checks up to the Q construct, in the order of the code. *)
HeaderFault(srv, c, p) ==
  IF ShapeFault(c.quirks, p.shape) # "" THEN ShapeFault(c.quirks, p.shape)
  ELSE IF p.src \in srv.badcalls THEN "INV_SRCCALL"
  ELSE IF p.src \in srv.disallow_src THEN "DIS_SRCCALL"
  ELSE IF p.shape = "nobody" THEN "NO_BODY"
  ELSE IF p.dst \in srv.badcalls THEN "INV_DSTCALL"
  ELSE IF NoGate(p.via) THEN "NOGATE"
  ELSE IF ~PathCallsOk(srv, p.via) THEN "INV_PATH_CALL"
  ELSE IF p.info.ty = "}" /\ p.party = "ip" THEN "3RD_PARTY_IP"
  ELSE ""

(* What is decided about the buffer once the path is final: its class, the *)
(* looped mark, and what parse_aprs finds.                                 *)
Classified(srv, c, p, pb) ==
  LET up == c.state = "COREPEER" \/ Has(c, "UPLINKPORT")
      looped == p.src # c.user /\ p.src \in srv.local
  IN  Parse([pb EXCEPT !.upstr = up, !.dupe = looped], p.info, p.src \in srv.cwop)

(* What becomes of the buffer pb once the packet is parsed. *)
Parsed(srv, c, p, q, pb) ==
  LET toServer == pb.rc = "0" /\ "MESSAGE" \in pb.types /\ pb.dstname = "SERVER"
      Not(rc) == [rc |-> rc, queued |-> FALSE, pb |-> pb]
      filled == [pb EXCEPT !.tcpip = HasTcpIp(q.via, q.at),
                           !.entry = IF srv.filtered THEN EntryCall(srv, q.via, q.at) ELSE ""]
  IN  IF pb.rc \notin {"0", "1"} THEN Not(pb.rc)
      ELSE IF toServer THEN Not("SERVER")
      ELSE IF "QUERY" \in pb.types THEN Not("GENERAL_QUERY")
      ELSE IF srv.disallow_unverified /\ ~c.validated THEN Not("DISALLOW_UNVERIFIED")
      ELSE IF srv.disallow_unverified /\ HasTcpXx(p.via) THEN Not("DISALLOW_UNVERIFIED_PATH")
      ELSE [rc |-> pb.rc, queued |-> TRUE, pb |-> filled]

(* incoming_parse with the result q of the Q construct algorithm. *)
ParseWithQ(srv, c, p, now, oom, q) ==
  IF HeaderFault(srv, c, p) # "" THEN Fault(HeaderFault(srv, c, p))
  ELSE IF q.drop \notin {"", "Q_BUG"} THEN Fault(q.drop)
  ELSE IF IgateDisallowed(srv, q) THEN Fault("DIS_IGATECALL")
  ELSE IF p.shape = "long" THEN Fault("LONG_PACKET")
  ELSE IF oom THEN Fault("OUT_OF_PBUFS")
  ELSE IF c.state # "COREPEER" /\ ~Has(c, "UPLINKPORT") /\ Has(c, "DUPEFEED") THEN Fault("0")
  ELSE IF c.state # "COREPEER" /\ ~Has(c, "UPLINKPORT") /\ ~Has(c, "INPORT") THEN Fault("CLASS_FAIL")
  ELSE IF q.drop = "Q_BUG" THEN Fault("Q_BUG")
  ELSE Parsed(srv, c, p, q, Classified(srv, c, p, FreshPbuf(c, p, q.via, q.at, now)))

(* incoming_parse.  rc is the returned code, queued whether the buffer is  *)
(* put on the worker's incoming queue, pb the buffer as parsed.            *)
IncomingParse(srv, c, p, now, stray, oom) ==
  ParseWithQ(srv, c, p, now, oom, QProcess(srv, c, p.src, p.via, stray))
=============================================================================
