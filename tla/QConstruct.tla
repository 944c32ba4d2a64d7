----------------------------- MODULE QConstruct -----------------------------
(***************************************************************************)
(* The Q construct algorithm of parse_qc.c, as functions of the path.      *)
(*                                                                         *)
(* A path (the digipeater path after the destination) is a sequence of     *)
(* elements.  An element is a tuple of strings:                            *)
(*   <<"q", proto, type>>  a three-character element that starts with q    *)
(*   <<"q">>               a longer or shorter element starting with q     *)
(*   <<name, "">>          a callsign                                      *)
(*   <<name, "*">>         a callsign with the used-digipeater mark        *)
(*   <<"">>                nothing: what follows a trailing comma          *)
(* Names that differ only in case are not distinguished.                   *)
(*                                                                         *)
(* A server srv is a record: id (serverid), alike (the names that hold the *)
(* serverid as a proper part, such as SRV-12 for SRV-1), local (the        *)
(* validated logins on its client list), badcalls (names that no callsign  *)
(* check accepts) and the configuration switches.  A client c is a record: *)
(* user, validated, state, flags (its CLFLAGS_) and hex (addr_hex).        *)
(***************************************************************************)
EXTENDS Integers, Sequences, FiniteSetsExt

Call(n) == <<n, "">>
Starred(n) == <<n, "*">>
Q(p, t) == <<"q", p, t>>
OddQ == <<"q">>
NoCall == <<"">>

(* The protocol this server writes (q_protocol_id). *)
ProtocolId == "A"
Gen(t) == Q(ProtocolId, t)

TcpIp == Starred("TCPIP")
TcpXx == Starred("TCPXX")

StartsWithQ(e) == e[1] = "q"
IsQ(e) == Len(e) = 3
NoQ == <<"q", "", "">>

(* memmem of ",q": the first element starting with q, 0 if there is none. *)
QIndex(via) ==
  LET at == {i \in 1..Len(via) : StartsWithQ(via[i])}
  IN  IF at = {} THEN 0 ELSE Min(at)

Has(c, f) == f \in c.flags

(* at is the element pb->qconst_start points to in the new path; kept is   *)
(* the length of the old path when its own construct stays, else 0.        *)
Dropped(code) == [drop |-> code, via |-> <<>>, at |-> 1, kept |-> 0]
Passed(via, at) == [drop |-> "", via |-> via, at |-> at, kept |-> 0]
Kept(via, at, n) == [drop |-> "", via |-> via, at |-> at, kept |-> n]

-----------------------------------------------------------------------------
(* check_invalid_q_callsign: letters, digits and a dash; no star.  An      *)
(* element that starts with q passes like any other.                       *)
InvalidQCall(srv, e) == Len(e) = 2 /\ (e[2] = "*" \/ e[1] \in srv.badcalls)

(* memmem finds the first element that contains the server's id; only that *)
(* one is compared with the whole id.                                      *)
MyCallFound(srv, calls) ==
  LET at == {i \in 1..Len(calls) : Len(calls[i]) = 2 /\ calls[i][1] \in {srv.id} \cup srv.alike}
  IN  at # {} /\ calls[Min(at)] = Call(srv.id)

(* Mutant: the clients of this server are not looked up. *)
CallFaultNotLocal(srv, c, src, qtype, calls, i) ==
  IF \E j \in i + 1..Len(calls) : calls[j] = calls[i] THEN "CALL_TWICE"
  ELSE IF calls[i] # Call(c.user) /\ InvalidQCall(srv, calls[i]) THEN "INVALID_CALL"
  ELSE IF qtype = "U" /\ calls[i] = Call(src) THEN "QAU_SRCCALL"
  ELSE ""

(* What is wrong with the i-th call after the q construct, if anything. *)
CallFault(srv, c, src, qtype, calls, i) ==
  LET isLogin == calls[i] = Call(c.user)
  IN  IF \E j \in i + 1..Len(calls) : calls[j] = calls[i] THEN "CALL_TWICE"
      ELSE IF isLogin /\ c.state = "CONNECTED" /\ Has(c, "INPORT") /\ i # Len(calls)
           THEN "LOGIN_NOT_LAST"
      ELSE IF ~isLogin /\ calls[i] \in {Call(n) : n \in srv.local} THEN "LOCAL_CLIENT"
      ELSE IF ~isLogin /\ InvalidQCall(srv, calls[i]) THEN "INVALID_CALL"
      ELSE IF qtype = "U" /\ calls[i] = Call(src) THEN "QAU_SRCCALL"
      ELSE ""

(* The calls after the construct at qi. *)
CallsAfter(qi, path) ==
  IF qi = 0 \/ qi > Len(path) THEN <<>>
  ELSE SelectSeq(SubSeq(path, qi + 1, Len(path)), LAMBDA e : e # NoCall)

(* q_dropcheck once the calls after the construct are known.  path is the  *)
(* path up to path_end, qi the index of the element memmem found (0 if     *)
(* none); new is the generated construct.  When path_end was moved back to *)
(* the q, the search for the server's id is given a negative length: stray *)
(* says what such a search finds.                                          *)
DropCheckCalls(srv, c, src, q, qi, path, new, stray, after) ==
  LET cut == qi > Len(path)
      faults == {i \in 1..Len(after) : CallFault(srv, c, src, q[3], after, i) # ""}
      loginIn == \E i \in 1..Len(after) : after[i] = Call(c.user)
      login == IF c.validated /\ ~loginIn /\ c.state # "COREPEER" THEN <<Call(c.user)>> ELSE <<>>
  IN  IF q[2] # ProtocolId /\ srv.disallow_other_protocol THEN Dropped("Q_DISALLOW_PROTOCOL")
      ELSE IF q[3] = "X" /\ srv.disallow_unverified THEN Dropped("Q_QAX")
      ELSE IF q[3] = "Z" THEN Dropped("Q_QAZ")
      ELSE IF (cut /\ stray) \/ MyCallFound(srv, after) THEN Dropped("MYCALL")
      ELSE IF faults # {} THEN Dropped(CallFault(srv, c, src, q[3], after, Min(faults)))
      ELSE IF q[3] = "I" THEN Kept(path \o login \o <<Call(srv.id)>>, qi, Len(path))
      ELSE IF new # <<>> THEN Passed(path \o new, Len(path) + 1)
      ELSE IF qi = 0 \/ cut THEN Dropped("Q_BUG")
      ELSE Kept(path, qi, Len(path))

(* q_dropcheck *)
DropCheck(srv, c, src, q, qi, path, new, stray) ==
  DropCheckCalls(srv, c, src, q, qi, path, new, stray, CallsAfter(qi, path))

-----------------------------------------------------------------------------
EndsInI(path) == path # <<>> /\ path[Len(path)] = Call("I")
(* The call before a trailing ,I and what is left of the path without both. *)
ViaCall(path) == path[Len(path) - 1]
BeforeViaCall(path) == SubSeq(path, 1, Len(path) - 2)

WithTcpIp(path, new) ==
  IF path # <<>> /\ path[Len(path)] = TcpIp
  THEN Passed(path \o new, Len(path) + 1)
  ELSE Passed(path \o <<TcpIp>> \o new, Len(path) + 1)

(* The inbound rules for a packet of another station, sent by a validated  *)
(* client on a client-only port: qAo or qAO.                               *)
ClientOnly(srv, c, src, q, qi, path, stray) ==
  LET renamed == CASE q[3] \in {"R", "r"} -> Q(q[2], "o")
                   [] q[3] \in {"S", "C"} -> Q(q[2], "O")
                   [] OTHER -> q
  IN  IF q # NoQ
      THEN DropCheck(srv, c, src, renamed, qi, [path EXCEPT ![qi] = renamed], <<>>, stray)
      ELSE IF EndsInI(path) /\ Len(path) > 1
      THEN DropCheck(srv, c, src, Gen("o"), qi, BeforeViaCall(path), <<Gen("o"), ViaCall(path)>>, stray)
      ELSE DropCheck(srv, c, src, Gen("O"), qi, path, <<Gen("O"), Call(c.user)>>, stray)

(* Inbound, no construct yet: qAR or qAr for ,I; qAC for the client's own  *)
(* packets; qAS for the others.                                            *)
InboundWithoutQ(srv, c, src, qi, path, stray) ==
  LET t == IF ViaCall(path) = Call(c.user) THEN "R" ELSE "r"
  IN  IF EndsInI(path)
      THEN IF Len(path) = 1 THEN Dropped("Q_I_NO_VIACALL")
           ELSE DropCheck(srv, c, src, Gen(t), qi, BeforeViaCall(path), <<Gen(t), ViaCall(path)>>, stray)
      ELSE IF src = c.user THEN WithTcpIp(path, <<Q("A", "C"), Call(srv.id)>>)
      ELSE DropCheck(srv, c, src, Gen("S"), qi, path, <<Gen("S"), Call(c.user)>>, stray)

Inbound(srv, c, src, q, qi, path, stray) ==
  LET own == src = c.user
      single == qi + 1 = Len(path)
  IN  IF Has(c, "UDPSUBMIT")
      THEN WithTcpIp(IF q # NoQ THEN SubSeq(path, 1, qi - 1) ELSE path, <<Gen("U"), Call(srv.id)>>)
      ELSE IF ~c.validated /\ own
      THEN IF q # NoQ /\ ~single THEN Dropped("NONVAL_MULTI_Q_CALLS")
           ELSE Passed(<<TcpXx, Gen("X"), Call(srv.id)>>, 1)
      ELSE IF c.validated /\ Has(c, "CLIENTONLY") /\ own
      THEN LET head == IF qi > 0 THEN SubSeq(path, 1, qi - 1) ELSE <<>>
           IN  Passed(head \o <<Gen("C"), Call(srv.id)>>, Len(head) + 1)
      ELSE IF c.validated /\ Has(c, "CLIENTONLY") THEN ClientOnly(srv, c, src, q, qi, path, stray)
      ELSE IF q # NoQ THEN DropCheck(srv, c, src, q, qi, path, <<>>, stray)
      ELSE InboundWithoutQ(srv, c, src, qi, path, stray)

(* From a server this one connected to, or from a core peer. *)
Outbound(srv, c, src, q, qi, path, stray) ==
  IF q = NoQ /\ Has(c, "UPLINKPORT")
  THEN IF EndsInI(path)
       THEN IF Len(path) = 1 THEN Dropped("Q_I_NO_VIACALL")
            ELSE DropCheck(srv, c, src, Gen("r"), qi, BeforeViaCall(path), <<Gen("r"), ViaCall(path)>>, stray)
       ELSE DropCheck(srv, c, src, Gen("S"), qi, path, <<Gen("S"), Call(c.hex)>>, stray)
  ELSE DropCheck(srv, c, src, q, qi, path, <<>>, stray)

(* Whether the element found is a construct that is followed by a call. *)
GoodQ(via, qi) == qi > 0 /\ qi < Len(via) /\ IsQ(via[qi]) /\ via[qi + 1] # NoCall

(* The path of a client's own packet. *)
OwnPath(srv, c) ==
  IF c.validated THEN Passed(<<TcpIp, Gen("C"), Call(srv.id)>>, 1)
  ELSE Passed(<<TcpXx, Gen("X"), Call(srv.id)>>, 1)

(* The construct of a path, and the path up to path_end: an element that   *)
(* starts with q without being a construct ends it.                        *)
QOf(via, qi) == IF GoodQ(via, qi) THEN via[qi] ELSE NoQ
PathOf(via, qi) == IF GoodQ(via, qi) \/ qi = 0 THEN via ELSE SubSeq(via, 1, qi - 1)

(* The rules of q_process, in their order. *)
QRules(srv, c, src, q, qi, path, stray) ==
  LET own == src = c.user
  IN  IF qi = 0 /\ own /\ ~Has(c, "UDPSUBMIT")
      THEN OwnPath(srv, c)
      ELSE IF c.validated /\ own /\ Has(c, "INPORT") /\ q[3] # "I" /\ ~Has(c, "UDPSUBMIT")
      THEN OwnPath(srv, c)
      ELSE IF c.state = "CONNECTED" /\ Has(c, "INPORT")
      THEN Inbound(srv, c, src, q, qi, path, stray)
      ELSE Outbound(srv, c, src, q, qi, path, stray)

(* q_process: from the path of an incoming packet to its path in the pbuf. *)
QProcess(srv, c, src, via, stray) ==
  LET qi == QIndex(via)
  IN  QRules(srv, c, src, QOf(via, qi), qi, PathOf(via, qi), stray)
=============================================================================
