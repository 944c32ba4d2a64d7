--------------------------- MODULE MCConnections ---------------------------
(***************************************************************************)
(* Connections for TLC: the output and the input of one, the poll set of a *)
(* worker, the sessions of clients, and the uplinks.  The parts do not     *)
(* interact; part says which of them moves in a behaviour.                 *)
(***************************************************************************)
EXTENDS ClientOutput, ClientInput, PollSet, Sessions, Uplinks

VARIABLE part

ioVars == <<outputVars, inputVars, pollVars>>
vars == <<part, ioVars, sessionVars, uplinkVars>>

(* Two lines and the keepalive: 0 ends a line, 2 is '#'. *)
MCLine == {<<1, 0>>, <<1, 1, 0>>}
MCPing == <<2, 0>>
MCKind(proto, inport, udp) == [proto |-> proto, inport |-> inport, udp |-> udp]
MCKinds == {MCKind("tcp", TRUE, FALSE), MCKind("tcp", TRUE, TRUE), MCKind("tls", TRUE, FALSE),
            MCKind("sctp", FALSE, FALSE)}

(* The names B and "none" are in different buckets, A and "none" in one. *)
MCUserHash(u) == IF u = "B" THEN 1 ELSE 0
Says(cmd, u, args, p) == [cmd |-> cmd, user |-> u, args |-> args, port |-> p]

(* Four clients of one name, three of them with a live upgrade; clients    *)
(* with and without TLS, certificates and UDP; clients that fail to log    *)
(* in.                                                                     *)
MCScenarios == {
  [lines |-> {Says("user", "A", <<"pass">>, 0)}, certs |-> {}, accepts |-> 4, upgrades |-> 0],
  [lines |-> {Says("user", "A", <<"pass">>, 0)}, certs |-> {}, accepts |-> 3, upgrades |-> 1],
  [lines |-> {Says("user", "A", <<"pass">>, 0), Says("user", "A", <<"pass", "fault", "udp">>, 1025),
              Says("user", "B", <<"udp">>, 1025)},
   certs |-> {NoUser, "A"}, accepts |-> 2, upgrades |-> 1],
  [lines |-> {Says("comment", NoUser, <<>>, 0), Says("short", NoUser, <<>>, 0),
              Says("other", NoUser, <<>>, 0), Says("denied", "A", <<>>, 0),
              Says("user", "A", <<"udp", "noversion">>, 1024), Says("user", "B", <<"pass">>, 0)},
   certs |-> {}, accepts |-> 2, upgrades |-> 1]}

MCUplinks == {<<>>, <<"full", "full">>, <<"multi", "multi">>, <<"full", "multi">>}

Init ==
  /\ part \in {"output", "input", "poll", "session", "uplink"}
  /\ OutputInit /\ InputInit /\ PollInit /\ SessionInit /\ UplinkInit
  /\ part # "output" => c.proto = "sctp" /\ c.kleft = 0
  /\ part # "input" => stream = <<>>
  /\ part # "session" => scenario.accepts = 4
  /\ part # "uplink" => latest = <<>> /\ operator = "careful"

Next ==
  \/ /\ UNCHANGED <<part, sessionVars, uplinkVars>>
     /\ \/ part = "output" /\ OutputNext /\ UNCHANGED <<inputVars, pollVars>>
        \/ part = "input" /\ InputNext /\ UNCHANGED <<outputVars, pollVars>>
        \/ part = "poll" /\ PollNext /\ UNCHANGED <<outputVars, inputVars>>
  \/ part = "session" /\ SessionNext /\ UNCHANGED <<part, ioVars, uplinkVars>>
  \/ part = "uplink" /\ UplinkNext /\ UNCHANGED <<part, ioVars, sessionVars>>

Spec == Init /\ [][Next]_vars
=============================================================================
