------------------------------ MODULE MCRelay ------------------------------
(***************************************************************************)
(* Small instances of Relay and of RelayCases for TLC.  A behaviour is     *)
(* either one of Relay or one case.                                        *)
(***************************************************************************)
EXTENDS Relay, RelayCases

NoCase == [kind |-> "relay"]

(* One bucket, so that every callsign shares its chain with the others. *)
MCBucket(n) == 1
MCStarts(n, p) == n = p \/ <<n, p>> \in {<<"ST-1", "ST">>, <<"ST", "S">>, <<"ST-1", "S">>}

BaseClient == [user |-> "", validated |-> TRUE, state |-> "CONNECTED", flags |-> {"INPORT"}, hex |-> "HEX",
               id |-> 0, quirks |-> FALSE, heard |-> NoneHeard, courtesy |-> NoneHeard, loc_known |-> FALSE,
               loc |-> 0, negdef |-> <<>>, posdef |-> <<>>, neguser |-> <<>>, posuser |-> <<>>, no_tx |-> FALSE, filter_s |-> <<>>]

IgateFlags == {"INPORT", "USERFILTEROK", "IGATE"}

Friend == [Blank0 EXCEPT !.type = "f", !.call = "ST", !.dist = 2]
Mine == [Blank0 EXCEPT !.type = "m", !.dist = 2]
NearST == [Blank0 EXCEPT !.type = "t", !.bits = {"STATUS"}, !.call = "ST", !.dist = 2]
Weather == [Blank0 EXCEPT !.type = "t", !.bits = {"WX"}]

MCClients ==
  <<[BaseClient EXCEPT !.user = "IG", !.id = 1, !.flags = IgateFlags],
    [BaseClient EXCEPT !.user = "US", !.id = 2, !.flags = IgateFlags, !.posuser = <<Friend, Mine>>,
                        !.filter_s = <<Term(FALSE, Friend), Term(FALSE, Mine)>>],
    [BaseClient EXCEPT !.user = "UP", !.id = 3, !.flags = {"UPLINKPORT"}],
    [BaseClient EXCEPT !.user = "DF", !.id = 4, !.flags = {"INPORT", "DUPEFEED"}]>>

MCServer == [id |-> "SRV", alike |-> {"SRV-1"}, local |-> {"IG", "US", "DF"}, badcalls |-> {"BAD"}, longcalls |-> {"LONG"},
             disallow_other_protocol |-> FALSE, disallow_unverified |-> FALSE, disallow_igate |-> {},
             disallow_src |-> {}, cwop |-> {}, filtered |-> TRUE]

BaseInfo == [ty |-> "x", room |-> TRUE, sub |-> "", fix |-> "none", place |-> 0, sym |-> <<"/", ">">>, wx |-> FALSE,
             name |-> "", full |-> FALSE, inner |-> <<>>]
At(place) == [BaseInfo EXCEPT !.ty = "!", !.fix = "ok", !.place = place]
Status == [BaseInfo EXCEPT !.ty = ">"]
MessageTo(n) == [BaseInfo EXCEPT !.ty = ":", !.name = n]
Wx == [BaseInfo EXCEPT !.ty = "_"]
ObjectAt(place) == [BaseInfo EXCEPT !.ty = ";", !.fix = "ok", !.place = place, !.name = "ST"]
Packet(src, via, info) == [src |-> src, dst |-> "APRS", via |-> via, info |-> info, shape |-> "good", party |-> "rf"]

FromElsewhere == <<TcpIp, Gen("C"), Call("OTHER")>>
FromRadio == <<Gen("R"), Call("FAR")>>

MCPackets ==
  <<{Packet("ST", <<Call("WIDE")>>, At(1)), Packet("ST", <<Call("WIDE")>>, Status)},
    {Packet("US", <<>>, MessageTo("ST")), Packet("US", <<>>, At(2))},
    {Packet("ST", FromRadio, At(1)), Packet("ST", FromElsewhere, At(5))},
    {}>>

MCCommands == {[kind |-> "terms", terms |-> <<Term(FALSE, NearST)>>], [kind |-> "default"]}

-----------------------------------------------------------------------------
Kind(user, valid, state, flags) ==
  [BaseClient EXCEPT !.user = user, !.validated = valid, !.state = state, !.flags = flags]

MCQServer == [MCServer EXCEPT !.local = {"LOGIN", "IGATE"}]
MCQPeer == [MCServer EXCEPT !.id = "PEER", !.alike = {}, !.local = {}]
MCQClients ==
  {Kind("LOGIN", v, "CONNECTED", f) : v \in {TRUE, FALSE},
     f \in {IgateFlags, {"INPORT", "FULLFEED"}, {"INPORT", "CLIENTONLY", "USERFILTEROK", "IGATE"},
            {"INPORT", "CLIENTONLY", "UDPSUBMIT"}}}
  \cup {Kind("OTHER", TRUE, "CONNECTED", {"UPLINKPORT"}), Kind("OTHER", TRUE, "COREPEER", {"UPLINKPORT"})}
MCReturnLinks ==
  {Kind("PEER", TRUE, "CONNECTED", {"UPLINKPORT"}), Kind("PEER", TRUE, "COREPEER", {"UPLINKPORT"}),
   Kind("PEER", TRUE, "CONNECTED", {"INPORT", "FULLFEED"})}
MCQSrcs == {"LOGIN", "STATION"}
Elements == {Starred("WIDE"), Call("IGATE"), Call("LOGIN"), Call("SRV"), Call("SRV-1"), Call("I"), TcpIp,
             OddQ, NoCall, Gen("C"), Gen("R"), Gen("I"), Gen("Z"), Call("FAR")}
(* Only the last element of a path can be empty. *)
MCQPaths ==
  LET calls == {Call(n) : n \in {"IGATE", "LOGIN", "SRV", "SRV-1", "FAR"}}
  IN  {v \in UNION {[1..n -> Elements] : n \in 0..3} : \A i \in 1..Len(v) - 1 : v[i] # NoCall}
      \cup {<<Gen(t), a, b, c>> : t \in {"C", "R", "I"}, a \in calls, b \in calls, c \in calls}

-----------------------------------------------------------------------------
MCFilterClient == [BaseClient EXCEPT !.user = "US", !.flags = IgateFlags]
FilterTerms ==
  {Term(n, f) : n \in {TRUE, FALSE},
     f \in {[Blank0 EXCEPT !.type = "b", !.refs = <<Ref("ST", FALSE)>>],
            [Blank0 EXCEPT !.type = "b", !.refs = <<Ref("S", TRUE), Ref("XX", FALSE)>>],
            [Blank0 EXCEPT !.type = "p", !.refs = <<Ref("S", FALSE)>>],
            [Blank0 EXCEPT !.type = "p", !.refs = <<Ref("S", TRUE)>>],
            [Blank0 EXCEPT !.type = "d", !.refs = <<Ref("WIDE", FALSE)>>],
            [Blank0 EXCEPT !.type = "o", !.refs = <<Ref("ST", FALSE)>>],
            [Blank0 EXCEPT !.type = "g", !.refs = <<Ref("ST", TRUE)>>],
            [Blank0 EXCEPT !.type = "t", !.bits = {"STATUS", "MESSAGE"}],
            [Blank0 EXCEPT !.type = "t", !.bits = {"*"}],
            [Blank0 EXCEPT !.type = "q", !.bits = {"R"}],
            [Blank0 EXCEPT !.type = "e", !.refs = <<Ref("FAR", FALSE)>>],
            [Blank0 EXCEPT !.type = "u", !.refs = <<Ref("APRS", FALSE)>>],
            [Blank0 EXCEPT !.type = "s", !.pri = {">"}],
            [Blank0 EXCEPT !.type = "s", !.alt = {">"}, !.over = {"A"}],
            [Blank0 EXCEPT !.type = "a", !.lo = 1, !.hi = 2],
            [Blank0 EXCEPT !.type = "r", !.lo = 5, !.dist = 1]}}
MCFilterLists ==
  LET sets == {t \in FilterTerms : t.f.type \in {"b", "p"}}
  IN  [1..2 -> FilterTerms] \cup [1..3 -> sets]

MCFilterPackets ==
  {Packet("ST", <<Starred("WIDE")>> \o FromRadio, At(1)), Packet("ST-1", FromElsewhere, Status),
   Packet("XX", <<Call("WIDE"), Starred("RELAY")>> \o FromRadio, ObjectAt(5)),
   Packet("XX", FromElsewhere, MessageTo("ST")),
   Packet("XX", FromElsewhere, [BaseInfo EXCEPT !.ty = "}", !.name = "ST", !.inner = <<[At(5) EXCEPT !.sym = <<"A", ">">>]>>])}
MCFilterPbufs == {IncomingParse(MCServer, MCClients[3], p, 0, FALSE, FALSE).pb : p \in MCFilterPackets}
MCFilterEnv == [now |-> 0, db |-> EmptyHistory, entrycall |-> <<>>, wx |-> <<>>]

-----------------------------------------------------------------------------
FrozenRelay == RelayInit

Init == \/ RelayInit /\ case = NoCase
        \/ FrozenRelay /\ CasesInit
Next == \/ case = NoCase /\ RelayNext /\ UNCHANGED case
        \/ case # NoCase /\ UNCHANGED <<rvars, case>>
Spec == Init /\ [][Next]_<<rvars, case>>
=============================================================================
