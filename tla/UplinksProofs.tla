--------------------------- MODULE UplinksProofs ---------------------------
(***************************************************************************)
(* NoUplinkLoop and LinksHaveClients hold for every set of configurations, *)
(* every number of cells, reloads and faults.                              *)
(*                                                                         *)
(* Neither is inductive.  That a second regular uplink is never connected  *)
(* needs what the loop of the uplink thread has seen of the links it has   *)
(* passed (ScanSeen), that nothing but the thread itself connects a link,  *)
(* that all links are of one kind, and that no connection stands when a    *)
(* configuration is replaced.                                              *)
(***************************************************************************)
EXTENDS Uplinks, FiniteSetTheorems, TLAPS

Kind == {"full", "multi"}
LinkRec == [kind : Kind, state : {"down", "connecting", "connected"}, client_ptr : Nat]
CellRec == [st : {"free", "made", "up"}, kind : Kind,
            phase : {"init", "logresp", "connected"}, shut : BOOLEAN]

UplinkTypes ==
    /\ uplink_config \in [DOMAIN uplink_config -> LinkRec]
    /\ \E n \in Nat : DOMAIN uplink_config = 1..n
    /\ ucell \in [UplinkCell -> CellRec]
    /\ uplink_clients \subseteq UplinkCell
    /\ uplink_config_install \in Seq(Kind) /\ pending.cfg \in Seq(Kind)
    /\ l \in Nat \ {0} /\ next_uplink \in Nat

OneKind(cfg) == \A j, k \in DOMAIN cfg : cfg[j] = cfg[k]

(* No configuration mixes the kinds of uplinks. *)
KindsApart ==
    /\ OneKind(pending.cfg) /\ OneKind(uplink_config_install)
    /\ \A j, k \in DOMAIN uplink_config : uplink_config[j].kind = uplink_config[k].kind

IsConnected(k) == uplink_config[k].state = "connected"

(* LinksHaveClients, with the kinds. *)
LinkHolds(k) ==
    IsConnected(k) =>
      /\ uplink_config[k].client_ptr \in uplink_clients
      /\ ucell[uplink_config[k].client_ptr].st # "free"
      /\ ucell[uplink_config[k].client_ptr].kind = uplink_config[k].kind
CellHolds(c) ==
    ucell[c].st # "free" /\ ~ucell[c].shut =>
      \E k \in DOMAIN uplink_config : IsConnected(k) /\ uplink_config[k].client_ptr = c
Apart(j, k) ==
    j # k /\ IsConnected(j) /\ IsConnected(k) =>
      uplink_config[j].client_ptr # uplink_config[k].client_ptr
LinksInv ==
    /\ \A k \in DOMAIN uplink_config : LinkHolds(k)
    /\ \A c \in UplinkCell : CellHolds(c)
    /\ \A j, k \in DOMAIN uplink_config : Apart(j, k)

(* Where the uplink thread is, and what it relies on there. *)
ThreadInv ==
    /\ upc \in {"connect", "answer", "hand", "account"} => l \in DOMAIN uplink_config
    /\ upc \in {"connect", "answer"} => ~IsConnected(l)
    /\ upc = "hand" => IsConnected(l) /\ ucell[Link.client_ptr].st = "made"
    /\ upc \in {"scan", "pick"} => l = 1 \/ l - 1 \in DOMAIN uplink_config
    /\ upc = "pick" => uplink_shutting_down
    /\ upc \in {"take", "dead"} => \A c \in UplinkCell : ucell[c].st = "free" \/ ucell[c].shut
    /\ uapc = "start" => upc = "dead" /\ DOMAIN uplink_config = {}

(* With no regular uplink seen, those that the loop has passed are down. *)
ScanSeen ==
    upc \in {"scan", "pick"} /\ ~has_uplink =>
      \A k \in DOMAIN uplink_config :
        k < l /\ uplink_config[k].kind = "full" => uplink_config[k].state = "down"

(* At most one regular uplink is connected, and none while the thread is   *)
(* connecting one.                                                         *)
OneRegular ==
    ~uplink_shutting_down =>
      /\ \A j, k \in DOMAIN uplink_config :
           uplink_config[j].kind = "full" /\ IsConnected(j) /\ IsConnected(k) => j = k
      /\ upc \in {"connect", "answer"} /\ Link.kind = "full" =>
           \A k \in DOMAIN uplink_config : ~IsConnected(k)

UplinkIInv == UplinkTypes /\ KindsApart /\ LinksInv /\ ThreadInv /\ ScanSeen /\ OneRegular
-----------------------------------------------------------------------------
(* The length of a configuration, from its domain (uplink.c walks a list). *)
LEMMA LenOfLinks ==
    ASSUME UplinkTypes
    PROVE  Len(uplink_config) \in Nat /\ DOMAIN uplink_config = 1..Len(uplink_config)
<1>1. PICK n \in Nat : DOMAIN uplink_config = 1..n
  BY ZenonT(30) DEF UplinkTypes
<1>2. uplink_config \in [1..n -> LinkRec]
  BY ZenonT(30), <1>1 DEF UplinkTypes
<1>3. Len(uplink_config) = n
  BY SMTT(30), <1>2
<1> QED
  BY ZenonT(30), <1>1, <1>3

(* read_config gives up a configuration that mixes the kinds. *)
LEMMA ValidatedOneKind ==
    ASSUME NEW cfg \in Seq(Kind)
    PROVE  /\ Validated(cfg) \in Seq(Kind) /\ OneKind(Validated(cfg))
           /\ ~Mixed(cfg) => OneKind(cfg)
<1>1. ~Mixed(cfg) => OneKind(cfg)
  <2> SUFFICES ASSUME ~Mixed(cfg), NEW j \in DOMAIN cfg, NEW k \in DOMAIN cfg, cfg[j] # cfg[k]
               PROVE  FALSE
    BY ZenonT(30) DEF OneKind
  <2>1. {cfg[j], cfg[k]} \subseteq {cfg[i] : i \in DOMAIN cfg}
    BY ZenonT(30)
  <2>2. cfg[j] \in Kind /\ cfg[k] \in Kind
    BY SMTT(30)
  <2> QED
    BY SMTT(30), <2>1, <2>2 DEF Mixed, Kind
<1>2. <<>> \in Seq(Kind) /\ OneKind(<<>>)
  BY SMTT(30) DEF OneKind
<1> QED
  BY ZenonT(30), <1>1, <1>2 DEF Validated

LEMMA UplinkInitIInv == UplinkInit => UplinkIInv
<1> SUFFICES ASSUME UplinkInit PROVE UplinkIInv
  BY ZenonT(30)
<1>1. PICK cfg \in UplinkConfigs : ~Mixed(cfg) /\ uplink_config_install = cfg
  BY ZenonT(30) DEF UplinkInit
<1>2. cfg \in Seq(Kind)
  BY ZenonT(30), UplinkAssumption DEF Kind
<1>3. DOMAIN uplink_config = 1..0 /\ DOMAIN uplink_config = {}
  BY SMTT(30) DEF UplinkInit
<1>4. pending.cfg = <<>>
  BY ZenonT(30) DEF UplinkInit
<1>5. OneKind(pending.cfg) /\ OneKind(uplink_config_install)
  BY SMTT(30), <1>1, <1>2, <1>4, ValidatedOneKind DEF OneKind
<1>6. ucell \in [UplinkCell -> CellRec] /\ \A c \in UplinkCell : ucell[c].st = "free"
  BY ZenonT(30) DEF UplinkInit, FreeCell, CellRec, Kind
<1>7. UplinkTypes
  BY SMTT(30), <1>1, <1>2, <1>3, <1>4, <1>6 DEF UplinkTypes, UplinkInit
<1>8. LinksInv
  BY ZenonT(30), <1>3, <1>6 DEF LinksInv, CellHolds
<1> QED
  BY ZenonT(30), <1>3, <1>5, <1>7, <1>8 DEF UplinkIInv, KindsApart, ThreadInv, ScanSeen, OneRegular, UplinkInit
-----------------------------------------------------------------------------
(* A step that leaves the links and the clients alone keeps what relates   *)
(* them (LinksInv), whichever thread takes it.                             *)
LEMMA QuietLinks ==
    ASSUME UplinkIInv, UNCHANGED linkVars
    PROVE  LinksInv'
  BY ZenonT(30) DEF UplinkIInv, linkVars, LinksInv, LinkHolds, CellHolds, Apart, IsConnected

(* The main thread (read_config and what follows it). *)
LEMMA MainKeeps == ASSUME UplinkIInv, MainStep PROVE UplinkIInv'
<1> USE DEF UplinkIInv
<1>1. UNCHANGED <<threadVars, linkVars, uplink_shutting_down>>
  BY ZenonT(30) DEF MainStep, ReadUplinks, InstallConfig, FlagConfig, SignalAccept
<1>2. LinksInv'
  BY ZenonT(30), <1>1, QuietLinks
<1>3. uapc' = "start" => uapc = "start"
  BY ZenonT(30) DEF MainStep, ReadUplinks, InstallConfig, FlagConfig, SignalAccept
<1>4. /\ uplink_config_install' \in Seq(Kind) /\ OneKind(uplink_config_install')
      /\ pending'.cfg \in Seq(Kind) /\ OneKind(pending'.cfg)
  <2>1. CASE ReadUplinks
    <3>1. PICK cfg \in UplinkConfigs, w \in BOOLEAN : pending' = [cfg |-> Validated(cfg), workers |-> w]
      BY ZenonT(30), <2>1 DEF ReadUplinks
    <3>2. cfg \in Seq(Kind)
      BY ZenonT(30), UplinkAssumption DEF Kind
    <3> QED
      BY ZenonT(30), <2>1, <3>1, <3>2, ValidatedOneKind DEF ReadUplinks, installVars, UplinkTypes, KindsApart
  <2>2. CASE InstallConfig
    BY ZenonT(30), <2>2 DEF InstallConfig, UplinkTypes, KindsApart
  <2>3. CASE FlagConfig
    BY ZenonT(30), <2>3 DEF FlagConfig, UplinkTypes, KindsApart
  <2>4. CASE SignalAccept
    BY ZenonT(30), <2>4 DEF SignalAccept, installVars, UplinkTypes, KindsApart
  <2> QED
    BY ZenonT(30), <2>1, <2>2, <2>3, <2>4 DEF MainStep
<1>5. UplinkTypes' /\ KindsApart'
  BY ZenonT(30), <1>1, <1>4 DEF UplinkTypes, KindsApart, threadVars, linkVars
<1>6. ThreadInv' /\ ScanSeen' /\ OneRegular'
  BY ZenonT(30), <1>1, <1>3 DEF ThreadInv, ScanSeen, OneRegular, threadVars, linkVars, IsConnected, Link
<1> QED
  BY ZenonT(30), <1>2, <1>5, <1>6

(* A step of the uplink thread or of the accept thread that leaves the     *)
(* configurations alone.                                                   *)
LEMMA QuietTypes ==
    ASSUME UplinkIInv, UNCHANGED <<linkVars, uplink_config_install, pending>>,
           l' \in Nat \ {0}, next_uplink' \in Nat
    PROVE  UplinkTypes' /\ KindsApart' /\ LinksInv'
<1>1. LinksInv'
  BY ZenonT(30), QuietLinks
<1> QED
  BY ZenonT(30), <1>1 DEF UplinkIInv, UplinkTypes, KindsApart, linkVars

(* uplink_stop and uplink_start: the thread that is started again finds no *)
(* configuration and no connection.                                        *)
LEMMA StopStartKeep == ASSUME UplinkIInv, uplink_stop \/ uplink_start PROVE UplinkIInv'
<1> USE DEF UplinkIInv
<1>1. UplinkTypes' /\ KindsApart' /\ LinksInv'
  <2>1. l' \in Nat \ {0} /\ next_uplink' \in Nat
    BY SMTT(30) DEF uplink_stop, uplink_start, threadVars, UplinkTypes
  <2>2. UNCHANGED <<linkVars, uplink_config_install, pending>>
    BY ZenonT(30) DEF uplink_stop, uplink_start, installVars, mainVars
  <2> QED
    BY ZenonT(30), <2>1, <2>2, QuietTypes
<1>2. CASE uplink_stop
  <2>1. ThreadInv'
    BY ZenonT(30), <1>2 DEF uplink_stop, ThreadInv, threadVars, linkVars, IsConnected, Link
  <2>2. ScanSeen' /\ OneRegular'
    BY ZenonT(30), <1>2 DEF uplink_stop, ScanSeen, OneRegular, threadVars, linkVars
  <2> QED
    BY ZenonT(30), <1>1, <2>1, <2>2
<1>3. CASE uplink_start
  <2>1. DOMAIN uplink_config' = {}
    BY ZenonT(30), <1>3 DEF uplink_start, ThreadInv, linkVars
  <2> QED
    BY ZenonT(30), <1>1, <1>3, <2>1 DEF uplink_start, ThreadInv, ScanSeen, OneRegular
<1> QED
  BY ZenonT(30), <1>2, <1>3

(* uplink_stop, once the thread has gone: no connection stands. *)
LEMMA JoinedKeeps == ASSUME UplinkIInv, uplink_joined PROVE UplinkIInv'
<1> USE DEF UplinkIInv
<1>1. DOMAIN uplink_config' = 1..0 /\ DOMAIN uplink_config' = {}
  BY SMTT(30) DEF uplink_joined
<1>2. UplinkTypes' /\ KindsApart'
  <2>1. uplink_config' \in [DOMAIN uplink_config' -> LinkRec]
    BY SMTT(30), <1>1 DEF uplink_joined
  <2>2. UplinkTypes'
    BY ZenonT(30), <1>1, <2>1 DEF uplink_joined, UplinkTypes, threadVars, installVars, mainVars
  <2>3. KindsApart'
    BY ZenonT(30), <1>1 DEF uplink_joined, KindsApart, installVars, mainVars
  <2> QED
    BY ZenonT(30), <2>2, <2>3
<1>3. \A c \in UplinkCell : ucell[c].st = "free" \/ ucell[c].shut
  BY ZenonT(30) DEF uplink_joined, ThreadInv
<1>4. LinksInv'
  BY ZenonT(30), <1>1, <1>3 DEF uplink_joined, LinksInv, CellHolds
<1>5. ThreadInv' /\ ScanSeen' /\ OneRegular'
  BY ZenonT(30), <1>1, <1>3 DEF uplink_joined, ThreadInv, ScanSeen, OneRegular, threadVars
<1> QED
  BY ZenonT(30), <1>2, <1>4, <1>5
-----------------------------------------------------------------------------
(* The steps of the uplink thread between two tries: the top of its loop,  *)
(* the tests for a new configuration, and its sleep.                       *)
LEMMA LoopKeeps ==
    ASSUME UplinkIInv, UplinkTop \/ ApplyDone \/ UplinkTest \/ Rest \/ WakeUp
    PROVE  UplinkIInv'
<1> USE DEF UplinkIInv
<1>1. /\ UNCHANGED <<linkVars, uplink_config_install, pending, uplink_shutting_down, uapc>>
      /\ next_uplink' = next_uplink /\ (l' = l \/ l' = 1)
      /\ upc' \in {"exit", "apply", "test", "top", "scan", "sleep"} /\ upc # "dead"
      /\ upc' = "scan" => l' = 1
  BY ZenonT(30) DEF UplinkTop, ApplyDone, UplinkTest, Rest, WakeUp, Goto, outsideVars, installVars, mainVars
<1>2. l' \in Nat \ {0} /\ next_uplink' \in Nat
  BY SMTT(30), <1>1 DEF UplinkTypes
<1>3. UplinkTypes' /\ KindsApart' /\ LinksInv'
  BY ZenonT(30), <1>1, <1>2, QuietTypes
<1>4. ThreadInv'
  BY ZenonT(30), <1>1 DEF ThreadInv
<1>5. ScanSeen'
  <2> SUFFICES ASSUME upc' = "scan", NEW k \in DOMAIN uplink_config', k < l'
               PROVE  FALSE
    BY ZenonT(30), <1>1 DEF ScanSeen
  <2>1. k < 1 /\ k \in DOMAIN uplink_config
    BY ZenonT(30), <1>1 DEF linkVars
  <2>2. PICK n \in Nat : DOMAIN uplink_config = 1..n
    BY ZenonT(30) DEF UplinkTypes
  <2> QED
    BY SMTT(30), <2>1, <2>2
<1>6. OneRegular'
  BY ZenonT(30), <1>1 DEF OneRegular, linkVars, IsConnected
<1> QED
  BY ZenonT(30), <1>3, <1>4, <1>5, <1>6

(* make_uplink ends: the loop goes on behind a MULTI link.  There is no    *)
(* regular link beside it.                                                 *)
LEMMA MadeThread ==
    ASSUME UplinkTypes', KindsApart', Made, l \in DOMAIN uplink_config,
           UplinkTypes, DOMAIN uplink_config' = DOMAIN uplink_config,
           uplink_config'[l].kind = uplink_config[l].kind,
           uplink_shutting_down' = uplink_shutting_down
    PROVE  /\ upc' \in {"scan", "pick", "rest"}
           /\ upc' = "pick" => uplink_shutting_down'
           /\ upc' \in {"scan", "pick"} => l' - 1 \in DOMAIN uplink_config'
           /\ ScanSeen'
           /\ l' \in Nat \ {0}
<1>1. l \in Nat \ {0}
  BY ZenonT(30) DEF UplinkTypes
<1>2. CASE Link.kind = "multi"
  <2>1. l' = l + 1 /\ upc' = IF uplink_shutting_down THEN "pick" ELSE "scan"
    BY ZenonT(30), <1>2 DEF Made, Goto
  <2>2. \A k \in DOMAIN uplink_config' : uplink_config'[k].kind # "full"
    BY ZenonT(30), <1>2 DEF KindsApart, Link
  <2> QED
    BY SMTT(30), <1>1, <2>1, <2>2 DEF ScanSeen
<1>3. CASE Link.kind # "multi"
  BY ZenonT(30), <1>1, <1>3 DEF Made, Goto, ScanSeen
<1> QED
  BY ZenonT(30), <1>2, <1>3

(* The connection is counted (the end of make_uplink). *)
LEMMA AccountKeeps == ASSUME UplinkIInv, Account PROVE UplinkIInv'
<1> USE DEF UplinkIInv
<1>1. /\ UNCHANGED <<linkVars, uplink_config_install, pending, uplink_shutting_down, uapc>>
      /\ next_uplink' = next_uplink /\ l \in DOMAIN uplink_config /\ Made
  BY ZenonT(30) DEF Account, linkVars, outsideVars, installVars, mainVars, ThreadInv
<1>2. (l' = l \/ l' = l + 1) /\ l \in Nat \ {0}
  BY ZenonT(30), <1>1 DEF Made, UplinkTypes
<1>3. l' \in Nat \ {0} /\ next_uplink' \in Nat
  BY SMTT(30), <1>1, <1>2 DEF UplinkTypes
<1>4. UplinkTypes' /\ KindsApart' /\ LinksInv'
  BY ZenonT(30), <1>1, <1>3, QuietTypes
<1>5. /\ upc' \in {"scan", "pick", "rest"} /\ (upc' = "pick" => uplink_shutting_down')
      /\ upc' \in {"scan", "pick"} => l' - 1 \in DOMAIN uplink_config'
      /\ ScanSeen'
  BY ZenonT(30), <1>1, <1>4, MadeThread DEF linkVars
<1>6. ThreadInv'
  BY ZenonT(30), <1>1, <1>5 DEF ThreadInv, Account
<1>7. OneRegular'
  BY ZenonT(30), <1>1, <1>5 DEF OneRegular, linkVars, IsConnected
<1> QED
  BY ZenonT(30), <1>4, <1>5, <1>6, <1>7

(* The loop over the links passes one, or stops at a MULTI link that is    *)
(* down.                                                                   *)
LEMMA ScanKeeps == ASSUME UplinkIInv, ScanLink PROVE UplinkIInv'
<1> USE DEF UplinkIInv
<1>1. /\ UNCHANGED <<linkVars, uplink_config_install, pending, uplink_shutting_down, uapc>>
      /\ next_uplink' = next_uplink /\ upc = "scan"
  BY ZenonT(30) DEF ScanLink, outsideVars, installVars, mainVars
<1>2. l \in DOMAIN uplink_config /\ l \in Nat \ {0}
  <2>1. Len(uplink_config) \in Nat /\ DOMAIN uplink_config = 1..Len(uplink_config)
    BY ZenonT(30), LenOfLinks
  <2> QED
    BY SMTT(30), <2>1 DEF ScanLink, UplinkTypes
<1>3. \/ Link.kind = "multi" /\ Link.state = "down" /\ upc' = "connect" /\ l' = l
      \/ /\ ~(Link.kind = "multi" /\ Link.state = "down") /\ l' = l + 1
         /\ upc' = IF uplink_shutting_down THEN "pick" ELSE "scan"
  BY ZenonT(30) DEF ScanLink, Goto
<1>4. l' \in Nat \ {0} /\ next_uplink' \in Nat
  BY SMTT(30), <1>1, <1>2, <1>3 DEF UplinkTypes
<1>5. UplinkTypes' /\ KindsApart' /\ LinksInv'
  BY ZenonT(30), <1>1, <1>4, QuietTypes
<1>6. CASE Link.kind = "multi" /\ Link.state = "down" /\ upc' = "connect" /\ l' = l
  BY ZenonT(30), <1>1, <1>2, <1>5, <1>6 DEF ThreadInv, ScanSeen, OneRegular, linkVars, IsConnected, Link
<1>7. CASE /\ ~(Link.kind = "multi" /\ Link.state = "down") /\ l' = l + 1
           /\ upc' = IF uplink_shutting_down THEN "pick" ELSE "scan"
  <2>1. ThreadInv' /\ OneRegular'
    BY SMTT(30), <1>1, <1>2, <1>7 DEF ThreadInv, OneRegular, linkVars, IsConnected
  <2>2. ScanSeen'
    <3> SUFFICES ASSUME ~has_uplink', NEW k \in DOMAIN uplink_config, k < l + 1,
                        uplink_config[k].kind = "full"
                 PROVE  uplink_config[k].state = "down"
      BY ZenonT(30), <1>1, <1>7 DEF ScanSeen, linkVars
    <3>1. ~has_uplink /\ (Link.kind = "full" => Link.state = "down")
      BY ZenonT(30) DEF ScanLink
    <3>2. k \in Nat
      <4>1. PICK n \in Nat : DOMAIN uplink_config = 1..n
        BY ZenonT(30) DEF UplinkTypes
      <4> QED
        BY SMTT(30), <4>1
    <3>3. k < l \/ k = l
      BY SMTT(30), <1>2, <3>2
    <3> QED
      BY ZenonT(30), <1>1, <3>1, <3>3 DEF ScanSeen, Link
  <2> QED
    BY ZenonT(30), <1>5, <2>1, <2>2
<1> QED
  BY ZenonT(30), <1>3, <1>6, <1>7

(* The regular links that the loop has passed are at most as many as the   *)
(* links that it has passed.                                               *)
LEMMA AvailBound ==
    ASSUME UplinkTypes
    PROVE  /\ avail_uplink \in 0..l - 1
           /\ avail_uplink > 0 => Regular # {}
<1> DEFINE Passed == {k \in Regular : k < l}
<1>1. PICK n \in Nat : DOMAIN uplink_config = 1..n
  BY ZenonT(30) DEF UplinkTypes
<1>2. l \in Nat \ {0}
  BY ZenonT(30) DEF UplinkTypes
<1>3. Passed \subseteq 1..l - 1
  BY SMTT(30), <1>1, <1>2 DEF Regular
<1>4. IsFiniteSet(1..l - 1) /\ Cardinality(1..l - 1) = l - 1
  <2>1. 1 \in Int /\ l - 1 \in Int /\ l - 1 >= 0
    BY SMTT(30), <1>2
  <2>2. IsFiniteSet(1..l - 1) /\ Cardinality(1..l - 1) = IF 1 > l - 1 THEN 0 ELSE (l - 1) - 1 + 1
    BY ZenonT(30), <2>1, FS_Interval
  <2> QED
    BY SMTT(30), <1>2, <2>2
<1>5. Cardinality(Passed) \in Nat /\ Cardinality(Passed) <= l - 1
  BY ZenonT(30), <1>3, <1>4, FS_Subset, FS_CardinalityType
<1>6. Passed = {} => Cardinality(Passed) = 0
  BY ZenonT(30), FS_EmptySet
<1>7. avail_uplink = Cardinality(Passed)
  BY ZenonT(30) DEF avail_uplink
<1> HIDE DEF Passed
<1>8. Passed # {} => Regular # {}
  BY ZenonT(30) DEF Passed
<1> QED
  BY SMTT(30), <1>2, <1>5, <1>6, <1>7, <1>8

(* The end of the loop: the next regular link is one that the loop has     *)
(* found down, and every other link is down too.                           *)
LEMMA PickKeeps == ASSUME UplinkIInv, PickLink PROVE UplinkIInv'
<1> USE DEF UplinkIInv
<1>1. /\ UNCHANGED <<linkVars, uplink_config_install, pending, uplink_shutting_down, uapc>>
      /\ upc \in {"scan", "pick"}
  BY ZenonT(30) DEF PickLink, outsideVars, installVars, mainVars
<1>2. PICK n \in Nat : DOMAIN uplink_config = 1..n
  BY ZenonT(30) DEF UplinkTypes
<1>3. l \in Nat \ {0} /\ next_uplink \in Nat /\ l - 1 <= n
  BY SMTT(30), <1>1, <1>2 DEF ThreadInv, UplinkTypes
<1>4. CASE ~PickNeeded
  <2>1. upc' = "rest" /\ l' = l /\ next_uplink' = next_uplink
    BY ZenonT(30), <1>4 DEF PickLink, Goto
  <2>2. UplinkTypes' /\ KindsApart' /\ LinksInv'
    BY ZenonT(30), <1>1, <1>3, <2>1, QuietTypes
  <2> QED
    BY ZenonT(30), <1>1, <2>1, <2>2 DEF ThreadInv, ScanSeen, OneRegular, linkVars, IsConnected
<1>5. CASE PickNeeded
  <2>1. avail_uplink > 0 /\ ~has_uplink /\ avail_uplink \in 0..l - 1 /\ Regular # {}
    BY ZenonT(30), <1>5, AvailBound DEF PickNeeded
  <2>2. /\ next_uplink' = IF next_uplink >= avail_uplink THEN 1 ELSE next_uplink + 1
        /\ l' = next_uplink' /\ upc' = "connect"
    BY ZenonT(30), <1>5 DEF PickLink, Goto
  <2>3. l' \in 1..l - 1 /\ next_uplink' = l'
    <3> HIDE DEF UplinkIInv
    <3> QED
      BY SMTT(30), <1>3, <2>1, <2>2
  <2>4. l' \in DOMAIN uplink_config /\ l' < l /\ l' \in Nat \ {0}
    BY SMTT(30), <1>2, <1>3, <2>3
  <2>5. UplinkTypes' /\ KindsApart' /\ LinksInv'
    BY ZenonT(30), <1>1, <2>3, <2>4, QuietTypes
  <2>6. \A k \in DOMAIN uplink_config : uplink_config[k].kind = "full"
    BY ZenonT(30), <2>1 DEF Regular, KindsApart
  <2>7. \A k \in DOMAIN uplink_config : k < l => uplink_config[k].state = "down"
    BY ZenonT(30), <1>1, <2>1, <2>6 DEF ScanSeen
  <2>8. ~IsConnected(l')
    BY ZenonT(30), <2>4, <2>7 DEF IsConnected
  <2>9. ~uplink_shutting_down => \A k \in DOMAIN uplink_config : ~IsConnected(k)
    <3> SUFFICES ASSUME ~uplink_shutting_down, NEW k \in DOMAIN uplink_config
                 PROVE  uplink_config[k].state = "down"
      BY ZenonT(30) DEF IsConnected
    <3>1. l > Len(uplink_config)
      BY ZenonT(30) DEF PickLink, ThreadInv
    <3>2. k < l
      BY SMTT(30), <1>3, <3>1, LenOfLinks
    <3> QED
      BY ZenonT(30), <2>7, <3>2
  <2>10. ThreadInv'
    BY ZenonT(30), <1>1, <2>2, <2>4, <2>8 DEF ThreadInv, linkVars, IsConnected
  <2>11. ScanSeen' /\ OneRegular'
    BY ZenonT(30), <1>1, <2>2, <2>9 DEF ScanSeen, OneRegular, linkVars, IsConnected
  <2> QED
    BY ZenonT(30), <2>5, <2>10, <2>11
<1> QED
  BY ZenonT(30), <1>4, <1>5
-----------------------------------------------------------------------------
(* close_uplinkers shuts down every registered connection, so that none    *)
(* stands.                                                                 *)
LEMMA CloseKeeps == ASSUME UplinkIInv, ApplyClose \/ UplinkExit PROVE UplinkIInv'
<1> USE DEF UplinkIInv
<1>1. /\ UNCHANGED <<uplink_config, uplink_clients, uplink_config_install, pending,
                     uplink_shutting_down, uapc, l, next_uplink, has_uplink>>
      /\ upc' \in {"take", "dead"} /\ upc # "dead" /\ close_uplinkers
  BY ZenonT(30) DEF ApplyClose, UplinkExit, Goto, outsideVars, installVars, mainVars
<1>2. /\ ucell' \in [UplinkCell -> CellRec]
      /\ \A c \in UplinkCell : /\ ucell'[c].st = ucell[c].st /\ ucell'[c].kind = ucell[c].kind
                               /\ ucell'[c].shut = (c \in uplink_clients \/ ucell[c].shut)
  BY ZenonT(30), <1>1 DEF close_uplinkers, UplinkTypes, CellRec
<1>3. UplinkTypes' /\ KindsApart'
  BY ZenonT(30), <1>1, <1>2 DEF UplinkTypes, KindsApart
<1>4. \A c \in UplinkCell : ucell'[c].st = "free" \/ ucell'[c].shut
  <2> SUFFICES ASSUME NEW c \in UplinkCell, ucell[c].st # "free", ~ucell[c].shut
               PROVE  c \in uplink_clients
    BY ZenonT(30), <1>2
  <2>1. CellHolds(c)
    BY ZenonT(30) DEF LinksInv
  <2> QED
    BY ZenonT(30), <2>1 DEF CellHolds, LinksInv, LinkHolds
<1>5. LinksInv'
  <2>1. \A k \in DOMAIN uplink_config : LinkHolds(k)'
    <3> SUFFICES ASSUME NEW k \in DOMAIN uplink_config, IsConnected(k)
                 PROVE  LinkHolds(k)'
      BY ZenonT(30), <1>1 DEF LinkHolds, IsConnected
    <3>1. uplink_config[k].client_ptr \in UplinkCell
      BY ZenonT(30) DEF LinksInv, LinkHolds, UplinkTypes
    <3> QED
      BY SMTT(30), <1>1, <1>2, <3>1 DEF LinksInv, LinkHolds
  <2>2. \A c \in UplinkCell : CellHolds(c)'
    BY ZenonT(30), <1>4 DEF CellHolds
  <2>3. \A j, k \in DOMAIN uplink_config : Apart(j, k)'
    BY ZenonT(30), <1>1 DEF LinksInv, Apart, IsConnected
  <2> QED
    BY ZenonT(30), <1>1, <2>1, <2>2, <2>3 DEF LinksInv
<1>6. ThreadInv' /\ ScanSeen' /\ OneRegular'
  BY ZenonT(30), <1>1, <1>4 DEF ThreadInv, ScanSeen, OneRegular, IsConnected
<1> QED
  BY ZenonT(30), <1>3, <1>5, <1>6

(* The new configuration replaces the old one, whose links are forgotten.  *)
LEMMA TakeKeeps == ASSUME UplinkIInv, ApplyTake PROVE UplinkIInv'
<1> USE DEF UplinkIInv
<1> DEFINE cfg == uplink_config_install
<1>1. /\ UNCHANGED <<ucell, uplink_clients, pending, uplink_shutting_down, uapc,
                     l, next_uplink, has_uplink>>
      /\ upc = "take" /\ upc' = "unflag" /\ uplink_config_install' = <<>>
      /\ uplink_config' = Unlinked(cfg)
  BY ZenonT(30) DEF ApplyTake, Goto, mainVars
<1>2. cfg \in Seq(Kind) /\ OneKind(cfg)
  BY ZenonT(30) DEF UplinkTypes, KindsApart
<1>3. /\ DOMAIN uplink_config' = 1..Len(cfg) /\ Len(cfg) \in Nat
      /\ uplink_config' \in [DOMAIN uplink_config' -> LinkRec]
      /\ \A k \in DOMAIN uplink_config' : /\ uplink_config'[k].state = "down"
                                          /\ uplink_config'[k].kind = cfg[k]
  <2>1. DOMAIN cfg = 1..Len(cfg) /\ Len(cfg) \in Nat /\ \A k \in 1..Len(cfg) : cfg[k] \in Kind
    BY SMTT(30), <1>2
  <2> QED
    BY ZenonT(30), <1>1, <2>1 DEF Unlinked, LinkRec, NULL
<1>4. UplinkTypes'
  BY SMTT(30), <1>1, <1>3 DEF UplinkTypes
<1>5. KindsApart'
  <2>1. DOMAIN cfg = 1..Len(cfg)
    BY SMTT(30), <1>2
  <2>2. \A j, k \in DOMAIN uplink_config' : uplink_config'[j].kind = uplink_config'[k].kind
    BY ZenonT(30), <1>2, <1>3, <2>1 DEF OneKind
  <2>3. OneKind(<<>>)
    BY SMTT(30) DEF OneKind
  <2> QED
    BY ZenonT(30), <1>1, <2>2, <2>3 DEF KindsApart
<1>6. \A c \in UplinkCell : ucell[c].st = "free" \/ ucell[c].shut
  BY ZenonT(30), <1>1 DEF ThreadInv
<1>7. LinksInv'
  BY ZenonT(30), <1>1, <1>3, <1>6 DEF LinksInv, LinkHolds, CellHolds, Apart, IsConnected
<1>8. ThreadInv' /\ ScanSeen' /\ OneRegular'
  BY ZenonT(30), <1>1, <1>3 DEF ThreadInv, ScanSeen, OneRegular, IsConnected
<1> QED
  BY ZenonT(30), <1>4, <1>5, <1>7, <1>8

(* What SetLink does to the links. *)
LEMMA SetLinkEffect ==
    ASSUME UplinkTypes, KindsApart, NEW k \in DOMAIN uplink_config, NEW ptr \in Nat,
           NEW state \in {"down", "connecting", "connected"}, SetLink(k, state, ptr)
    PROVE  /\ DOMAIN uplink_config' = DOMAIN uplink_config
           /\ uplink_config' \in [DOMAIN uplink_config' -> LinkRec]
           /\ uplink_config'[k].state = state /\ uplink_config'[k].client_ptr = ptr
           /\ \A j \in DOMAIN uplink_config : j # k => uplink_config'[j] = uplink_config[j]
           /\ \A j \in DOMAIN uplink_config : uplink_config'[j].kind = uplink_config[j].kind
           /\ \A i, j \in DOMAIN uplink_config' : uplink_config'[i].kind = uplink_config'[j].kind
<1>1. /\ DOMAIN uplink_config' = DOMAIN uplink_config
      /\ uplink_config' \in [DOMAIN uplink_config' -> LinkRec]
  BY ZenonT(30) DEF SetLink, Relinked, UplinkTypes, LinkRec
<1>2. /\ uplink_config'[k] = [kind |-> uplink_config[k].kind, state |-> state, client_ptr |-> ptr]
      /\ \A j \in DOMAIN uplink_config : j # k => uplink_config'[j] = uplink_config[j]
  BY ZenonT(30) DEF SetLink, Relinked, UplinkTypes, LinkRec
<1>3. \A j \in DOMAIN uplink_config : uplink_config'[j].kind = uplink_config[j].kind
  BY SMTT(30), <1>2
<1>4. uplink_config'[k].state = state /\ uplink_config'[k].client_ptr = ptr
  BY SMTT(30), <1>2
<1> QED
  BY SMTT(30), <1>1, <1>2, <1>3, <1>4 DEF KindsApart

(* A link that is not connected changes to another such state: the start   *)
(* of make_uplink, and its failure.                                        *)
LEMMA SetDownLinks ==
    ASSUME UplinkIInv, l \in DOMAIN uplink_config, ~IsConnected(l),
           NEW state \in {"down", "connecting"}, SetLink(l, state, Link.client_ptr),
           UNCHANGED <<uplink_clients, ucell>>
    PROVE  /\ LinksInv'
           /\ \A k \in DOMAIN uplink_config' : IsConnected(k)' => k \in DOMAIN uplink_config /\ IsConnected(k)
<1> USE DEF UplinkIInv
<1>1. Link.client_ptr \in Nat
  BY ZenonT(30) DEF UplinkTypes, LinkRec, Link
<1>2. /\ DOMAIN uplink_config' = DOMAIN uplink_config
      /\ uplink_config'[l].state = state
      /\ \A j \in DOMAIN uplink_config : j # l => uplink_config'[j] = uplink_config[j]
  BY SMTT(30), <1>1, SetLinkEffect
<1>3. \A k \in DOMAIN uplink_config : IsConnected(k)' <=> IsConnected(k)
  BY ZenonT(30), <1>2 DEF IsConnected
<1>4. \A k \in DOMAIN uplink_config : IsConnected(k) => uplink_config'[k] = uplink_config[k]
  BY ZenonT(30), <1>2
<1>5. \A k \in DOMAIN uplink_config : LinkHolds(k)'
  BY ZenonT(30), <1>3, <1>4 DEF LinksInv, LinkHolds
<1>6. \A c \in UplinkCell : CellHolds(c)'
  BY ZenonT(30), <1>2, <1>3, <1>4 DEF LinksInv, CellHolds
<1>7. \A j, k \in DOMAIN uplink_config : Apart(j, k)'
  BY ZenonT(30), <1>3, <1>4 DEF LinksInv, Apart
<1> QED
  BY ZenonT(30), <1>2, <1>3, <1>5, <1>6, <1>7 DEF LinksInv

(* make_uplink marks the link. *)
LEMMA ConnectKeeps == ASSUME UplinkIInv, ConnectUplink PROVE UplinkIInv'
<1> USE DEF UplinkIInv
<1>1. /\ UNCHANGED <<ucell, uplink_clients, uplink_config_install, pending, uplink_shutting_down, uapc,
                     l, next_uplink>>
      /\ upc = "connect" /\ upc' = "answer" /\ SetLink(l, "connecting", Link.client_ptr)
  BY ZenonT(30) DEF ConnectUplink, Goto, outsideVars, installVars, mainVars
<1>2. l \in DOMAIN uplink_config /\ ~IsConnected(l)
  BY ZenonT(30), <1>1 DEF ThreadInv
<1>3. /\ LinksInv'
      /\ \A k \in DOMAIN uplink_config' : IsConnected(k)' => k \in DOMAIN uplink_config /\ IsConnected(k)
  BY ZenonT(30), <1>1, <1>2, SetDownLinks
<1>4. Link.client_ptr \in Nat
  BY ZenonT(30), <1>2 DEF UplinkTypes, LinkRec, Link
<1>5. /\ DOMAIN uplink_config' = DOMAIN uplink_config
      /\ uplink_config' \in [DOMAIN uplink_config' -> LinkRec]
      /\ uplink_config'[l].state = "connecting"
      /\ \A j \in DOMAIN uplink_config : uplink_config'[j].kind = uplink_config[j].kind
      /\ \A i, j \in DOMAIN uplink_config' : uplink_config'[i].kind = uplink_config'[j].kind
  BY ZenonT(30), <1>1, <1>2, <1>4, SetLinkEffect
<1>6. UplinkTypes' /\ KindsApart'
  BY ZenonT(30), <1>1, <1>5 DEF UplinkTypes, KindsApart
<1>7. ThreadInv'
  BY ZenonT(30), <1>1, <1>2, <1>5 DEF ThreadInv, IsConnected
<1>8. ScanSeen' /\ OneRegular'
  <2>1. ScanSeen'
    BY ZenonT(30), <1>1 DEF ScanSeen
  <2>2. OneRegular'
    BY ZenonT(30), <1>1, <1>2, <1>3, <1>5 DEF OneRegular, Link
  <2> QED
    BY ZenonT(30), <2>1, <2>2
<1> QED
  BY ZenonT(30), <1>3, <1>6, <1>7, <1>8

(* make_uplink fails. *)
LEMMA ConnectFailedKeeps == ASSUME UplinkIInv, ConnectFailed PROVE UplinkIInv'
<1> USE DEF UplinkIInv
<1>1. /\ UNCHANGED <<ucell, uplink_clients, uplink_config_install, pending, uplink_shutting_down, uapc,
                     next_uplink>>
      /\ upc = "answer" /\ SetLink(l, "down", Link.client_ptr) /\ Made
  BY ZenonT(30) DEF ConnectFailed, outsideVars, installVars, mainVars
<1>2. l \in DOMAIN uplink_config /\ ~IsConnected(l)
  BY ZenonT(30), <1>1 DEF ThreadInv
<1>3. /\ LinksInv'
      /\ \A k \in DOMAIN uplink_config' : IsConnected(k)' => k \in DOMAIN uplink_config /\ IsConnected(k)
  BY ZenonT(30), <1>1, <1>2, SetDownLinks
<1>4. Link.client_ptr \in Nat
  BY ZenonT(30), <1>2 DEF UplinkTypes, LinkRec, Link
<1>5. /\ DOMAIN uplink_config' = DOMAIN uplink_config
      /\ uplink_config' \in [DOMAIN uplink_config' -> LinkRec]
      /\ \A j \in DOMAIN uplink_config : uplink_config'[j].kind = uplink_config[j].kind
      /\ \A i, j \in DOMAIN uplink_config' : uplink_config'[i].kind = uplink_config'[j].kind
  BY ZenonT(30), <1>1, <1>2, <1>4, SetLinkEffect
<1>6. l' \in Nat \ {0}
  BY SMTT(30), <1>1 DEF Made, UplinkTypes
<1>7. UplinkTypes' /\ KindsApart'
  BY ZenonT(30), <1>1, <1>5, <1>6 DEF UplinkTypes, KindsApart
<1>8. /\ upc' \in {"scan", "pick", "rest"} /\ (upc' = "pick" => uplink_shutting_down')
      /\ upc' \in {"scan", "pick"} => l' - 1 \in DOMAIN uplink_config'
      /\ ScanSeen'
  BY ZenonT(30), <1>1, <1>2, <1>5, <1>7, MadeThread
<1>9. ThreadInv'
  BY ZenonT(30), <1>1, <1>8 DEF ThreadInv
<1>10. OneRegular'
  BY ZenonT(30), <1>1, <1>3, <1>5, <1>8 DEF OneRegular
<1> QED
  BY ZenonT(30), <1>3, <1>7, <1>8, <1>9, <1>10

(* The connection is made: a free cell becomes the client of the link, and *)
(* a regular link finds no other link connected.                           *)
LEMMA ConnectedKeeps == ASSUME UplinkIInv, Connected PROVE UplinkIInv'
<1> USE DEF UplinkIInv
<1>1. /\ UNCHANGED <<uplink_config_install, pending, uplink_shutting_down, uapc, l, next_uplink>>
      /\ upc = "answer" /\ upc' = "hand"
  BY ZenonT(30) DEF Connected, Goto, outsideVars, installVars, mainVars
<1>2. l \in DOMAIN uplink_config /\ ~IsConnected(l)
  BY ZenonT(30), <1>1 DEF ThreadInv
<1>3. PICK c \in FreeCells :
         /\ ucell' = [ucell EXCEPT ![c] = [FreeCell EXCEPT !.st = "made", !.kind = Link.kind]]
         /\ uplink_clients' = uplink_clients \cup {c}
         /\ SetLink(l, "connected", c)
  BY ZenonT(30) DEF Connected
<1>4. c \in UplinkCell /\ c \in Nat /\ ucell[c].st = "free"
  BY ZenonT(30), UplinkAssumption DEF FreeCells
<1>5. /\ DOMAIN uplink_config' = DOMAIN uplink_config
      /\ uplink_config' \in [DOMAIN uplink_config' -> LinkRec]
      /\ uplink_config'[l].state = "connected" /\ uplink_config'[l].client_ptr = c
      /\ \A j \in DOMAIN uplink_config : j # l => uplink_config'[j] = uplink_config[j]
      /\ \A j \in DOMAIN uplink_config : uplink_config'[j].kind = uplink_config[j].kind
      /\ \A i, j \in DOMAIN uplink_config' : uplink_config'[i].kind = uplink_config'[j].kind
  BY ZenonT(30), <1>2, <1>3, <1>4, SetLinkEffect
<1>6. Link.kind \in Kind
  BY ZenonT(30), <1>2 DEF UplinkTypes, LinkRec, Link
<1>7. /\ ucell' \in [UplinkCell -> CellRec]
      /\ ucell'[c].st = "made" /\ ucell'[c].kind = Link.kind
      /\ \A d \in UplinkCell : d # c => ucell'[d] = ucell[d]
  BY ZenonT(30), <1>3, <1>4, <1>6 DEF UplinkTypes, CellRec, FreeCell
<1>8. UplinkTypes' /\ KindsApart'
  BY ZenonT(30), <1>1, <1>3, <1>4, <1>5, <1>7 DEF UplinkTypes, KindsApart
<1>9. \A j \in DOMAIN uplink_config : j # l /\ IsConnected(j)' =>
         /\ IsConnected(j) /\ uplink_config'[j] = uplink_config[j]
         /\ uplink_config[j].client_ptr \in UplinkCell /\ uplink_config[j].client_ptr # c
  BY ZenonT(30), <1>4, <1>5 DEF IsConnected, LinksInv, LinkHolds, UplinkTypes
<1>10. IsConnected(l)'
  BY ZenonT(30), <1>1, <1>5 DEF IsConnected
<1>11. LinksInv'
  <2>1. ASSUME NEW k \in DOMAIN uplink_config PROVE LinkHolds(k)'
    <3>1. CASE k = l
      BY ZenonT(30), <1>3, <1>5, <1>7, <3>1 DEF LinkHolds, Link
    <3>2. CASE k # l
      BY SMTT(30), <1>3, <1>7, <1>9, <3>2 DEF LinkHolds, LinksInv
    <3> QED
      BY ZenonT(30), <3>1, <3>2
  <2>2. ASSUME NEW d \in UplinkCell PROVE CellHolds(d)'
    <3>1. CASE d = c
      BY ZenonT(30), <1>1, <1>2, <1>5, <1>10, <3>1 DEF CellHolds
    <3>2. CASE d # c
      <4> SUFFICES ASSUME ucell[d].st # "free", ~ucell[d].shut
                   PROVE  \E k \in DOMAIN uplink_config' : IsConnected(k)' /\ uplink_config'[k].client_ptr = d
        BY ZenonT(30), <1>7, <3>2 DEF CellHolds
      <4>1. PICK k \in DOMAIN uplink_config : IsConnected(k) /\ uplink_config[k].client_ptr = d
        BY ZenonT(30) DEF LinksInv, CellHolds
      <4>2. uplink_config'[k] = uplink_config[k]
        BY ZenonT(30), <1>2, <1>5, <4>1
      <4> QED
        BY ZenonT(30), <1>5, <4>1, <4>2 DEF IsConnected
    <3> QED
      BY ZenonT(30), <3>1, <3>2
  <2>3. ASSUME NEW j \in DOMAIN uplink_config, NEW k \in DOMAIN uplink_config PROVE Apart(j, k)'
    BY SMTT(30), <1>5, <1>9 DEF Apart, LinksInv
  <2> QED
    BY ZenonT(30), <1>5, <2>1, <2>2, <2>3 DEF LinksInv
<1>12. ThreadInv'
  BY ZenonT(30), <1>1, <1>2, <1>5, <1>7, <1>10 DEF ThreadInv, Link
<1>13. ScanSeen'
  BY ZenonT(30), <1>1 DEF ScanSeen
<1>14. OneRegular'
  <2> SUFFICES ASSUME ~uplink_shutting_down, NEW j \in DOMAIN uplink_config, NEW k \in DOMAIN uplink_config,
                      uplink_config[j].kind = "full", IsConnected(j)', IsConnected(k)'
               PROVE  j = k
    BY ZenonT(30), <1>1, <1>5 DEF OneRegular
  <2>1. Link.kind = "full"
    BY ZenonT(30), <1>2 DEF KindsApart, Link
  <2>2. \A i \in DOMAIN uplink_config : ~IsConnected(i)
    BY ZenonT(30), <1>1, <2>1 DEF OneRegular
  <2> QED
    BY ZenonT(30), <1>9, <2>2
<1> QED
  BY ZenonT(30), <1>8, <1>11, <1>12, <1>13, <1>14

(* A link loses its connection c, whose cell is freed: uplink_close, and   *)
(* the failure to set up TLS.                                              *)
LEMMA LostLinks ==
    ASSUME UplinkIInv, NEW c \in UplinkCell,
           ucell' = [ucell EXCEPT ![c] = FreeCell],
           uplink_clients' = uplink_clients \ {c},
           DOMAIN uplink_config' = DOMAIN uplink_config,
           \A k \in DOMAIN uplink_config :
             \/ uplink_config'[k].state = "down"
             \/ uplink_config'[k] = uplink_config[k]
                  /\ (IsConnected(k) => uplink_config[k].client_ptr # c),
           \A k \in DOMAIN uplink_config :
             IsConnected(k) /\ uplink_config[k].client_ptr # c => uplink_config'[k] = uplink_config[k]
    PROVE  /\ LinksInv'
           /\ ucell' \in [UplinkCell -> CellRec] /\ ucell'[c].st = "free"
           /\ \A d \in UplinkCell : d # c => ucell'[d] = ucell[d]
           /\ \A k \in DOMAIN uplink_config : IsConnected(k)' =>
                /\ IsConnected(k) /\ uplink_config'[k] = uplink_config[k]
                /\ uplink_config[k].client_ptr # c
<1> USE DEF UplinkIInv
<1>1. /\ ucell' \in [UplinkCell -> CellRec] /\ ucell'[c].st = "free"
      /\ \A d \in UplinkCell : d # c => ucell'[d] = ucell[d]
  BY ZenonT(30) DEF UplinkTypes, CellRec, FreeCell, Kind
<1>2. \A k \in DOMAIN uplink_config : IsConnected(k)' =>
         /\ IsConnected(k) /\ uplink_config'[k] = uplink_config[k] /\ uplink_config[k].client_ptr # c
  BY ZenonT(30) DEF IsConnected
<1>3. ASSUME NEW k \in DOMAIN uplink_config PROVE LinkHolds(k)'
  <2> SUFFICES ASSUME IsConnected(k)' PROVE LinkHolds(k)'
    BY ZenonT(30) DEF LinkHolds
  <2>1. uplink_config[k].client_ptr \in UplinkCell \ {c}
    BY ZenonT(30), <1>2 DEF LinksInv, LinkHolds, UplinkTypes
  <2> QED
    BY ZenonT(30), <1>1, <1>2, <2>1 DEF LinksInv, LinkHolds
<1>4. ASSUME NEW d \in UplinkCell PROVE CellHolds(d)'
  <2>1. CASE d = c
    BY ZenonT(30), <1>1, <2>1 DEF CellHolds
  <2>2. CASE d # c
    <3> SUFFICES ASSUME ucell[d].st # "free", ~ucell[d].shut
                 PROVE  \E k \in DOMAIN uplink_config' : IsConnected(k)' /\ uplink_config'[k].client_ptr = d
      BY ZenonT(30), <1>1, <2>2 DEF CellHolds
    <3>1. PICK k \in DOMAIN uplink_config : IsConnected(k) /\ uplink_config[k].client_ptr = d
      BY ZenonT(30) DEF LinksInv, CellHolds
    <3>2. uplink_config'[k] = uplink_config[k]
      BY ZenonT(30), <2>2, <3>1
    <3> QED
      BY ZenonT(30), <3>1, <3>2 DEF IsConnected
  <2> QED
    BY ZenonT(30), <2>1, <2>2
<1>5. ASSUME NEW j \in DOMAIN uplink_config, NEW k \in DOMAIN uplink_config PROVE Apart(j, k)'
  BY ZenonT(30), <1>2 DEF Apart, LinksInv
<1> QED
  BY <1>1, <1>2, <1>3, <1>4, <1>5 DEF LinksInv

(* TLS cannot be set up: the link is down again. *)
LEMMA HandFailedKeeps == ASSUME UplinkIInv, HandFailed PROVE UplinkIInv'
<1> USE DEF UplinkIInv
<1> DEFINE c == Link.client_ptr
<1>1. /\ UNCHANGED <<uplink_config_install, pending, uplink_shutting_down, uapc, next_uplink>>
      /\ upc = "hand" /\ SetLink(l, "down", c) /\ Made
      /\ ucell' = [ucell EXCEPT ![c] = FreeCell] /\ uplink_clients' = uplink_clients \ {c}
  BY ZenonT(30) DEF HandFailed, outsideVars, installVars, mainVars
<1>2. l \in DOMAIN uplink_config /\ IsConnected(l)
  BY ZenonT(30), <1>1 DEF ThreadInv
<1>3. c \in UplinkCell /\ c \in Nat
  BY ZenonT(30), <1>2, UplinkAssumption DEF LinksInv, LinkHolds, UplinkTypes, Link
<1>4. /\ DOMAIN uplink_config' = DOMAIN uplink_config
      /\ uplink_config' \in [DOMAIN uplink_config' -> LinkRec]
      /\ uplink_config'[l].state = "down"
      /\ \A j \in DOMAIN uplink_config : j # l => uplink_config'[j] = uplink_config[j]
      /\ \A j \in DOMAIN uplink_config : uplink_config'[j].kind = uplink_config[j].kind
      /\ \A i, j \in DOMAIN uplink_config' : uplink_config'[i].kind = uplink_config'[j].kind
  BY ZenonT(30), <1>1, <1>2, <1>3, SetLinkEffect
<1>5. \A k \in DOMAIN uplink_config : k # l /\ IsConnected(k) => uplink_config[k].client_ptr # c
  BY ZenonT(30), <1>2 DEF LinksInv, Apart, Link
<1>6. /\ LinksInv'
      /\ ucell' \in [UplinkCell -> CellRec]
      /\ \A k \in DOMAIN uplink_config : IsConnected(k)' => IsConnected(k)
  <2>1. \A k \in DOMAIN uplink_config :
          \/ uplink_config'[k].state = "down"
          \/ uplink_config'[k] = uplink_config[k]
               /\ (IsConnected(k) => uplink_config[k].client_ptr # c)
    BY ZenonT(30), <1>4, <1>5
  <2>2. \A k \in DOMAIN uplink_config :
          IsConnected(k) /\ uplink_config[k].client_ptr # c => uplink_config'[k] = uplink_config[k]
    BY ZenonT(30), <1>4 DEF Link
  <2> HIDE DEF c
  <2> QED
    BY ZenonT(30), <1>1, <1>3, <1>4, <2>1, <2>2, LostLinks
<1>7. l' \in Nat \ {0}
  BY SMTT(30), <1>1 DEF Made, UplinkTypes
<1>8. UplinkTypes' /\ KindsApart'
  BY ZenonT(30), <1>1, <1>4, <1>6, <1>7 DEF UplinkTypes, KindsApart
<1>9. /\ upc' \in {"scan", "pick", "rest"} /\ (upc' = "pick" => uplink_shutting_down')
      /\ upc' \in {"scan", "pick"} => l' - 1 \in DOMAIN uplink_config'
      /\ ScanSeen'
  BY ZenonT(30), <1>1, <1>2, <1>4, <1>8, MadeThread
<1>10. ThreadInv'
  BY ZenonT(30), <1>1, <1>9 DEF ThreadInv
<1>11. OneRegular'
  BY ZenonT(30), <1>1, <1>4, <1>6, <1>9 DEF OneRegular
<1> QED
  BY ZenonT(30), <1>6, <1>8, <1>9, <1>10, <1>11

(* A step that changes only how far a connection has come. *)
LEMMA CellProgress ==
    ASSUME UplinkIInv, UNCHANGED <<uplink_config, uplink_clients>>,
           ucell' \in [UplinkCell -> CellRec],
           \A c \in UplinkCell : /\ ucell'[c].st = "free" <=> ucell[c].st = "free"
                                 /\ ucell'[c].kind = ucell[c].kind /\ ucell'[c].shut = ucell[c].shut
    PROVE  LinksInv'
<1> USE DEF UplinkIInv
<1>1. ASSUME NEW k \in DOMAIN uplink_config PROVE LinkHolds(k)'
  <2> SUFFICES ASSUME IsConnected(k) PROVE LinkHolds(k)'
    BY ZenonT(30) DEF LinkHolds, IsConnected
  <2>1. uplink_config[k].client_ptr \in UplinkCell
    BY ZenonT(30) DEF LinksInv, LinkHolds, UplinkTypes
  <2> QED
    BY ZenonT(30), <2>1 DEF LinksInv, LinkHolds
<1>2. ASSUME NEW c \in UplinkCell PROVE CellHolds(c)'
  BY ZenonT(30) DEF LinksInv, CellHolds, IsConnected
<1>3. ASSUME NEW j \in DOMAIN uplink_config, NEW k \in DOMAIN uplink_config PROVE Apart(j, k)'
  BY ZenonT(30) DEF LinksInv, Apart, IsConnected
<1> QED
  BY ZenonT(30), <1>1, <1>2, <1>3 DEF LinksInv

(* pass_client_to_worker *)
LEMMA HandOverKeeps == ASSUME UplinkIInv, HandOver PROVE UplinkIInv'
<1> USE DEF UplinkIInv
<1> DEFINE c == Link.client_ptr
<1>1. /\ UNCHANGED <<uplink_config, uplink_clients, uplink_config_install, pending,
                     uplink_shutting_down, uapc, l, next_uplink>>
      /\ upc = "hand" /\ upc' = "account" /\ ucell' = [ucell EXCEPT ![c].st = "up"]
  BY ZenonT(30) DEF HandOver, Goto, outsideVars, installVars, mainVars
<1>2. l \in DOMAIN uplink_config /\ IsConnected(l) /\ ucell[c].st = "made"
  BY ZenonT(30), <1>1 DEF ThreadInv
<1>3. c \in UplinkCell
  BY ZenonT(30), <1>2 DEF LinksInv, LinkHolds, UplinkTypes, Link
<1>4. /\ ucell' \in [UplinkCell -> CellRec]
      /\ \A d \in UplinkCell : /\ ucell'[d].st = "free" <=> ucell[d].st = "free"
                               /\ ucell'[d].kind = ucell[d].kind /\ ucell'[d].shut = ucell[d].shut
  <2> HIDE DEF c
  <2> QED
    BY ZenonT(30), <1>1, <1>2, <1>3 DEF UplinkTypes, CellRec
<1>5. LinksInv'
  BY ZenonT(30), <1>1, <1>4, CellProgress
<1>6. UplinkTypes' /\ KindsApart'
  BY SMTT(30), <1>1, <1>4 DEF UplinkTypes, KindsApart
<1>7. ThreadInv' /\ ScanSeen' /\ OneRegular'
  BY ZenonT(30), <1>1, <1>2 DEF ThreadInv, ScanSeen, OneRegular, IsConnected
<1> QED
  BY ZenonT(30), <1>5, <1>6, <1>7

(* The handlers of the login. *)
LEMMA LoginKeeps ==
    ASSUME UplinkIInv, NEW c \in UplinkCell, uplink_login_handler(c) \/ uplink_logresp_handler(c)
    PROVE  UplinkIInv'
<1> USE DEF UplinkIInv
<1>1. /\ UNCHANGED <<uplink_config, uplink_clients, uplink_config_install, pending,
                     uplink_shutting_down, uapc, upc, l, next_uplink, has_uplink>>
      /\ \E p \in {"logresp", "connected"} : ucell' = [ucell EXCEPT ![c].phase = p]
  BY ZenonT(30) DEF uplink_login_handler, uplink_logresp_handler, RestOfWorker, threadVars, outsideVars, installVars, mainVars
<1>2. /\ ucell' \in [UplinkCell -> CellRec]
      /\ \A d \in UplinkCell : /\ ucell'[d].st = ucell[d].st
                               /\ ucell'[d].kind = ucell[d].kind /\ ucell'[d].shut = ucell[d].shut
  <2>1. PICK p \in {"logresp", "connected"} : ucell' = [ucell EXCEPT ![c].phase = p]
    BY ZenonT(30), <1>1
  <2> QED
    BY ZenonT(30), <2>1 DEF UplinkTypes, CellRec
<1>3. LinksInv'
  BY ZenonT(30), <1>1, <1>2, CellProgress
<1>4. UplinkTypes' /\ KindsApart'
  BY ZenonT(30), <1>1, <1>2 DEF UplinkTypes, KindsApart
<1>5. ThreadInv'
  <2>1. upc = "hand" => Link.client_ptr \in UplinkCell
    BY ZenonT(30) DEF ThreadInv, LinksInv, LinkHolds, UplinkTypes, Link
  <2> QED
    BY ZenonT(30), <1>1, <1>2, <2>1 DEF ThreadInv, IsConnected, Link
<1>6. ScanSeen' /\ OneRegular'
  BY ZenonT(30), <1>1 DEF ScanSeen, OneRegular, IsConnected, Link
<1> QED
  BY ZenonT(30), <1>3, <1>4, <1>5, <1>6

(* What uplink_close makes of the links. *)
ClosedOf(cfg, c) == [k \in DOMAIN cfg |-> IF cfg[k].client_ptr = c
                                         THEN Relinked(cfg[k], "down", NULL) ELSE cfg[k]]

(* uplink_close changes the links with this client, and only them. *)
LEMMA ClosedLinks ==
    ASSUME NEW cfg, cfg \in [DOMAIN cfg -> LinkRec], NEW c
    PROVE  /\ DOMAIN ClosedOf(cfg, c) = DOMAIN cfg
           /\ ClosedOf(cfg, c) \in [DOMAIN ClosedOf(cfg, c) -> LinkRec]
           /\ \A k \in DOMAIN cfg :
                /\ ClosedOf(cfg, c)[k].kind = cfg[k].kind
                /\ cfg[k].client_ptr = c => ClosedOf(cfg, c)[k].state = "down"
                /\ cfg[k].client_ptr # c => ClosedOf(cfg, c)[k] = cfg[k]
<1>1. \A k \in DOMAIN cfg : /\ Relinked(cfg[k], "down", NULL) \in LinkRec
                            /\ Relinked(cfg[k], "down", NULL).kind = cfg[k].kind
                            /\ Relinked(cfg[k], "down", NULL).state = "down"
  BY ZenonT(30) DEF Relinked, LinkRec, NULL
<1>2. DOMAIN ClosedOf(cfg, c) = DOMAIN cfg
  BY ZenonT(30) DEF ClosedOf
<1>3. \A k \in DOMAIN cfg : ClosedOf(cfg, c)[k] = IF cfg[k].client_ptr = c
                                                 THEN Relinked(cfg[k], "down", NULL) ELSE cfg[k]
  BY ZenonT(30) DEF ClosedOf
<1>4. ClosedOf(cfg, c) \in [DOMAIN ClosedOf(cfg, c) -> LinkRec]
  BY <1>1, Zenon DEF ClosedOf
<1> QED
  BY <1>1, <1>2, <1>3, <1>4, Zenon

(* client_close of an uplink: its link, if it is still in force, is down.  *)
LEMMA WorkerCloseKeeps ==
    ASSUME UplinkIInv, NEW c \in UplinkCell, ReadShut(c) \/ UplinkLost(c)
    PROVE  UplinkIInv'
<1> USE DEF UplinkIInv
<1>1. /\ UNCHANGED <<uplink_config_install, pending, uplink_shutting_down, uapc, upc, l, next_uplink, has_uplink>>
      /\ ucell[c].st = "up" /\ CloseUplink(c)
  BY ZenonT(30) DEF ReadShut, UplinkLost, RestOfWorker, threadVars, outsideVars, installVars, mainVars
<1>2. /\ ucell' = [ucell EXCEPT ![c] = FreeCell] /\ uplink_clients' = uplink_clients \ {c}
  BY <1>1, Zenon DEF CloseUplink, uplink_close
<1>3. /\ DOMAIN uplink_config' = DOMAIN uplink_config
      /\ uplink_config' \in [DOMAIN uplink_config' -> LinkRec]
      /\ \A k \in DOMAIN uplink_config :
           /\ uplink_config'[k].kind = uplink_config[k].kind
           /\ uplink_config[k].client_ptr = c => uplink_config'[k].state = "down"
           /\ uplink_config[k].client_ptr # c => uplink_config'[k] = uplink_config[k]
  <2>1. uplink_config \in [DOMAIN uplink_config -> LinkRec]
    BY ZenonT(30) DEF UplinkTypes
  <2>2. uplink_config' = ClosedOf(uplink_config, c)
    BY <1>1, Zenon DEF CloseUplink, uplink_close, ClosedOf
  <2> QED
    BY SMTT(30), <2>1, <2>2, ClosedLinks
<1>4. \A k \in DOMAIN uplink_config :
         /\ \/ uplink_config'[k].state = "down"
            \/ uplink_config'[k] = uplink_config[k]
                 /\ (IsConnected(k) => uplink_config[k].client_ptr # c)
         /\ uplink_config[k].state = "down" => uplink_config'[k].state = "down"
  BY <1>3, Zenon
<1>5. /\ LinksInv'
      /\ ucell' \in [UplinkCell -> CellRec] /\ ucell'[c].st = "free"
      /\ \A d \in UplinkCell : d # c => ucell'[d] = ucell[d]
      /\ \A k \in DOMAIN uplink_config : IsConnected(k)' => IsConnected(k)
  BY <1>2, <1>3, <1>4, LostLinks, Zenon
<1>6. UplinkTypes' /\ KindsApart'
  <2>1. UplinkTypes'
    BY ZenonT(30), <1>1, <1>2, <1>3, <1>5 DEF UplinkTypes
  <2>2. KindsApart'
    BY ZenonT(30), <1>1, <1>3 DEF KindsApart
  <2> QED
    BY ZenonT(30), <2>1, <2>2
<1>7. ThreadInv'
  <2>1. upc = "hand" => /\ Link.client_ptr \in UplinkCell /\ Link.client_ptr # c
                        /\ uplink_config'[l] = uplink_config[l]
    BY ZenonT(30), <1>1, <1>3 DEF ThreadInv, LinksInv, LinkHolds, UplinkTypes, Link
  <2>2. upc = "hand" => IsConnected(l)' /\ ucell'[uplink_config'[l].client_ptr].st = "made"
    BY ZenonT(30), <1>1, <1>5, <2>1 DEF ThreadInv, IsConnected, Link
  <2>3. upc \in {"connect", "answer"} => ~IsConnected(l)'
    BY ZenonT(30), <1>1, <1>5 DEF ThreadInv, IsConnected
  <2>4. upc \in {"take", "dead"} => \A d \in UplinkCell : ucell'[d].st = "free" \/ ucell'[d].shut
    BY ZenonT(30), <1>5 DEF ThreadInv
  <2> QED
    BY ZenonT(30), <1>1, <1>3, <2>2, <2>3, <2>4 DEF ThreadInv, Link
<1>8. ScanSeen'
  BY ZenonT(30), <1>1, <1>3, <1>4 DEF ScanSeen
<1>9. OneRegular'
  <2>1. upc \in {"connect", "answer"} => uplink_config'[l].kind = uplink_config[l].kind
    BY ZenonT(30), <1>3 DEF ThreadInv
  <2> QED
    BY ZenonT(30), <1>1, <1>3, <1>4, <1>5, <2>1 DEF OneRegular, Link
<1> QED
  BY ZenonT(30), <1>5, <1>6, <1>7, <1>8, <1>9
-----------------------------------------------------------------------------
(* Every step keeps the inductive invariant, and so does stuttering. *)
LEMMA UplinkNextIInv == UplinkIInv /\ [UplinkNext]_uplinkVars => UplinkIInv'
<1> SUFFICES ASSUME UplinkIInv, [UplinkNext]_uplinkVars PROVE UplinkIInv'
  BY ZenonT(30)
<1>1. CASE MainStep
  BY ZenonT(30), <1>1, MainKeeps
<1>2. CASE RestartStep
  BY ZenonT(30), <1>2, StopStartKeep, JoinedKeeps DEF RestartStep
<1>3. CASE UplinkStep
  BY ZenonT(30), <1>3, LoopKeeps, AccountKeeps, ScanKeeps, PickKeeps, CloseKeeps, TakeKeeps, ConnectKeeps,
     ConnectFailedKeeps, ConnectedKeeps, HandFailedKeeps, HandOverKeeps DEF UplinkStep
<1>4. ASSUME NEW c \in UplinkCell, WorkerStep(c) \/ UplinkLost(c) PROVE UplinkIInv'
  BY ZenonT(30), <1>4, WorkerCloseKeeps, LoginKeeps DEF WorkerStep
<1>5. CASE UNCHANGED uplinkVars
  <2>1. UNCHANGED <<uplink_config, uplink_clients, ucell, uplink_config_install, pending,
                    uplink_shutting_down, uapc, upc, l, next_uplink, has_uplink>>
    BY ZenonT(30), <1>5 DEF uplinkVars, threadVars, linkVars, outsideVars, installVars, mainVars
  <2>2. UplinkTypes' /\ KindsApart' /\ LinksInv'
    BY ZenonT(30), <2>1, QuietTypes DEF UplinkIInv, linkVars, UplinkTypes
  <2>3. ThreadInv' /\ ScanSeen' /\ OneRegular'
    BY ZenonT(30), <2>1 DEF UplinkIInv, ThreadInv, ScanSeen, OneRegular, IsConnected, Link
  <2> QED
    BY ZenonT(30), <2>2, <2>3 DEF UplinkIInv
<1> QED
  BY ZenonT(30), <1>1, <1>2, <1>3, <1>4, <1>5 DEF UplinkNext

(* The inductive invariant holds throughout. *)
LEMMA UplinkAlways == UplinkSpec => []UplinkIInv
  BY UplinkInitIInv, UplinkNextIInv, PTL DEF UplinkSpec

(* However many uplinks, reloads and faults there are, links and           *)
(* connections agree (uplink.c: make_uplink, uplink_close).                *)
THEOREM LinksHaveClientsAlways == UplinkSpec => []LinksHaveClients
<1>1. UplinkIInv => LinksHaveClients
  <2> SUFFICES ASSUME UplinkIInv PROVE LinksHaveClients
    BY ZenonT(30)
  <2> USE DEF UplinkIInv, LinksInv
  <2>1. \A k \in DOMAIN uplink_config : IsConnected(k) =>
           /\ uplink_config[k].client_ptr \in uplink_clients
           /\ ucell[uplink_config[k].client_ptr].st # "free"
    BY ZenonT(30) DEF LinkHolds
  <2>2. \A c \in Standing : \E k \in DOMAIN uplink_config :
           IsConnected(k) /\ uplink_config[k].client_ptr = c
    BY ZenonT(30) DEF CellHolds, Standing
  <2>3. \A j, k \in DOMAIN uplink_config :
           j # k /\ {uplink_config[j].state, uplink_config[k].state} = {"connected"} =>
             uplink_config[k].client_ptr # uplink_config[j].client_ptr
    BY ZenonT(30) DEF Apart, IsConnected
  <2> QED
    BY ZenonT(30), <2>1, <2>2, <2>3 DEF LinksHaveClients, IsConnected
<1> QED
  BY <1>1, UplinkAlways, PTL

(* However many uplinks, reloads and faults there are, no two connections  *)
(* to upstream servers stand unless both are MULTI (the scan of            *)
(* uplink_thread, close_uplinkers and the check of read_config).           *)
THEOREM NoUplinkLoopAlways == UplinkSpec => []NoUplinkLoop
<1>1. UplinkIInv => NoUplinkLoop
  <2> SUFFICES ASSUME UplinkIInv, ~uplink_shutting_down, NEW c \in Standing, NEW d \in Standing, c # d
               PROVE  ucell[c].kind = "multi" /\ ucell[d].kind = "multi"
    BY ZenonT(30) DEF NoUplinkLoop
  <2> USE DEF UplinkIInv, LinksInv
  <2>1. PICK j \in DOMAIN uplink_config : IsConnected(j) /\ uplink_config[j].client_ptr = c
    BY ZenonT(30) DEF CellHolds, Standing
  <2>2. PICK k \in DOMAIN uplink_config : IsConnected(k) /\ uplink_config[k].client_ptr = d
    BY ZenonT(30) DEF CellHolds, Standing
  <2>3. ucell[c].kind = uplink_config[j].kind /\ ucell[d].kind = uplink_config[k].kind
    BY ZenonT(30), <2>1, <2>2 DEF LinkHolds
  <2>4. uplink_config[j].kind = uplink_config[k].kind /\ uplink_config[j].kind \in Kind
    BY ZenonT(30) DEF KindsApart, UplinkTypes, LinkRec
  <2>5. uplink_config[j].kind # "full"
    BY ZenonT(30), <2>1, <2>2 DEF OneRegular
  <2> QED
    BY ZenonT(30), <2>3, <2>4, <2>5 DEF Kind
<1> QED
  BY <1>1, UplinkAlways, PTL
=============================================================================
