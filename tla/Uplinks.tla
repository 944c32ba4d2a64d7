------------------------------ MODULE Uplinks ------------------------------
(***************************************************************************)
(* The connections to upstream servers (uplink.c).  The uplink thread      *)
(* applies the configuration that the main thread has put in place, keeps  *)
(* one of the regular uplinks and all of the MULTI ones connected, and     *)
(* hands the connections over to the first worker, which logs in to the    *)
(* server and closes the connection when it breaks.  The accept thread     *)
(* stops and restarts the uplink thread when the number of workers         *)
(* changes.                                                                *)
(*                                                                         *)
(* A configuration is a sequence of uplinks, each either "full" or         *)
(* "multi"; NULL is the empty sequence.  A client is the memory cell of a  *)
(* struct client_t, which is used again after it has been freed.           *)
(***************************************************************************)
EXTENDS Integers, Sequences, FiniteSets

CONSTANTS
    UplinkCell,         \* cells for clients
    UplinkConfigs,      \* what may be read from the configuration file
    Operators,          \* how a reload is made: "careful", "patient" or "hasty"
    MaxReload,          \* bound on the reloads
    MaxFault            \* bound on refused connects and broken connections

ASSUME UplinkAssumption ==
    /\ UplinkConfigs \subseteq Seq({"full", "multi"})
    /\ UplinkCell \subseteq Nat \ {0} /\ IsFiniteSet(UplinkCell)
    /\ Operators \subseteq {"careful", "patient", "hasty"}
    /\ MaxReload \in Nat /\ MaxFault \in Nat

VARIABLES
    uplink_config,              \* the uplinks: records [kind, state, client_ptr]
    uplink_config_install,      \* a configuration that waits to be applied
    uplink_config_updated,
    uplink_reconfiguring, uplink_shutting_down,
    upc, l, next_uplink,        \* the uplink thread: its place, its loop, its choice,
    has_uplink,                 \* whether its loop has met a regular uplink that is up
    uplink_clients,             \* the connected uplinks
    ucell,                      \* the clients
    mpc, pending,               \* the main thread: its place, what it has read
    uapc,                       \* the accept thread
    operator,                   \* a careful one waits until the last reload has been
                                \* applied and leaves the number of workers alone, a
                                \* patient one only waits
    latest,                     \* the configuration put in place last
    reloads, faults

threadVars == <<uplink_reconfiguring, upc, l, next_uplink, has_uplink>>
linkVars == <<uplink_config, uplink_clients, ucell>>
installVars == <<uplink_config_install, uplink_config_updated>>
mainVars == <<mpc, pending, latest, reloads>>
outsideVars == <<installVars, mainVars, uplink_shutting_down, uapc, operator>>
uplinkVars == <<threadVars, linkVars, outsideVars, faults>>

NULL == 0
FreeCell == [st |-> "free", kind |-> "full", phase |-> "init", shut |-> FALSE]

(* A freshly read configuration. *)
Unlinked(cfg) == [k \in DOMAIN cfg |-> [kind |-> cfg[k], state |-> "down", client_ptr |-> NULL]]

(* A configuration that mixes the kinds is given up, and the reload fails. *)
Mixed(cfg) == {"full", "multi"} \subseteq {cfg[k] : k \in DOMAIN cfg}
Validated(cfg) == IF Mixed(cfg) THEN <<>> ELSE cfg

(* The first configuration has been read and the thread has been started. *)
UplinkInit ==
    /\ \E cfg \in UplinkConfigs :
         /\ ~Mixed(cfg)
         /\ uplink_config_install = cfg /\ latest = cfg
    /\ uplink_config = <<>> /\ uplink_config_updated = TRUE
    /\ uplink_reconfiguring = TRUE /\ uplink_shutting_down = FALSE
    /\ upc = "top" /\ l = 1 /\ next_uplink = 0 /\ has_uplink = FALSE
    /\ uplink_clients = {} /\ ucell = [c \in UplinkCell |-> FreeCell]
    /\ mpc = "idle" /\ pending = [cfg |-> <<>>, workers |-> FALSE] /\ uapc = "poll"
    /\ operator \in Operators /\ reloads = 0 /\ faults = 0
-----------------------------------------------------------------------------
(***************************************************************************)
(* The main thread: read_config, and what main does after it.              *)
(***************************************************************************)
Calm == upc = "sleep" /\ ~uplink_config_updated /\ uapc = "poll"

ReadUplinks ==
    /\ mpc = "idle" /\ reloads < MaxReload /\ (operator = "hasty" \/ Calm)
    /\ \E cfg \in UplinkConfigs, w \in BOOLEAN :
         /\ w => operator # "careful" /\ ~Mixed(cfg)
         /\ pending' = [cfg |-> Validated(cfg), workers |-> w]
    /\ reloads' = reloads + 1
    /\ mpc' = IF uplink_config_install # <<>> THEN "signal" ELSE "install"
    /\ UNCHANGED <<threadVars, linkVars, installVars, latest, uplink_shutting_down, uapc, operator, faults>>

InstallConfig ==
    /\ mpc = "install"
    /\ uplink_config_install' = pending.cfg /\ latest' = pending.cfg
    /\ mpc' = "flag"
    /\ UNCHANGED <<threadVars, linkVars, uplink_config_updated, pending, reloads,
                   uplink_shutting_down, uapc, operator, faults>>

FlagConfig ==
    /\ mpc = "flag"
    /\ uplink_config_updated' = TRUE
    /\ mpc' = "signal"
    /\ UNCHANGED <<threadVars, linkVars, uplink_config_install, pending, latest, reloads,
                   uplink_shutting_down, uapc, operator, faults>>

(* The accept thread is told, and finds that the number of workers differs. *)
SignalAccept ==
    /\ mpc = "signal"
    /\ pending.workers => uapc = "poll"
    /\ mpc' = "idle"
    /\ uapc' = IF pending.workers THEN "stop" ELSE uapc
    /\ UNCHANGED <<threadVars, linkVars, installVars, pending, latest, reloads,
                   uplink_shutting_down, operator, faults>>
-----------------------------------------------------------------------------
(***************************************************************************)
(* The accept thread: uplink_stop, workers_start, uplink_start.            *)
(***************************************************************************)
uplink_stop ==
    /\ uapc = "stop"
    /\ uplink_shutting_down' = TRUE
    /\ uapc' = "join"
    /\ UNCHANGED <<threadVars, linkVars, installVars, mainVars, operator, faults>>

uplink_joined ==
    /\ uapc = "join" /\ upc = "dead"
    /\ uplink_clients' = {} /\ uplink_config' = <<>>
    /\ uapc' = "start"
    /\ UNCHANGED <<threadVars, ucell, installVars, mainVars,
                   uplink_shutting_down, operator, faults>>

uplink_start ==
    /\ uapc = "start"
    /\ uplink_shutting_down' = FALSE /\ uplink_reconfiguring' = TRUE
    /\ upc' = "top" /\ next_uplink' = 0 /\ l' = 1 /\ has_uplink' = FALSE
    /\ uapc' = "poll"
    /\ UNCHANGED <<linkVars, installVars, mainVars, operator, faults>>
-----------------------------------------------------------------------------
(***************************************************************************)
(* The uplink thread.                                                      *)
(***************************************************************************)
Goto(pc) == upc' = pc

close_uplinkers ==
    ucell' = [c \in UplinkCell |->
                IF c \in uplink_clients THEN [ucell[c] EXCEPT !.shut = TRUE] ELSE ucell[c]]

(* The loop condition and the test for a new configuration. *)
UplinkTop ==
    /\ upc = "top"
    /\ IF uplink_shutting_down THEN Goto("exit")
       ELSE IF uplink_reconfiguring \/ uplink_config_updated THEN Goto("apply")
       ELSE Goto("test")
    /\ UNCHANGED <<uplink_reconfiguring, l, next_uplink, has_uplink, linkVars, outsideVars, faults>>

ApplyClose ==
    /\ upc = "apply"
    /\ uplink_reconfiguring' = FALSE
    /\ close_uplinkers
    /\ Goto("take")
    /\ UNCHANGED <<l, next_uplink, has_uplink, uplink_config, uplink_clients, outsideVars, faults>>

ApplyTake ==
    /\ upc = "take"
    /\ uplink_config' = Unlinked(uplink_config_install)
    /\ uplink_config_install' = <<>>
    /\ Goto("unflag")
    /\ UNCHANGED <<uplink_reconfiguring, l, next_uplink, has_uplink, uplink_clients, ucell, uplink_config_updated, mainVars, uplink_shutting_down, uapc,
                   operator, faults>>

ApplyDone ==
    /\ upc = "unflag"
    /\ uplink_config_updated' = FALSE
    /\ Goto("test")
    /\ UNCHANGED <<uplink_reconfiguring, l, next_uplink, has_uplink, linkVars, uplink_config_install,
                   mainVars, uplink_shutting_down, uapc, operator, faults>>

(* Speed up shutdown, and look once more for a new configuration. *)
UplinkTest ==
    /\ upc = "test"
    /\ l' = 1 /\ has_uplink' = FALSE
    /\ uplink_reconfiguring' = (uplink_reconfiguring \/ (~uplink_shutting_down /\ uplink_config_updated))
    /\ Goto(IF uplink_shutting_down \/ uplink_reconfiguring' THEN "top" ELSE "scan")
    /\ UNCHANGED <<next_uplink, linkVars, outsideVars, faults>>

Link == uplink_config[l]
Relinked(link, state, ptr) == [kind |-> link.kind, state |-> state, client_ptr |-> ptr]
SetLink(k, state, ptr) ==
    uplink_config' = [uplink_config EXCEPT ![k] = Relinked(uplink_config[k], state, ptr)]

Regular == {k \in DOMAIN uplink_config : uplink_config[k].kind = "full"}

(* The pass over the links: a MULTI link that is down is made.  It ends    *)
(* early when the thread is to stop.                                       *)
ScanLink ==
    /\ upc = "scan" /\ l <= Len(uplink_config)
    /\ has_uplink' = (has_uplink \/ (Link.kind = "full" /\ Link.state # "down"))
    /\ \/ /\ Link.kind = "multi" /\ Link.state = "down"
          /\ Goto("connect") /\ l' = l
       \/ /\ ~(Link.kind = "multi" /\ Link.state = "down")
          /\ Goto(IF uplink_shutting_down THEN "pick" ELSE "scan") /\ l' = l + 1
    /\ UNCHANGED <<uplink_reconfiguring, next_uplink, linkVars, outsideVars, faults>>

(* The regular links that the loop has passed. *)
avail_uplink == Cardinality({k \in Regular : k < l})

(* Mutant: the next link is tried even if one is being connected. *)
PickNeededAlways == avail_uplink > 0

PickNeeded == avail_uplink > 0 /\ ~has_uplink

(* With no regular uplink connected, the next one is tried. *)
PickLink ==
    /\ \/ upc = "scan" /\ l > Len(uplink_config)
       \/ upc = "pick"
    /\ IF PickNeeded
       THEN /\ next_uplink' = IF next_uplink >= avail_uplink THEN 1 ELSE next_uplink + 1
            /\ l' = next_uplink'
            /\ Goto("connect")
       ELSE Goto("rest") /\ UNCHANGED <<l, next_uplink>>
    /\ UNCHANGED <<uplink_reconfiguring, has_uplink, linkVars, outsideVars, faults>>

(* The sleep between rounds, cut short by a shutdown. *)
Rest ==
    /\ upc = "rest"
    /\ Goto(IF uplink_shutting_down THEN "exit" ELSE "sleep")
    /\ UNCHANGED <<uplink_reconfiguring, l, next_uplink, has_uplink, linkVars, outsideVars, faults>>

WakeUp ==
    /\ upc = "sleep"
    /\ Goto("top")
    /\ UNCHANGED <<uplink_reconfiguring, l, next_uplink, has_uplink, linkVars, outsideVars, faults>>

UplinkExit ==
    /\ upc = "exit"
    /\ close_uplinkers
    /\ Goto("dead")
    /\ UNCHANGED <<uplink_reconfiguring, l, next_uplink, has_uplink, uplink_config, uplink_clients, outsideVars, faults>>
-----------------------------------------------------------------------------
(***************************************************************************)
(* make_uplink, for link l.                                                *)
(***************************************************************************)
(* Back to the loop over MULTI links, or to the end of the round. *)
Made == IF Link.kind = "multi"
        THEN l' = l + 1 /\ Goto(IF uplink_shutting_down THEN "pick" ELSE "scan")
        ELSE l' = l /\ Goto("rest")

ConnectUplink ==
    /\ upc = "connect"
    /\ SetLink(l, "connecting", Link.client_ptr)
    /\ Goto("answer")
    /\ UNCHANGED <<uplink_reconfiguring, l, next_uplink, has_uplink, uplink_clients, ucell, outsideVars, faults>>

(* No address, no connection, or no memory for the client. *)
ConnectFailed ==
    /\ upc = "answer" /\ faults < MaxFault
    /\ faults' = faults + 1
    /\ SetLink(l, "down", Link.client_ptr)
    /\ Made
    /\ UNCHANGED <<uplink_reconfiguring, next_uplink, has_uplink, uplink_clients, ucell, outsideVars>>

(* client_alloc: the lowest free cell is used again first. *)
FreeCells == {c \in UplinkCell : /\ ucell[c].st = "free"
                                 /\ \A d \in UplinkCell : d < c => ucell[d].st # "free"}

Connected ==
    /\ upc = "answer"
    /\ \E c \in FreeCells :
         /\ ucell' = [ucell EXCEPT ![c] = [FreeCell EXCEPT !.st = "made", !.kind = Link.kind]]
         /\ uplink_clients' = uplink_clients \cup {c}
         /\ SetLink(l, "connected", c)
    /\ Goto("hand")
    /\ UNCHANGED <<uplink_reconfiguring, l, next_uplink, has_uplink, outsideVars, faults>>

(* TLS cannot be set up: the client is freed, and client_ptr keeps its     *)
(* address.                                                                *)
HandFailed ==
    /\ upc = "hand" /\ faults < MaxFault
    /\ faults' = faults + 1
    /\ ucell' = [ucell EXCEPT ![Link.client_ptr] = FreeCell]
    /\ uplink_clients' = uplink_clients \ {Link.client_ptr}
    /\ SetLink(l, "down", Link.client_ptr)
    /\ Made
    /\ UNCHANGED <<uplink_reconfiguring, next_uplink, has_uplink, outsideVars>>

(* pass_client_to_worker *)
HandOver ==
    /\ upc = "hand"
    /\ ucell' = [ucell EXCEPT ![Link.client_ptr].st = "up"]
    /\ Goto("account")
    /\ UNCHANGED <<uplink_reconfiguring, l, next_uplink, has_uplink, uplink_config, uplink_clients, outsideVars, faults>>

(* The connection is counted.  The worker may have closed it already.      *)
Account ==
    /\ upc = "account"
    /\ Made
    /\ UNCHANGED <<uplink_reconfiguring, next_uplink, has_uplink, uplink_config, uplink_clients, ucell, outsideVars, faults>>
-----------------------------------------------------------------------------
(***************************************************************************)
(* The worker.                                                             *)
(***************************************************************************)

(* Mutant: the link is not told that its connection has gone. *)
uplink_close_silent(c) ==
    /\ uplink_clients' = uplink_clients \ {c}
    /\ UNCHANGED uplink_config

uplink_close(c) ==
    /\ uplink_config' = [k \in DOMAIN uplink_config |->
           IF uplink_config[k].client_ptr = c
           THEN Relinked(uplink_config[k], "down", NULL)
           ELSE uplink_config[k]]
    /\ uplink_clients' = uplink_clients \ {c}

(* client_close of an uplink. *)
CloseUplink(c) ==
    /\ uplink_close(c)
    /\ ucell' = [ucell EXCEPT ![c] = FreeCell]

RestOfWorker == <<threadVars, outsideVars>>

(* A socket that was shut down reads as closed. *)
ReadShut(c) ==
    /\ ucell[c].st = "up" /\ ucell[c].shut
    /\ CloseUplink(c)
    /\ UNCHANGED <<RestOfWorker, faults>>

(* The connection breaks, times out, or its login is refused: by the       *)
(* greeting (uplink_login_handler) or the answer (uplink_logresp_handler). *)
UplinkLost(c) ==
    /\ ucell[c].st = "up" /\ ~ucell[c].shut /\ faults < MaxFault
    /\ faults' = faults + 1
    /\ CloseUplink(c)
    /\ UNCHANGED RestOfWorker

(* The server greets, and then accepts the login. *)
uplink_login_handler(c) ==
    /\ ucell[c].st = "up" /\ ucell[c].phase = "init"
    /\ ucell' = [ucell EXCEPT ![c].phase = "logresp"]
    /\ UNCHANGED <<RestOfWorker, uplink_config, uplink_clients, faults>>

uplink_logresp_handler(c) ==
    /\ ucell[c].st = "up" /\ ucell[c].phase = "logresp"
    /\ ucell' = [ucell EXCEPT ![c].phase = "connected"]
    /\ UNCHANGED <<RestOfWorker, uplink_config, uplink_clients, faults>>

MainStep == ReadUplinks \/ InstallConfig \/ FlagConfig \/ SignalAccept
RestartStep == uplink_stop \/ uplink_joined \/ uplink_start
UplinkStep ==
    \/ UplinkTop \/ ApplyClose \/ ApplyTake \/ ApplyDone \/ UplinkTest \/ ScanLink \/ PickLink
    \/ Rest \/ WakeUp \/ UplinkExit \/ ConnectUplink \/ ConnectFailed \/ Connected
    \/ HandFailed \/ HandOver \/ Account
WorkerStep(c) == ReadShut(c) \/ uplink_login_handler(c) \/ uplink_logresp_handler(c)

UplinkNext ==
    \/ MainStep \/ RestartStep \/ UplinkStep
    \/ \E c \in UplinkCell : WorkerStep(c) \/ UplinkLost(c)

(* Every thread is scheduled.  A reload needs an operator, and a fault is  *)
(* not owed to anyone.                                                     *)
UplinkFairness ==
    /\ WF_uplinkVars(InstallConfig \/ FlagConfig \/ SignalAccept)
    /\ WF_uplinkVars(RestartStep)
    /\ WF_uplinkVars(UplinkStep)
    /\ \A c \in UplinkCell : WF_uplinkVars(WorkerStep(c))

UplinkSpec == UplinkInit /\ [][UplinkNext]_uplinkVars /\ UplinkFairness
-----------------------------------------------------------------------------
(***************************************************************************)
(* Properties.                                                             *)
(***************************************************************************)
Standing == {c \in UplinkCell : ucell[c].st # "free" /\ ~ucell[c].shut}

(* There is never more than one connection to a regular upstream server,   *)
(* and never one beside a MULTI connection, apart from connections that    *)
(* are already shut down and from the last moments of the uplink thread:   *)
(* packets would loop through the servers (config.c:1441).                 *)
NoUplinkLoop ==
    ~uplink_shutting_down =>
      \A c, d \in Standing : c # d => ucell[c].kind = "multi" /\ ucell[d].kind = "multi"

(* The links and the connections agree: a link that counts as connected    *)
(* has a connection of its own that is registered, so that it is replaced  *)
(* when it breaks and shut down by the next configuration; and every       *)
(* connection that stands is some link's.                                  *)
LinksHaveClients ==
    /\ \A k \in DOMAIN uplink_config :
         uplink_config[k].state = "connected" =>
           /\ uplink_config[k].client_ptr \in uplink_clients
           /\ ucell[uplink_config[k].client_ptr].st # "free"
    /\ \A c \in Standing : \E k \in DOMAIN uplink_config :
         uplink_config[k].state = "connected" /\ uplink_config[k].client_ptr = c
    /\ \A j, k \in DOMAIN uplink_config :
         j # k /\ {uplink_config[j].state, uplink_config[k].state} = {"connected"} =>
           uplink_config[k].client_ptr # uplink_config[j].client_ptr

Up(k) == /\ uplink_config[k].state = "connected"
         /\ ucell[uplink_config[k].client_ptr].phase = "connected"

AllUp ==
    /\ [k \in DOMAIN uplink_config |-> uplink_config[k].kind] = latest
    /\ latest # <<>> => IF Regular # {} THEN \E k \in Regular : Up(k)
                        ELSE \A k \in DOMAIN uplink_config : Up(k)

(* After the last reload and the last fault the configuration that was put *)
(* in place last is in force, with a regular uplink or all MULTI uplinks   *)
(* logged in, if a reload waits for the last one to be applied and leaves  *)
(* the number of workers alone.                                            *)
UplinksComeUp == operator = "careful" => <>[]AllUp

(* "With the known exception of ServerId and FileLimit, all parameters can *)
(* be adjusted without a restart" (CONFIGURATION.md:57): the configuration *)
(* that was put in place last comes into force, the number of workers      *)
(* included, if a reload waits for the last one to be applied.             *)
ReloadTakesEffect == operator # "hasty" => <>[]AllUp
=============================================================================
