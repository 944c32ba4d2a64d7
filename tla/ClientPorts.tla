---------------------------- MODULE ClientPorts ----------------------------
(***************************************************************************)
(* Listeners, clients and what they share: the accept thread opens and     *)
(* closes listeners as the configuration changes, accepts clients, sets up *)
(* the UDP core peers and hands all of them over to worker threads through *)
(* their new_clients queues; the workers collect, log in and close them.   *)
(* Two kinds of objects are shared by reference count: port accounters     *)
(* (struct portaccount_t) and UDP sockets (struct client_udp_t).           *)
(*                                                                         *)
(* There is one TCP listener and one UDP listener on the same port, and    *)
(* one peer group.  Objects are numbered in the order of their allocation  *)
(* and never reused; the reference 0 is NULL, and an object whose count    *)
(* has reached 0 has been freed.                                           *)
(***************************************************************************)
EXTENDS Integers, Sequences, FiniteSets

CONSTANT Scenarios    \* what may vary between runs: records with the fields below

ASSUME ConstantsAssumption ==
    \A s \in Scenarios :
      /\ s.MaxWorkers \in Nat \ {0}
      /\ \A c \in s.Configs : /\ c.tcp \in BOOLEAN /\ c.udp \in BOOLEAN
                              /\ c.peers \in Nat /\ c.deny \in BOOLEAN
                              /\ c.tcp \/ c.udp \/ c.peers > 0
      /\ s.clients_max \in Nat /\ s.maxclients \in Nat
      /\ s.UseTls \in BOOLEAN /\ s.ReloadsOverlap \in BOOLEAN
      /\ s.MaxAccept \in Nat /\ s.MaxReconf \in Nat

VARIABLE scenario         \* the one of this behaviour

MaxWorkers == scenario.MaxWorkers         \* bound on workers_configured
Configs == scenario.Configs               \* configurations: records [tcp, udp, peers, deny]
clients_max == scenario.clients_max       \* limit of the TCP listener
maxclients == scenario.maxclients         \* limit over all listeners
UseTls == scenario.UseTls                 \* the TCP listener has a TLS context
MaxAccept == scenario.MaxAccept           \* bound on the connections that arrive
MaxReconf == scenario.MaxReconf           \* bound on the configuration reloads
ReloadsOverlap == scenario.ReloadsOverlap \* may a reload come while the last one is being applied?

VARIABLES
    listen_config,          \* the id of each configured listener, 0 if absent
    peerip_config,          \* how many peers are configured
    acl,                    \* does the configured ACL deny the clients?
    workers_configured,
    accept_reconfiguring,
    apc,                    \* where the accept thread is
    listen_list,            \* the open listeners
    portaccount,            \* the accounters
    udpclient,              \* the UDP sockets
    client,                 \* the clients
    inbound_connects,       \* gauge over all listeners
    new_clients,            \* the queue of each worker
    clients,                \* the clients each worker has collected
    corepeers,              \* worker_corepeer_clients
    workers_running,
    shutting_down,          \* has the last worker been told to stop?
    next_receiving_worker,
    last_id, accepts, reconfs

configVars == <<listen_config, peerip_config, acl, workers_configured, last_id, reconfs>>
objectVars == <<portaccount, udpclient, client, inbound_connects>>
workerVars == <<clients, corepeers, workers_running, shutting_down>>
vars == <<configVars, accept_reconfiguring, apc, listen_list, objectVars,
          new_clients, workerVars, next_receiving_worker, accepts>>

Slot == {"tcp", "udp", "peer"}
Worker == 1..MaxWorkers
Running == 1..workers_running

(***************************************************************************)
(* Port accounters.                                                        *)
(***************************************************************************)
port_accounter_alloc == [refcount |-> 1, gauge |-> 0]

port_accounter_add(acc, a) ==
    [acc EXCEPT ![a].refcount = @ + 1, ![a].gauge = @ + 1]

port_accounter_drop(acc, a) ==
    IF acc[a].refcount = 1
    THEN [acc EXCEPT ![a] = [refcount |-> 0, gauge |-> 0]]
    ELSE [acc EXCEPT ![a].refcount = @ - 1, ![a].gauge = @ - 1]

(***************************************************************************)
(* UDP sockets: a list for the clients' feeds and one for core peers.  New *)
(* ones are put in front, so the search finds the newest.                  *)
(***************************************************************************)
client_udp_alloc(slot, a) ==
    [root |-> slot, portaccount |-> a, refcount |-> 1, polled |-> FALSE]

client_udp_free(udp, u) ==
    IF u = 0 THEN udp
    ELSE IF udp[u].refcount = 1
         THEN [udp EXCEPT ![u] = [@ EXCEPT !.portaccount = 0, !.refcount = 0,
                                           !.polled = FALSE]]
         ELSE [udp EXCEPT ![u].refcount = @ - 1]

client_udp_find(slot) ==
    LET found == {u \in DOMAIN udpclient : /\ udpclient[u].root = slot
                                           /\ udpclient[u].refcount > 0}
    IN  IF found = {} THEN 0 ELSE CHOOSE u \in found : \A v \in found : u >= v

(***************************************************************************)
(* Clients.                                                                *)
(***************************************************************************)
Freed == [state |-> "freed", portaccount |-> 0, udpclient |-> 0,
          udp_port |-> FALSE, xfd |-> FALSE, shut |-> FALSE]

client_alloc(state, a, u) ==
    [Freed EXCEPT !.state = state, !.portaccount = a, !.udpclient = u]

Inport(c) == client[c].state \in {"login", "connected"}

(* Mutant: the count of the UDP feed is not taken back. *)
ReleaseNotFeed(c) ==
    /\ client' = [client EXCEPT ![c] = Freed]
    /\ udpclient' = client_udp_free(udpclient, client[c].udpclient)
    /\ inbound_connects' = inbound_connects - IF client[c].portaccount # 0 THEN 1 ELSE 0
    /\ portaccount' = IF client[c].portaccount # 0
                      THEN port_accounter_drop(portaccount, client[c].portaccount)
                      ELSE portaccount

(***************************************************************************)
(* What client_close does to the objects: the accounter of the listener,   *)
(* the one of the UDP feed, the UDP socket and the client itself.          *)
(***************************************************************************)
Release(c) ==
    LET p == IF client[c].portaccount # 0
             THEN port_accounter_drop(portaccount, client[c].portaccount)
             ELSE portaccount
    IN  /\ client' = [client EXCEPT ![c] = Freed]
        /\ inbound_connects' = inbound_connects - IF client[c].portaccount # 0 THEN 1 ELSE 0
        /\ portaccount' = IF client[c].udp_port
                          THEN port_accounter_drop(p, udpclient[client[c].udpclient].portaccount)
                          ELSE p
        /\ udpclient' = client_udp_free(udpclient, client[c].udpclient)

(* client_free alone, on a client that no worker has seen. *)
FreeOnly(c) ==
    /\ client' = [client EXCEPT ![c] = Freed]
    /\ udpclient' = client_udp_free(udpclient, client[c].udpclient)

-----------------------------------------------------------------------------
(***************************************************************************)
(* The main thread reads a configuration.  A listener that was there keeps *)
(* its id, but one for a peer group always gets a new one.                 *)
(***************************************************************************)
ListenId(s, present) ==
    IF ~present THEN 0
    ELSE IF s # "peer" /\ listen_config[s] # 0 THEN listen_config[s]
    ELSE last_id + (CASE s = "tcp" -> 1 [] s = "udp" -> 2 [] s = "peer" -> 3)

ReadConfig(cfg, n) ==
    /\ reconfs < MaxReconf
    /\ ReloadsOverlap \/ (apc = "poll" /\ ~accept_reconfiguring)
    /\ reconfs' = reconfs + 1
    /\ listen_config' = [s \in Slot |->
           ListenId(s, CASE s = "tcp" -> cfg.tcp [] s = "udp" -> cfg.udp
                         [] s = "peer" -> cfg.peers > 0)]
    /\ last_id' = last_id + 3
    /\ peerip_config' = cfg.peers
    /\ acl' = cfg.deny
    /\ workers_configured' = n
    /\ accept_reconfiguring' = TRUE
    /\ UNCHANGED <<apc, listen_list, objectVars, new_clients, workerVars,
                   next_receiving_worker, accepts>>

-----------------------------------------------------------------------------
(***************************************************************************)
(* The accept thread reconfigures: it closes removed listeners, opens      *)
(* missing ones, scans the clients against the new ACLs and listeners,     *)
(* changes the number of workers and replaces the core peers.              *)
(***************************************************************************)
ReconfigureStart ==
    /\ apc = "poll" /\ accept_reconfiguring
    /\ accept_reconfiguring' = FALSE
    /\ apc' = "close"
    /\ UNCHANGED <<configVars, listen_list, objectVars, new_clients, workerVars,
                   next_receiving_worker, accepts>>

Removed == {l \in listen_list : \A s \in Slot : listen_config[s] # l.id}
Missing == {s \in Slot : /\ listen_config[s] # 0
                         /\ \A l \in listen_list : l.id # listen_config[s]}

listener_free(l) ==
    /\ listen_list' = listen_list \ {l}
    /\ udpclient' = client_udp_free(udpclient, l.udp)
    /\ portaccount' = port_accounter_drop(portaccount, l.portaccount)

close_removed_listeners ==
    /\ apc = "close"
    /\ \/ /\ \E l \in Removed : listener_free(l)
          /\ apc' = apc
       \/ /\ Removed = {}
          /\ apc' = "open"
          /\ UNCHANGED <<listen_list, udpclient, portaccount>>
    /\ UNCHANGED <<configVars, accept_reconfiguring, client, inbound_connects,
                   new_clients, workerVars, next_receiving_worker, accepts>>

open_listener(s) ==
    LET a == Len(portaccount) + 1
        u == IF s = "tcp" THEN 0 ELSE Len(udpclient) + 1
    IN  /\ portaccount' = Append(portaccount, port_accounter_alloc)
        /\ udpclient' = IF u = 0 THEN udpclient
                        ELSE Append(udpclient, client_udp_alloc(s, a))
        /\ listen_list' = listen_list \cup
               {[id |-> listen_config[s], slot |-> s, portaccount |-> a, udp |-> u,
                 deny |-> acl]}

listener_update_config ==
    listen_list' = {[l EXCEPT !.deny = acl] : l \in listen_list}

open_missing_listeners ==
    /\ apc = "open"
    /\ \/ /\ \E s \in Missing : open_listener(s)
          /\ apc' = apc
       \/ /\ Missing = {}
          /\ listener_update_config
          /\ apc' = "rescan"
          /\ UNCHANGED <<udpclient, portaccount>>
    /\ UNCHANGED <<configVars, accept_reconfiguring, client, inbound_connects,
                   new_clients, workerVars, next_receiving_worker, accepts>>

(* A client is shut down when its listener is gone or denies it. *)
Denied == ~ \E l \in listen_list : l.slot = "tcp" /\ ~l.deny

Scanned == UNION {clients[w] : w \in Running}

rescan_client_acls ==
    /\ apc = "rescan"
    /\ apc' = IF workers_running # workers_configured THEN "workers" ELSE "peersClose"
    /\ client' = [c \in DOMAIN client |->
                    IF Denied /\ c \in Scanned /\ Inport(c)
                    THEN [client[c] EXCEPT !.shut = TRUE] ELSE client[c]]
    /\ UNCHANGED <<configVars, accept_reconfiguring, listen_list, portaccount,
                   udpclient, inbound_connects, new_clients, workerVars,
                   next_receiving_worker, accepts>>

(***************************************************************************)
(* workers_start: stop surplus workers, the last one first, or start new   *)
(* ones.  A stopped worker is freed with what is left in its queue.        *)
(***************************************************************************)
workers_stop ==
    /\ apc = "workers" /\ workers_running > workers_configured /\ ~shutting_down
    /\ shutting_down' = TRUE
    /\ UNCHANGED <<configVars, accept_reconfiguring, apc, listen_list, objectVars,
                   new_clients, clients, corepeers, workers_running,
                   next_receiving_worker, accepts>>

WorkerJoined ==
    /\ apc = "workers" /\ shutting_down /\ clients[workers_running] = {}
    /\ shutting_down' = FALSE
    /\ workers_running' = workers_running - 1
    /\ new_clients' = [new_clients EXCEPT ![workers_running] = <<>>]
    /\ UNCHANGED <<configVars, accept_reconfiguring, apc, listen_list, objectVars,
                   clients, corepeers, next_receiving_worker, accepts>>

workers_start ==
    /\ apc = "workers" /\ workers_running <= workers_configured /\ ~shutting_down
    /\ IF workers_running < workers_configured
       THEN workers_running' = workers_running + 1 /\ apc' = apc
       ELSE apc' = "peersClose" /\ UNCHANGED workers_running
    /\ UNCHANGED <<configVars, accept_reconfiguring, listen_list, objectVars,
                   new_clients, clients, corepeers, shutting_down,
                   next_receiving_worker, accepts>>

pass_client_to_worker(w, c) ==
    new_clients' = [new_clients EXCEPT ![w] = Append(@, c)]

(* A pseudo client with a magic fd tells the first worker to close all peers. *)
peerip_clients_close ==
    /\ apc = "peersClose"
    /\ apc' = "peersConfig"
    /\ client' = Append(client, client_alloc("magic", 0, 0))
    /\ pass_client_to_worker(1, Len(client) + 1)
    /\ UNCHANGED <<configVars, accept_reconfiguring, listen_list, portaccount,
                   udpclient, inbound_connects, workerVars,
                   next_receiving_worker, accepts>>

(* One client for each configured peer, on the socket of the peer group. *)
peerip_clients_config ==
    LET u == client_udp_find("peer")
        n == IF u = 0 THEN 0 ELSE peerip_config
        peer == [client_alloc("corepeer", 0, u) EXCEPT !.udp_port = TRUE]
    IN  /\ apc = "peersConfig"
        /\ apc' = "poll"
        /\ client' = client \o [i \in 1..n |-> peer]
        /\ new_clients' = [new_clients EXCEPT ![1] = @ \o [i \in 1..n |-> Len(client) + i]]
        /\ udpclient' = IF n = 0 THEN udpclient
                        ELSE [udpclient EXCEPT ![u].refcount = @ + n]
        /\ portaccount' = IF n = 0 THEN portaccount
                          ELSE [portaccount EXCEPT ![udpclient[u].portaccount].refcount = @ + n,
                                                   ![udpclient[u].portaccount].gauge = @ + n]
        /\ UNCHANGED <<configVars, accept_reconfiguring, listen_list,
                       inbound_connects, workerVars, next_receiving_worker, accepts>>

-----------------------------------------------------------------------------
(***************************************************************************)
(* do_accept: a connection arrives on the TCP listener.                    *)
(***************************************************************************)
pick_next_worker ==
    IF next_receiving_worker < workers_running THEN next_receiving_worker + 1 ELSE 1

Full(l) ==
    portaccount[l.portaccount].gauge >= clients_max \/ inbound_connects >= maxclients

Connect(l) ==
    /\ apc = "poll" /\ accepts < MaxAccept
    /\ l.slot = "tcp"
    /\ accepts' = accepts + 1
    /\ UNCHANGED <<configVars, accept_reconfiguring, apc, listen_list, workerVars>>

DoAcceptReject(l) ==
    /\ Connect(l)
    /\ Full(l) \/ l.deny
    /\ UNCHANGED <<objectVars, new_clients, next_receiving_worker>>

(* accept_client_for_listener: the client is allocated and accounted. *)
Accepted(l) ==
    client_alloc("login", l.portaccount, client_udp_find("udp"))

(* Mutant: only the port is accounted, not the total. *)
AccountAcceptedPort(l) ==
    LET u == client_udp_find("udp")
    IN  /\ udpclient' = IF u = 0 THEN udpclient ELSE [udpclient EXCEPT ![u].refcount = @ + 1]
        /\ portaccount' = port_accounter_add(portaccount, l.portaccount)
        /\ UNCHANGED inbound_connects

AccountAccepted(l) ==
    LET u == client_udp_find("udp")
    IN  /\ udpclient' = IF u = 0 THEN udpclient ELSE [udpclient EXCEPT ![u].refcount = @ + 1]
        /\ portaccount' = port_accounter_add(portaccount, l.portaccount)
        /\ inbound_connects' = inbound_connects + 1

DoAccept(l) ==
    /\ Connect(l)
    /\ ~Full(l) /\ ~l.deny
    /\ client' = Append(client, Accepted(l))
    /\ AccountAccepted(l)
    /\ pass_client_to_worker(pick_next_worker, Len(client) + 1)
    /\ next_receiving_worker' = pick_next_worker

(* The TLS connection cannot be set up: the socket is closed, and no more. *)
DoAcceptTlsFails(l) ==
    /\ Connect(l)
    /\ UseTls /\ ~Full(l) /\ ~l.deny
    /\ client' = Append(client, Accepted(l))
    /\ AccountAccepted(l)
    /\ UNCHANGED <<new_clients, next_receiving_worker>>

(* Setting the socket options fails: everything is taken back. *)
DoAcceptError(l) ==
    /\ Connect(l)
    /\ ~Full(l) /\ ~l.deny
    /\ UNCHANGED <<objectVars, new_clients, next_receiving_worker>>

-----------------------------------------------------------------------------
(***************************************************************************)
(* The workers.  collect_new_clients takes the clients of its queue one by *)
(* one; the greeting may find the connection broken and close it at once.  *)
(***************************************************************************)
Active(w) == w \in Running /\ ~(shutting_down /\ w = workers_running)

CollectTcp(w, broken) ==
    LET c == Head(new_clients[w])
    IN  /\ Active(w) /\ new_clients[w] # <<>> /\ client[c].state = "login"
        /\ new_clients' = [new_clients EXCEPT ![w] = Tail(@)]
        /\ IF broken
           THEN Release(c) /\ UNCHANGED clients
           ELSE /\ clients' = [clients EXCEPT ![w] = @ \cup {c}]
                /\ client' = [client EXCEPT ![c].xfd = TRUE]
                /\ UNCHANGED <<portaccount, udpclient, inbound_connects>>
        /\ UNCHANGED <<configVars, accept_reconfiguring, apc, listen_list, corepeers,
                       workers_running, shutting_down, next_receiving_worker, accepts>>

CollectPeer ==
    LET c == Head(new_clients[1])
        u == client[c].udpclient
    IN  /\ Active(1) /\ new_clients[1] # <<>> /\ client[c].state = "corepeer"
        /\ new_clients' = [new_clients EXCEPT ![1] = Tail(@)]
        /\ clients' = [clients EXCEPT ![1] = @ \cup {c}]
        /\ corepeers' = Append(corepeers, c)
        /\ client' = [client EXCEPT ![c].xfd = ~udpclient[u].polled]
        /\ udpclient' = [udpclient EXCEPT ![u].polled = TRUE]
        /\ UNCHANGED <<configVars, accept_reconfiguring, apc, listen_list, portaccount,
                       inbound_connects, workers_running, shutting_down,
                       next_receiving_worker, accepts>>

(* Mutant: the peers are closed and stay in the array. *)
CorepeerCloseArrayKept ==
    LET c == Head(new_clients[1])
        open == {i \in DOMAIN corepeers : client[corepeers[i]].state # "freed"}
    IN  /\ Active(1) /\ new_clients[1] # <<>> /\ client[c].state = "magic"
        /\ IF open # {}
           THEN LET p == corepeers[CHOOSE i \in open : TRUE]
                IN  /\ Release(p)
                    /\ clients' = [clients EXCEPT ![1] = @ \ {p}]
                    /\ UNCHANGED <<corepeers, new_clients>>
           ELSE /\ FreeOnly(c)
                /\ new_clients' = [new_clients EXCEPT ![1] = Tail(@)]
                /\ UNCHANGED <<portaccount, inbound_connects, clients, corepeers>>
        /\ UNCHANGED <<configVars, accept_reconfiguring, apc, listen_list,
                       workers_running, shutting_down, next_receiving_worker, accepts>>

corepeer_close_all ==
    LET c == Head(new_clients[1])
    IN  /\ Active(1) /\ new_clients[1] # <<>> /\ client[c].state = "magic"
        /\ IF corepeers # <<>>
           THEN /\ Release(Head(corepeers))
                /\ clients' = [clients EXCEPT ![1] = @ \ {Head(corepeers)}]
                /\ corepeers' = Tail(corepeers)
                /\ UNCHANGED new_clients
           ELSE /\ FreeOnly(c)
                /\ new_clients' = [new_clients EXCEPT ![1] = Tail(@)]
                /\ UNCHANGED <<portaccount, inbound_connects, clients, corepeers>>
        /\ UNCHANGED <<configVars, accept_reconfiguring, apc, listen_list,
                       workers_running, shutting_down, next_receiving_worker, accepts>>

(* Login, with or without a UDP feed (login_setup_udp_feed). *)
Login(w, c, feed) ==
    /\ Active(w) /\ c \in clients[w] /\ client[c].state = "login"
    /\ feed => client[c].udpclient # 0
    /\ client' = [client EXCEPT ![c].state = "connected", ![c].udp_port = feed]
    /\ portaccount' = IF feed
                      THEN port_accounter_add(portaccount,
                                              udpclient[client[c].udpclient].portaccount)
                      ELSE portaccount
    /\ UNCHANGED <<configVars, accept_reconfiguring, apc, listen_list, udpclient,
                   inbound_connects, new_clients, workerVars,
                   next_receiving_worker, accepts>>

(* Mutant: a client that has not logged in is never closed. *)
CloseConnected(w, c) ==
    /\ w \in Running /\ c \in clients[w] /\ client[c].state = "connected"
    /\ Release(c)
    /\ clients' = [clients EXCEPT ![w] = @ \ {c}]
    /\ UNCHANGED <<configVars, accept_reconfiguring, apc, listen_list, new_clients,
                   corepeers, workers_running, shutting_down,
                   next_receiving_worker, accepts>>

(* The peer hangs up, an error, a timeout, or the worker is stopping. *)
client_close(w, c) ==
    /\ w \in Running /\ c \in clients[w] /\ Inport(c)
    /\ Release(c)
    /\ clients' = [clients EXCEPT ![w] = @ \ {c}]
    /\ UNCHANGED <<configVars, accept_reconfiguring, apc, listen_list, new_clients,
                   corepeers, workers_running, shutting_down,
                   next_receiving_worker, accepts>>

-----------------------------------------------------------------------------
(* Program start: the configuration is read, no thread has done a step. *)
Init ==
    /\ scenario \in Scenarios
    /\ \E cfg \in Configs :
          /\ listen_config = [s \in Slot |->
                 CASE s = "tcp" -> IF cfg.tcp THEN 1 ELSE 0
                   [] s = "udp" -> IF cfg.udp THEN 2 ELSE 0
                   [] s = "peer" -> IF cfg.peers > 0 THEN 3 ELSE 0]
          /\ peerip_config = cfg.peers
          /\ acl = cfg.deny
    /\ workers_configured \in Worker
    /\ accept_reconfiguring = TRUE
    /\ apc = "poll"
    /\ listen_list = {}
    /\ portaccount = <<>> /\ udpclient = <<>> /\ client = <<>>
    /\ inbound_connects = 0
    /\ new_clients = [w \in Worker |-> <<>>]
    /\ clients = [w \in Worker |-> {}]
    /\ corepeers = <<>>
    /\ workers_running = 0
    /\ shutting_down = FALSE
    /\ next_receiving_worker = 0
    /\ last_id = 3 /\ accepts = 0 /\ reconfs = 0

AcceptStep ==
    \/ ReconfigureStart
    \/ close_removed_listeners
    \/ open_missing_listeners
    \/ rescan_client_acls
    \/ workers_stop
    \/ WorkerJoined
    \/ workers_start
    \/ peerip_clients_close
    \/ peerip_clients_config

Arrival(l) ==
    DoAcceptReject(l) \/ DoAccept(l) \/ DoAcceptTlsFails(l) \/ DoAcceptError(l)

Collect(w) ==
    \/ \E broken \in BOOLEAN : CollectTcp(w, broken)
    \/ w = 1 /\ CollectPeer
    \/ w = 1 /\ corepeer_close_all

Step ==
    \/ \E cfg \in Configs, n \in Worker : ReadConfig(cfg, n)
    \/ AcceptStep
    \/ \E l \in listen_list : Arrival(l)
    \/ \E w \in Worker : Collect(w)
    \/ \E w \in Worker : \E c \in clients[w] :
          \/ \E feed \in BOOLEAN : Login(w, c, feed)
          \/ client_close(w, c)

Next == Step /\ UNCHANGED scenario

Spec == Init /\ [][Next]_<<scenario, vars>>

(* The worker notices a connection that is shut down, or closes all as it stops. *)
CloseDue(w) ==
    \E c \in clients[w] : /\ client[c].shut \/ (shutting_down /\ w = workers_running)
                          /\ client_close(w, c)
-----------------------------------------------------------------------------

Elements(q) == {q[i] : i \in DOMAIN q}

Attached(c) == \E w \in Running : c \in clients[w] \/ c \in Elements(new_clients[w])

(***************************************************************************)
(* A port accounter counts its users (port_accounter_add, _drop): the      *)
(* listener, every client connected through it and every client with a UDP *)
(* feed from its socket.  A UDP socket counts its own (client_udp_find,    *)
(* client_udp_free): the listener and the clients that use it.  So each is *)
(* freed by the last of its users, whichever thread that runs in.          *)
(***************************************************************************)
RefsExact ==
    /\ \A a \in DOMAIN portaccount :
          portaccount[a].refcount =
              Cardinality({l \in listen_list : l.portaccount = a})
              + Cardinality({c \in DOMAIN client : client[c].portaccount = a})
              + Cardinality({c \in DOMAIN client :
                    client[c].udp_port /\ udpclient[client[c].udpclient].portaccount = a})
    /\ \A u \in DOMAIN udpclient :
          udpclient[u].refcount =
              Cardinality({l \in listen_list : l.udp = u})
              + Cardinality({c \in DOMAIN client : client[c].udpclient = u})

(***************************************************************************)
(* The gauges that do_accept compares with the limits are the numbers of   *)
(* clients that have not been freed: client_close and only it takes a      *)
(* client off them, also for clients that no worker has any more.          *)
(***************************************************************************)
GaugeExact ==
    /\ inbound_connects = Cardinality({c \in DOMAIN client : Inport(c)})
    /\ \A l \in listen_list : l.slot = "tcp" =>
          portaccount[l.portaccount].gauge =
              Cardinality({c \in DOMAIN client : client[c].portaccount = l.portaccount})

Settled == apc = "poll" /\ ~accept_reconfiguring /\ new_clients[1] = <<>>
PeerSockets == {l.udp : l \in {m \in listen_list : m.slot = "peer"}}

(***************************************************************************)
(* Once a reconfiguration is through and collect_new_clients has seen its  *)
(* peers, the first worker's array holds the configured peers, all alive   *)
(* and on the socket of the open peer listener, and no old ones.  Unless a *)
(* reload came before the last one had been applied, that socket is in the *)
(* poll set of the first worker, exactly once: handle_corepeer_readable is *)
(* the only reader of the peers' packets.                                  *)
(***************************************************************************)
PeersReady ==
    Settled =>
        /\ Len(corepeers) = peerip_config
        /\ {c \in DOMAIN client : client[c].state = "corepeer"} = Elements(corepeers)
        /\ \A c \in Elements(corepeers) : client[c].udpclient \in PeerSockets
        /\ ~ReloadsOverlap =>
              \A u \in PeerSockets :
                  Cardinality({c \in Elements(corepeers) :
                                 client[c].udpclient = u /\ client[c].xfd}) = 1

(***************************************************************************)
(* A client that has not been closed belongs to a running worker, also     *)
(* when workers are stopped (worker_thread closes all its clients).        *)
(***************************************************************************)
NoOrphans ==
    \A c \in DOMAIN client : Inport(c) => Attached(c)

(***************************************************************************)
(* A reconfiguration ends: the accept thread, which waits for the workers  *)
(* it stops, comes back to accepting connections.                          *)
(***************************************************************************)
ReconfigurationEnds == accept_reconfiguring ~> (apc = "poll" /\ ~accept_reconfiguring)
=============================================================================
