------------------------------ MODULE Sessions ------------------------------
(***************************************************************************)
(* The sessions of clients: the login (login.c), the list of logged-in     *)
(* clients (clientlist.c) by which a second verified login of a station    *)
(* disconnects the first one, the close of a client, and the live upgrade, *)
(* in which a new process takes over the connections of the old one        *)
(* (worker.c, accept.c).                                                   *)
(*                                                                         *)
(* Every client has a worker thread of its own.  A client is identified by *)
(* its memory cell, its socket by a descriptor; both are used again.       *)
(***************************************************************************)
EXTENDS Integers, Sequences, FiniteSets, Lists

CONSTANTS
    SCell, SFd,       \* cells and descriptors: numbers from 1
    User,             \* user names
    UserHash(_),      \* the bucket of the client list for a user name
    Scenarios,        \* records [lines, certs, accepts, upgrades]: the login lines
                      \* that clients send, as records [cmd, user, args, port]; the
                      \* certificates of TLS clients, NoUser where the port asks for
                      \* none; bounds on the connections and on the live upgrades
    MaxFeeds          \* bound on the gauge of the UDP port

NoUser == "none"
Named == User \cup {NoUser}
Bucket == {UserHash(u) : u \in Named}
LoginLine == [cmd : {"comment", "short", "other", "denied", "user"}, user : Named,
              args : Seq({"pass", "udp", "fault", "noversion"}), port : Nat]

ASSUME SessionAssumption ==
    /\ SCell \subseteq Nat \ {0} /\ SFd \subseteq Nat \ {0}
    /\ NoUser \notin User
    /\ \A s \in Scenarios : /\ s.accepts \in Nat /\ s.upgrades \in Nat /\ s.certs \subseteq Named
                           /\ s.lines \subseteq LoginLine

VARIABLES cell,         \* the clients
          sock,         \* the sockets: "free", "open" or "shut"
          clientlist,   \* entries [id, user, validated, fd], the newest first
          feeds,        \* gauge of the UDP port
          hanging,      \* sockets that a live upgrade has left without a client
          dump,         \* what the new process has still to take over
          before,       \* history: those clients as the old process had them
          scenario, accepts, upgrades

upgradeVars == <<hanging, dump, before, upgrades>>
sessionVars == <<cell, sock, clientlist, feeds, upgradeVars, scenario, accepts>>

NoClient == [st |-> "free", phase |-> "login", fd |-> 0, user |-> NoUser, validated |-> FALSE,
             fails |-> 0, udp_port |-> 0, tls |-> FALSE, cert |-> NoUser, old_fd |-> 0]

SessionInit ==
    /\ cell = [c \in SCell |-> NoClient] /\ sock = [f \in SFd |-> "free"]
    /\ clientlist = [b \in Bucket |-> <<>>]
    /\ feeds = 0 /\ hanging = {} /\ dump = {} /\ before = {} /\ accepts = 0 /\ upgrades = 0
    /\ scenario \in Scenarios

Lowest(S) == {c \in S : \A d \in S : c <= d}
First(S) == CHOOSE k \in S : \A m \in S : k <= m
FreeIn(cs) == Lowest({c \in SCell : cs[c].st = "free"})
-----------------------------------------------------------------------------
(***************************************************************************)
(* The client list.                                                        *)
(***************************************************************************)
Entry(c, r) == [id |-> c, user |-> r.user, validated |-> r.validated, fd |-> r.fd]

(* The descriptor of the first validated entry of the user, or 0. *)
check_if_validated_client(list, u) ==
    LET entries == list[UserHash(u)]
        hits == {k \in DOMAIN entries : entries[k].user = u /\ entries[k].validated}
    IN  IF hits = {} THEN 0 ELSE entries[First(hits)].fd

clientlist_add(list, c, r) == [list EXCEPT ![UserHash(r.user)] = <<Entry(c, r)>> \o @]

(* Mutant: any entry of the user is taken for the client's own. *)
clientlist_remove_user(list, c, r) ==
    LET b == UserHash(r.user)
        own == {k \in DOMAIN list[b] : list[b][k].user = r.user}
        last == CHOOSE k \in own : \A m \in own : m <= k
    IN  IF own = {} THEN list ELSE [list EXCEPT ![b] = Without(@, last)]

(* The first entry with this id, in the bucket of the client's user name. *)
clientlist_remove(list, c, r) ==
    LET b == UserHash(r.user)
        own == {k \in DOMAIN list[b] : list[b][k].id = c}
    IN  IF own = {} THEN list ELSE [list EXCEPT ![b] = Without(@, First(own))]
-----------------------------------------------------------------------------
(***************************************************************************)
(* The login.                                                              *)
(***************************************************************************)

(* The arguments after the user name: a valid passcode, a UDP port, a      *)
(* fault that ends the reading of arguments, an application name without a *)
(* version, which fails the login where it stands.                         *)
Arguments(r, line) ==
    LET read == {k \in DOMAIN line.args :
                   \A m \in 1..k - 1 : line.args[m] \notin {"fault", "noversion"}}
        Given(a) == {k \in read : line.args[k] = a}
    IN  [failed |-> Given("noversion") # {}, pass |-> Given("pass") # {},
         udp_port |-> IF Given("udp") # {} THEN line.port ELSE r.udp_port,
         feeds |-> Cardinality(Given("udp"))]

(* failed_login: at the third failure the client is closed. *)
Failed(r, n) == [r EXCEPT !.fails = @ + n, !.st = IF r.fails + n >= 3 THEN "close" ELSE @]

(* login_handler, up to the reply: the client, and what was added to the   *)
(* gauge of the UDP port.  A certificate that is not the user's ends the   *)
(* session; one that is takes the place of the passcode.                   *)
LoginResult(r, line) ==
    LET a == Arguments(r, line)
        named == [r EXCEPT !.user = line.user]
        known == [named EXCEPT !.udp_port = a.udp_port, !.validated = r.cert # NoUser]
    IN  CASE line.cmd = "comment" -> [r |-> r, feeds |-> 0]
          [] line.cmd = "short"   -> [r |-> Failed(r, 1), feeds |-> 0]
          [] line.cmd = "other"   -> [r |-> Failed(r, 2), feeds |-> 0]
          [] line.cmd = "denied"  -> [r |-> Failed(named, 1), feeds |-> 0]
          [] line.cmd = "user"    ->
               IF r.cert \notin {NoUser, line.user} THEN [r |-> Failed(named, 11), feeds |-> 0]
               ELSE IF a.failed THEN [r |-> Failed(known, 1), feeds |-> a.feeds]
               ELSE [r |-> [known EXCEPT !.phase = "connected", !.validated = @ \/ a.pass],
                     feeds |-> a.feeds]

(* Mutant: the older client is left alone. *)
LoginAddedAlone(c, r) ==
    /\ clientlist' = clientlist_add(clientlist, c, r)
    /\ cell' = [cell EXCEPT ![c] = [r EXCEPT !.old_fd = 0]]

(* The client enters the list; it may have to disconnect an older one.     *)
LoginAdded(c, r) ==
    /\ clientlist' = clientlist_add(clientlist, c, r)
    /\ cell' = [cell EXCEPT ![c] =
                  [r EXCEPT !.old_fd = IF r.validated THEN check_if_validated_client(clientlist, r.user)
                                       ELSE 0]]

Login(c) ==
    /\ cell[c].st = "live" /\ cell[c].phase = "login" /\ cell[c].old_fd = 0
    /\ \E line \in scenario.lines : \E res \in {LoginResult(cell[c], line)} :
         /\ feeds + res.feeds <= MaxFeeds
         /\ feeds' = feeds + res.feeds
         /\ \/ res.r.phase = "connected" /\ LoginAdded(c, res.r)
            \/ \* the reply could not be written
               /\ res.r.phase = "connected"
               /\ cell' = [cell EXCEPT ![c] = [res.r EXCEPT !.phase = "login", !.st = "close"]]
               /\ UNCHANGED clientlist
            \/ /\ res.r.phase = "login"
               /\ cell' = [cell EXCEPT ![c] = res.r]
               /\ UNCHANGED clientlist
    /\ UNCHANGED <<sock, upgradeVars, accepts, scenario>>

(* shutdown of the older client's descriptor, whoever has it by now. *)
Disconnect(c) ==
    /\ cell[c].old_fd # 0
    /\ sock' = [sock EXCEPT ![cell[c].old_fd] = IF @ = "open" THEN "shut" ELSE @]
    /\ cell' = [cell EXCEPT ![c].old_fd = 0]
    /\ UNCHANGED <<clientlist, feeds, upgradeVars, accepts, scenario>>
-----------------------------------------------------------------------------
(***************************************************************************)
(* A connection begins and ends.                                           *)
(***************************************************************************)

(* A client that the accept thread has entered but not yet passed on. *)
Entering(c) == cell[c].st = "queued" /\ cell[c].old_fd # 0

(* The accept thread waits for connections, not busy with a live upgrade. *)
AcceptIdle == dump = {} /\ \A c \in SCell : ~Entering(c)

Accept ==
    /\ accepts < scenario.accepts /\ AcceptIdle
    /\ \E c \in FreeIn(cell), f \in Lowest({g \in SFd : sock[g] = "free"}), tls \in {scenario.certs # {}, FALSE} :
         /\ \E u \in IF tls THEN scenario.certs ELSE {NoUser} :
              cell' = [cell EXCEPT ![c] = [NoClient EXCEPT !.st = "queued", !.fd = f, !.tls = tls, !.cert = u]]
         /\ sock' = [sock EXCEPT ![f] = "open"]
    /\ accepts' = accepts + 1
    /\ UNCHANGED <<clientlist, feeds, upgradeVars, scenario>>

Collect(c) ==
    /\ cell[c].st = "queued" /\ cell[c].old_fd = 0
    /\ cell' = [cell EXCEPT ![c].st = "live"]
    /\ UNCHANGED <<sock, clientlist, feeds, upgradeVars, accepts, scenario>>

(* client_close begins: the other end is gone, the socket was shut down,   *)
(* a timeout, or too many failed logins.                                   *)
CloseSocket(c) ==
    /\ cell[c].st \in {"live", "close"} /\ cell[c].old_fd = 0
    /\ sock' = [sock EXCEPT ![cell[c].fd] = "free"]
    /\ cell' = [cell EXCEPT ![c].st = "closing"]
    /\ UNCHANGED <<clientlist, feeds, upgradeVars, accepts, scenario>>

(* The rest of client_close, and client_free. *)
FreeClient(c) ==
    /\ cell[c].st = "closing"
    /\ clientlist' = clientlist_remove(clientlist, c, cell[c])
    /\ feeds' = IF cell[c].udp_port # 0 THEN feeds - 1 ELSE feeds
    /\ cell' = [cell EXCEPT ![c] = NoClient]
    /\ UNCHANGED <<sock, upgradeVars, accepts, scenario>>
-----------------------------------------------------------------------------
(***************************************************************************)
(* The live upgrade.  All threads have ended at the top of their loops.    *)
(***************************************************************************)

(* worker_client_json: what is written down of a client. *)
Dumped(r) == [fd |-> r.fd, phase |-> r.phase, user |-> r.user, validated |-> r.validated,
              udp_port |-> r.udp_port]

(* Mutant: the name is kept only for verified clients. *)
TakenOverUnnamed(d) ==
    [NoClient EXCEPT !.st = "queued", !.fd = d.fd, !.phase = d.phase, !.validated = d.validated,
                     !.user = IF d.phase = "connected" /\ d.validated THEN d.user ELSE NoUser,
                     !.udp_port = IF d.udp_port > 1024 THEN d.udp_port ELSE 0]

(* accept_liveupgrade_single, up to the client list: the name is kept for  *)
(* a client that has logged in, the UDP feed if its port is above 1024.    *)
TakenOver(d) ==
    [NoClient EXCEPT !.st = "queued", !.fd = d.fd, !.phase = d.phase, !.validated = d.validated,
                     !.user = IF d.phase = "connected" THEN d.user ELSE NoUser,
                     !.udp_port = IF d.udp_port > 1024 THEN d.udp_port ELSE 0]

(* The accept thread of the new process takes over the clients one by one, *)
(* while its workers run already.  The socket is closed if it has no peer, *)
(* no listener or no client cell any more.                                 *)
TakeOver(d) ==
    /\ \A c \in SCell : ~Entering(c)
    /\ dump' = dump \ {d} /\ before' = {r \in before : r.fd # d.fd}
    /\ \/ /\ sock' = [sock EXCEPT ![d.fd] = "free"]
          /\ UNCHANGED <<cell, clientlist, feeds>>
       \/ /\ \E c \in FreeIn(cell) : LoginAdded(c, TakenOver(d))
          /\ feeds' = feeds + IF TakenOver(d).udp_port # 0 THEN 1 ELSE 0
          /\ UNCHANGED sock
    /\ UNCHANGED <<hanging, accepts, upgrades, scenario>>

Live == {c \in SCell : cell[c].st = "live"}
Uncollected == {c \in SCell : cell[c].st = "queued"}

(* TLS connections are closed, the others are dumped.  Clients that no     *)
(* worker has collected are not written down.                              *)
LiveUpgrade ==
    /\ upgrades < scenario.upgrades /\ AcceptIdle
    /\ \A c \in SCell : cell[c].st \in {"free", "queued", "live"} /\ cell[c].old_fd = 0
    /\ before' = {cell[c] : c \in {d \in Live : ~cell[d].tls}}
    /\ dump' = {Dumped(r) : r \in before'}
    /\ sock' = [f \in SFd |-> IF \E c \in Live : cell[c].tls /\ cell[c].fd = f THEN "free" ELSE sock[f]]
    /\ hanging' = hanging \cup {cell[c].fd : c \in Uncollected}
    /\ cell' = [c \in SCell |-> NoClient] /\ clientlist' = [b \in Bucket |-> <<>>] /\ feeds' = 0
    /\ upgrades' = upgrades + 1
    /\ UNCHANGED <<accepts, scenario>>

SessionNext ==
    \/ Accept \/ LiveUpgrade \/ \E d \in dump : TakeOver(d)
    \/ \E c \in SCell : Collect(c) \/ Login(c) \/ Disconnect(c) \/ CloseSocket(c) \/ FreeClient(c)

SessionSpec == SessionInit /\ [][SessionNext]_sessionVars
-----------------------------------------------------------------------------
(***************************************************************************)
(* Properties.                                                             *)
(***************************************************************************)
Present(c) == cell[c].st # "free"
Verified(u) == {c \in SCell : Present(c) /\ cell[c].phase = "connected" /\ cell[c].user = u /\ cell[c].validated}

(* The socket of the client of an entry is shut down, is about to be shut  *)
(* down by the thread that entered a newer client, or is closed already.   *)
Leaving(e) ==
    \/ cell[e.id].st = "closing"
    \/ sock[e.fd] = "shut"
    \/ \E c \in SCell : cell[c].old_fd = e.fd

(* Of the verified clients of one user all but the one that was entered    *)
(* last are on their way out (login_handler's "Disconnecting duplicate     *)
(* validated client"), whatever the workers do at the same time and        *)
(* however descriptors are reused.                                         *)
OnlyNewestStands ==
    \A b \in Bucket : \A i, j \in DOMAIN clientlist[b] :
      LET new == clientlist[b][i]
          old == clientlist[b][j]
      IN  i < j /\ new.user = old.user /\ new.validated /\ old.validated => Leaving(old)

(* A lookup of the client list (clientlist_check_if_validated_client, by   *)
(* which the Q construct tells a verified login) finds a user exactly when *)
(* a verified client of that name is connected, across closes with reused  *)
(* cells and descriptors and across live upgrades.                         *)
LookupTruthful ==
    \A u \in User : check_if_validated_client(clientlist, u) # 0 <=> Verified(u) # {}

(* The client taken over in this step is as the old process had it, and    *)
(* the socket shut down for it belongs to a rival.                         *)
SessionsKept ==
    /\ \A r \in before : (\E d \in dump \ dump' : d.fd = r.fd) /\ sock'[r.fd] # "free" =>
         \E c \in SCell :
           /\ cell'[c].fd = r.fd /\ cell'[c].st = "queued"
           /\ cell'[c].phase = r.phase /\ cell'[c].validated = r.validated
           /\ r.phase = "connected" => cell'[c].user = r.user
    /\ \A c \in SCell : \A f \in SFd :
         Entering(c) /\ cell[c].old_fd = f /\ sock[f] = "open" /\ sock'[f] = "shut" =>
           \E d \in Verified(cell[c].user) : d # c /\ cell[d].fd = f

(* A live upgrade keeps the session of every collected client without TLS  *)
(* whose socket it does not close: its state, its verification and, after  *)
(* the login, its name.  And it disconnects only clients that have a rival *)
(* of the same name, whatever the workers of the new process do meanwhile  *)
(* (accept_liveupgrade_single).                                            *)
UpgradeKeeps == [][SessionsKept]_sessionVars

=============================================================================
