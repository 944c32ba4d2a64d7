--------------------------- MODULE MCClientPorts ---------------------------
(* Configurations for model checking ClientPorts. *)
EXTENDS ClientPorts

Cfg(t, u, p, d) == [tcp |-> t, udp |-> u, peers |-> p, deny |-> d]

(* The UDP listener stays; the TCP listener comes, goes, and gets an ACL. *)
TcpChanges == {Cfg(TRUE, TRUE, 0, FALSE), Cfg(FALSE, TRUE, 0, FALSE), Cfg(TRUE, TRUE, 0, TRUE)}

(* The TCP listener comes and goes, and the peer group with it. *)
TcpOrPeers == {Cfg(TRUE, FALSE, 0, FALSE), Cfg(TRUE, FALSE, 1, FALSE), Cfg(FALSE, TRUE, 2, FALSE)}

(* The peer group comes, goes and changes its size. *)
PeersChange == {Cfg(TRUE, FALSE, 0, FALSE), Cfg(TRUE, FALSE, 1, FALSE), Cfg(TRUE, FALSE, 2, FALSE)}

(* Peers, and an ACL. *)
PeersAndAcl == {Cfg(TRUE, FALSE, 1, FALSE), Cfg(TRUE, FALSE, 1, TRUE)}

OneListener == {Cfg(TRUE, FALSE, 0, FALSE)}

Scenario(n, cfgs, port, all, tls, acc, rec, over) ==
    [MaxWorkers |-> n, Configs |-> cfgs, clients_max |-> port, maxclients |-> all, UseTls |-> tls,
     MaxAccept |-> acc, MaxReconf |-> rec, ReloadsOverlap |-> over]

Safety == {Scenario(2, TcpChanges, 2, 3, TRUE, 3, 1, TRUE),
           Scenario(1, TcpOrPeers, 1, 2, FALSE, 3, 2, FALSE),
           Scenario(2, PeersChange, 1, 1, FALSE, 1, 2, TRUE)}

Live == {Scenario(2, PeersAndAcl, 2, 2, FALSE, 2, 1, TRUE)}

Stop == {Scenario(2, OneListener, 2, 2, FALSE, 2, 1, TRUE)}
=============================================================================
