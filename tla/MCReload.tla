----------------------------- MODULE MCReload -----------------------------
(***************************************************************************)
(* What reloads of the configuration lead to, for TLC: the listeners, the  *)
(* clients and the workers, and the uplinks.  The parts do not interact;   *)
(* part says which of them moves in a behaviour.                           *)
(***************************************************************************)
EXTENDS MCClientPorts, Uplinks

VARIABLE part

allVars == <<part, scenario, vars, uplinkVars>>

MCUplinks == {<<>>, <<"full", "full">>, <<"multi">>}

ReloadInit ==
  /\ part \in {"ports", "uplinks"}
  /\ Init /\ UplinkInit
  /\ part = "ports" => latest = <<>>

Ports(A) == part = "ports" /\ A
Links(A) == part = "uplinks" /\ A

ReloadNext ==
  \/ Ports(Next) /\ UNCHANGED <<part, uplinkVars>>
  \/ Links(UplinkNext) /\ UNCHANGED <<part, scenario, vars>>

(* Every thread is scheduled; nobody has to reload, to connect or to break *)
(* a connection.                                                           *)
ReloadFairness ==
  /\ WF_vars(Ports(AcceptStep))
  /\ \A w \in 1..2 : WF_vars(Ports(Collect(w))) /\ WF_vars(Ports(CloseDue(w)))
  /\ WF_uplinkVars(Links(InstallConfig \/ FlagConfig \/ SignalAccept))
  /\ WF_uplinkVars(Links(RestartStep))
  /\ WF_uplinkVars(Links(UplinkStep))
  /\ \A c \in UplinkCell : WF_uplinkVars(Links(WorkerStep(c)))

ReloadSpec == ReloadInit /\ [][ReloadNext]_allVars /\ ReloadFairness

(* A reconfiguration of the listeners and workers ends (ReconfigurationEnds *)
(* of ClientPorts): the accept thread, which waits for the workers it      *)
(* stops, comes back to accepting connections.                             *)
PortsReconfigured == part = "ports" => ReconfigurationEnds
=============================================================================
