---------------------------- MODULE MCConnections ----------------------------
(***************************************************************************)
(* The two ends of the protocol: the sidecar, or a client of an SDK.  They *)
(* share nothing here; which of them runs is chosen once.                  *)
(***************************************************************************)
EXTENDS MCSidecar, MCClients

VARIABLE part

ConnectionsInit ==
    /\ part \in {"sidecar", "sdk"}
    /\ Init /\ SdkInit
    /\ part = "sidecar" => kind = "sync"

ConnectionsNext ==
    /\ UNCHANGED part
    /\ \/ part = "sidecar" /\ Next /\ UNCHANGED sdkVars
       \/ part = "sdk" /\ SdkNext /\ UNCHANGED vars

(* Each part under its own fairness, which asks nothing of the one at rest. *)
ConnectionsSpec ==
    /\ ConnectionsInit /\ [][ConnectionsNext]_<< part, vars, sdkVars >>
    /\ Fairness /\ SdkFairness
=============================================================================
