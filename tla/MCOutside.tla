----------------------------- MODULE MCOutside ------------------------------
(* Small instances, for TLC, of what lies outside of the backend: the sidecar, with the *)
(* page it reads and the transport it sends through; the dashboard, with its socket and *)
(* its panes; the escrow and the staking program. They share no state, so a behaviour *)
(* runs one of the six modules. *)
EXTENDS Channel, Sidecar, DashSocket, Panes, Escrow, Staking

VARIABLE focus

clientVars == <<chVars, sideVars, wsVars, paneVars>>
solanaVars == <<esVars, skVars>>
allVars == <<focus, clientVars, solanaVars>>

\* The choices that an initial state leaves open are made where they matter.
MCInit ==
  /\ focus \in {"page", "transport", "socket", "panes", "escrow", "staking"}
  /\ ChInit /\ SideInit /\ WsInit /\ PaneInit /\ EsInit /\ SkInit
  /\ focus # "transport" => up
  /\ focus # "socket" => serving /\ stored = Absent
  /\ focus # "staking" => config = [min |-> 0, cooldown |-> 0]

ClientsNext ==
  \/ focus = "page" /\ ChNext /\ UNCHANGED <<sideVars, wsVars, paneVars>>
  \/ focus = "transport" /\ SideNext /\ UNCHANGED <<chVars, wsVars, paneVars>>
  \/ focus = "socket" /\ WsNext /\ UNCHANGED <<chVars, sideVars, paneVars>>
  \/ focus = "panes" /\ PaneNext /\ UNCHANGED <<chVars, sideVars, wsVars>>

SolanaNext ==
  \/ focus = "escrow" /\ EsNext /\ UNCHANGED skVars
  \/ focus = "staking" /\ SkNext /\ UNCHANGED esVars

MCNext ==
  /\ UNCHANGED focus
  /\ \/ ClientsNext /\ UNCHANGED solanaVars
     \/ SolanaNext /\ UNCHANGED clientVars

MCSpec == MCInit /\ [][MCNext]_allVars

MCFairSpec == MCSpec /\ (focus = "transport" => Fairness) /\ (focus = "socket" => WsFairness)

\* The clients keep their types: no page, queue or age leaves its bounds, the lock of the
\* transport is held by at most one task, and a call is made only on a client (grpc.rs,
\* stream_metrics and report_alert).
TypesOK == ChTypeOK /\ SideTypeOK /\ WsTypeOK /\ PaneTypeOK

\* Reconnects, where the transport runs: its faults end for the sidecar too, although each
\* failed call drops the client (grpc.rs, try_connect).
MCReconnects == focus = "transport" => Reconnects

\* SocketReturns, where the socket runs: an outage of the backend ends for the dashboard
\* too, although each attempt needs a timer (websocket.tsx, onclose).
MCSocketReturns == focus = "socket" => SocketReturns
=============================================================================
