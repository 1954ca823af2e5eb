----------------------------------- MODULE MCMac -----------------------------------
(***************************************************************************)
(* The parts of macOS, one of which is chosen: the helper that carries the *)
(* tunnel, the application that starts and stops helpers, and the packet   *)
(* tunnel extension.                                                       *)
(***************************************************************************)
EXTENDS Integers, Sequences, FiniteSets

VARIABLES
    which,
    net, host, nets, dns, main, default, routed, previous, handled, stopping, mc_stop_file, session,
    broken, reconnecting, channel, mc_out, sends_on, moves, failures, killed, kept, spurious,
    up, status, attempting, requested, task, stopper, victim, helper, ma_stop_file, state_file, pid_file,
    two, overwritten,
    start, stop, refs, running, pt_out, left, pinging, timer, inq, handle, reports, early

Mac == INSTANCE MacClient WITH
    Network <- {"n", "m"}, MaxMoves <- 1, MaxFailures <- 1, MaxBreaks <- 1, MaxSessions <- 3,
    stop_file <- mc_stop_file, out <- mc_out

App == INSTANCE MacApp WITH
    Helper <- {1, 2}, Stop <- {1}, stop_file <- ma_stop_file

Tunnel == INSTANCE PacketTunnel WITH
    Chunk <- 2, MaxRead <- 3, MaxFrame <- 2, out <- pt_out

clientVars == <<net, host, nets, dns, main, default, routed, previous, handled, stopping, mc_stop_file,
                session, broken, reconnecting, channel, mc_out, sends_on, moves, failures, killed, kept,
                spurious>>
appVars == <<up, status, attempting, requested, task, stopper, victim, helper, ma_stop_file, state_file,
             pid_file, two, overwritten>>
tunnelVars == <<start, stop, refs, running, pt_out, left, pinging, timer, inq, handle, reports, early>>

One == which \in {"client", "app", "tunnel"}

allVars == <<which, clientVars, appVars, tunnelVars>>

(* One of the components is chosen and runs; the others stay in one of     *)
(* their initial states.                                                   *)
SumInit ==
    /\ One
    /\ Mac!Init /\ net = "n"     \* the networks are alike
    /\ App!Init
    /\ Tunnel!Init

SumNext ==
    \/ which = "client" /\ Mac!Next /\ UNCHANGED <<which, appVars, tunnelVars>>
    \/ which = "app" /\ App!Next /\ UNCHANGED <<which, clientVars, tunnelVars>>
    \/ which = "tunnel" /\ Tunnel!Next /\ UNCHANGED <<which, clientVars, appVars>>

(* The threads that are fair.  Only one component runs, so the first thread *)
(* of each can share one condition, and so on.                             *)
Fair1 ==
    \/ which = "client" /\ Mac!Main /\ UNCHANGED <<which, appVars, tunnelVars>>
    \/ which = "app" /\ App!refreshFromStateFile /\ UNCHANGED <<which, clientVars, tunnelVars>>
    \/ which = "tunnel" /\ (Tunnel!Start \/ Tunnel!stopped) /\ UNCHANGED <<which, clientVars, appVars>>

Fair2 ==
    \/ which = "client" /\ Mac!outgoing_loop /\ UNCHANGED <<which, appVars, tunnelVars>>
    \/ which = "app" /\ (App!HelperStep(1) \/ App!HelperStep(2)) /\ UNCHANGED <<which, clientVars, tunnelVars>>
    \/ which = "tunnel" /\ Tunnel!Outbound /\ UNCHANGED <<which, clientVars, appVars>>

Fair3 ==
    which = "tunnel" /\ Tunnel!receiveLoop /\ UNCHANGED <<which, clientVars, appVars>>

SumSpec == SumInit /\ [][SumNext]_allVars /\ WF_allVars(Fair1) /\ WF_allVars(Fair2) /\ WF_allVars(Fair3)

ASSUME Mac!MacAssumption /\ Tunnel!TunnelAssumption

-------------------------------------------------------------------------------
(* A helper of macOS that ends on its own leaves no route and the user's   *)
(* own resolver, and a session is replaced at most once for nothing        *)
(* (macos-client/src/main.rs, network.rs).                                 *)
MacClean == which = "client" => Mac!CleanWhenGone /\ Mac!OneReconnectTooMany

(* No two helpers run at once (acquire_pid_file).                          *)
OneHelper == which = "app" => App!OneHelper

(* The packet tunnel extension reports one failure, keeps reading while it *)
(* runs, and passes batches through the C interface unchanged.             *)
PumpHeld == which = "tunnel" => Tunnel!PumpHeld

(* A stop request ends the helper wherever it is, the helper an            *)
(* application started heeds it, and stopTunnel frees the native session,  *)
(* unless it came before startTunnel was through (main.rs,                 *)
(* VPNController.swift, PacketTunnelProvider.swift).                       *)
StopsEnd == Mac!StopEnds /\ App!StopHeeded /\ Tunnel!StopFrees

(* The server's route follows the network, and the application comes to    *)
(* show what is (network.rs, VPNController.swift).                         *)
Follows == Mac!RouteFollows /\ App!ShowsWhatIs
===============================================================================
