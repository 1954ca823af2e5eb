--------------------------------- MODULE MCWindows ---------------------------------
(***************************************************************************)
(* The two tunnels of Windows, one of which is chosen.  The full tunnel:   *)
(* two physical networks and two sets of session parameters, a helper that *)
(* is started, killed and started again without bound, two calls of        *)
(* Windows that fail and one change of network.  The split tunnel: two     *)
(* networks, three reconnects, one call that fails, batches of two.        *)
(***************************************************************************)
EXTENDS WindowsClient, Sequences

VARIABLES
    which,
    main, out, ws_stopping, shut, network, made, translation, sender, receiver, transport, ws_channel,
    socket, batch, enc, dns, guard, failures, stray, unclean

Split == INSTANCE WindowsSplit WITH
    Network <- Network, MaxSessions <- 4, MaxFailures <- 1, MaxBatch <- 2, stopping <- ws_stopping,
    channel <- ws_channel

splitVars == <<main, out, ws_stopping, shut, network, made, translation, sender, receiver, transport,
               ws_channel, socket, batch, enc, dns, guard, failures, stray, unclean>>

One == which \in {"full", "split"}

allVars == <<which, vars, splitVars>>

(* One of the components is chosen and runs; the others stay in one of     *)
(* their initial states.                                                   *)
SumInit ==
    /\ One
    /\ Init /\ (which # "full" => journal = "absent")
    /\ Split!Init /\ (which # "split" => network = Home)

SumNext ==
    \/ which = "full" /\ Next /\ UNCHANGED <<which, splitVars>>
    \/ which = "split" /\ Split!Next /\ UNCHANGED <<which, vars>>

(* The threads that are fair.  Only one component runs, so the first thread *)
(* of each can share one condition, and so on.                             *)
Fair1 ==
    \/ which = "full" /\ MainSteps /\ UNCHANGED <<which, splitVars>>
    \/ which = "split" /\ Split!Main /\ UNCHANGED <<which, vars>>

Fair2 ==
    \/ which = "full" /\ WorkerSteps /\ UNCHANGED <<which, splitVars>>
    \/ which = "split" /\ Split!Worker /\ UNCHANGED <<which, vars>>

Fair3 ==
    \/ which = "full" /\ PolicyWorker /\ UNCHANGED <<which, splitVars>>

SumSpec == SumInit /\ [][SumNext]_allVars /\ WF_allVars(Fair1) /\ WF_allVars(Fair2) /\ WF_allVars(Fair3)

ASSUME Split!SplitAssumption

-------------------------------------------------------------------------------
(* A stop and a reconnect of the full tunnel return and its route comes to *)
(* follow the network; a stop ends the split tunnel, unless a reconnect    *)
(* hangs on the full channel for good (runtime.rs, packet_loop.rs,         *)
(* network_events.rs, split_tunnel.rs).                                    *)
Settles == ReconnectAndStopReturn /\ RouteFollows /\ Split!StopEnds

(* The split tunnel's sender, receiver, translation and socket belong to   *)
(* one session, and the resolver it sets is taken back                     *)
(* (split_tunnel.rs).                                                      *)
SplitTogether == which = "split" => Split!SessionsTogether /\ Split!ResolverRestored
===============================================================================
