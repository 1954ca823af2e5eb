---------------------------------- MODULE MCLinux ----------------------------------
(***************************************************************************)
(* Linux, one of two parts of which is chosen: the desktop's helpers and   *)
(* watchdogs around the tunnel, and the threads inside it.  Two helpers,   *)
(* so one can be started while the watchdog of the other still works; two  *)
(* servers, two gateways, two mishaps.  Two reconnects of a client, so two *)
(* sockets can wait in its channel.                                        *)
(***************************************************************************)
EXTENDS LinuxDesktop, Integers, Sequences

CONSTANTS s1, s2, g1, g2

VARIABLES
    which,
    stopping, reconnecting, requested, generation, sender, replacements, worker, main, transport, receiver,
    fresh, out, outgoing, batch, loaded, confirmed, opened, stale, unheeded

Client == INSTANCE LinuxClient WITH
    MaxReconnects <- 2

clientVars == <<stopping, reconnecting, requested, generation, sender, replacements, worker, main,
                transport, receiver, fresh, out, outgoing, batch, loaded, confirmed, opened, stale, unheeded>>

One == which \in {"desktop", "client"}

allVars == <<which, vars, clientVars>>

(* One of the components is chosen and runs; the others stay in one of     *)
(* their initial states.                                                   *)
SumInit ==
    /\ One
    /\ Init
    /\ Client!Init

SumNext ==
    \/ which = "desktop" /\ Next /\ UNCHANGED <<which, clientVars>>
    \/ which = "client" /\ Client!Next /\ UNCHANGED <<which, vars>>

(* The threads that are fair.  Only one component runs, so the first thread *)
(* of each can share one condition, and so on.                             *)
Fair1 ==
    \/ which = "desktop" /\ HelperStep(1) /\ UNCHANGED <<which, clientVars>>
    \/ which = "client" /\ Client!MainNext /\ UNCHANGED <<which, vars>>

Fair2 ==
    \/ which = "desktop" /\ HelperStep(2) /\ UNCHANGED <<which, clientVars>>
    \/ which = "client" /\ Client!OutNext /\ UNCHANGED <<which, vars>>

Fair3 ==
    \/ which = "desktop" /\ told[1] /\ LeaveLoop(1) /\ UNCHANGED <<which, clientVars>>

Fair4 ==
    \/ which = "desktop" /\ told[2] /\ LeaveLoop(2) /\ UNCHANGED <<which, clientVars>>

Fair5 ==
    \/ which = "desktop" /\ refresh_server_route(1) /\ UNCHANGED <<which, clientVars>>

Fair6 ==
    \/ which = "desktop" /\ refresh_server_route(2) /\ UNCHANGED <<which, clientVars>>

Fair7 ==
    \/ which = "desktop" /\ DogStep(1) /\ UNCHANGED <<which, clientVars>>

Fair8 ==
    \/ which = "desktop" /\ DogStep(2) /\ UNCHANGED <<which, clientVars>>

SumSpec == SumInit /\ [][SumNext]_allVars /\ WF_allVars(Fair1) /\ WF_allVars(Fair2) /\ WF_allVars(Fair3) /\ WF_allVars(Fair4) /\ WF_allVars(Fair5) /\ WF_allVars(Fair6) /\ WF_allVars(Fair7) /\ WF_allVars(Fair8)

ASSUME Client!ClientAssumption

-------------------------------------------------------------------------------
(* While packets flow both directions use one session that the server has  *)
(* confirmed, and one batch per reconnect goes to the old socket           *)
(* (packet_loop.rs, session.rs).                                           *)
ClientConfirmed == which = "client" => Client!SessionConfirmed /\ Client!OneStaleBatch

(* The client reacts: a loss is heard of, a stop ends both threads and a   *)
(* dead worker the client (packet_loop.rs, outgoing.rs).                   *)
ClientReacts == Client!LossHeeded /\ Client!StopEndsBoth /\ Client!WorkerEndNoticed

(* A helper that was told to stop ends and its watchdog after it, and the  *)
(* route to the server follows the machine's gateway (helper_runtime.rs,   *)
(* routes.rs).                                                             *)
DesktopSettles == StopSettles /\ RouteFollows
===============================================================================
