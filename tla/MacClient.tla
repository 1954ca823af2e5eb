------------------------------- MODULE MacClient --------------------------------
(***************************************************************************)
(* The macOS helper: crates/macos-client/src/main.rs with the routes and   *)
(* the DNS setting of network.rs and the interface of utun.rs.  The main   *)
(* thread installs, receives and reconnects; the outgoing thread sends what *)
(* utun hands it; a watcher looks for the stop file.  Every command of     *)
(* route and networksetup may fail, the process may be killed at any step, *)
(* and the physical network changes underneath.  Session n is the n-th the *)
(* helper has made.                                                        *)
(***************************************************************************)
EXTENDS Naturals, FiniteSets

CONSTANTS
    Network,      \* physical networks
    MaxMoves,     \* bound: changes of the physical network
    MaxFailures,  \* bound: failing commands and handshakes
    MaxBreaks,    \* bound: sessions the server or the network lets die
    MaxSessions   \* bound: sessions of one helper

MacAssumption == MaxSessions \in Nat /\ MaxBreaks \in Nat /\ MaxMoves \in Nat /\ MaxFailures \in Nat

None == "none"
Networks == 4     \* 0.0.0.0/1, 128.0.0.0/1, ::/1 and 8000::/1

VARIABLES
    net,          \* the network of the default route, or None
    host,         \* the network the server's host route goes through, or None
    nets,         \* routes into utun
    dns,          \* the DNS setting: "own" or "vpn"
    main,         \* what the main thread does next
    default,      \* the default route it has read
    routed,       \* whether RouteGuard lists the server's route
    previous,     \* DnsGuard: the setting to restore, or None without a guard
    handled,      \* whether the signal flags are registered
    stopping, stop_file,
    session,      \* the session in the lock
    broken,       \* sessions that are dead
    reconnecting,
    channel,      \* reports of the outgoing thread: at most one, as its session
    out,          \* what the outgoing thread does next
    sends_on,     \* the session it has taken
    moves, failures,
    killed,       \* history: a helper ended without dropping its guards
    kept,         \* history: a command that removes or restores failed
    spurious      \* history: reconnects that gave up a session nothing was wrong with

machine == <<net, host, nets, dns>>
guard == <<default, routed, previous>>
control == <<handled, stopping, stop_file>>
worker == <<out, sends_on>>
shared == <<session, broken, reconnecting, channel>>
bounds == <<moves, failures>>
history == <<killed, kept, spurious>>
vars == <<machine, main, guard, control, worker, shared, bounds, history>>

Init ==
    /\ net \in Network /\ host = None /\ nets = 0 /\ dns = "own"
    /\ main = "off" /\ default = None /\ routed = FALSE /\ previous = None
    /\ handled = FALSE /\ stopping = FALSE /\ stop_file = FALSE
    /\ session = 0 /\ broken = {} /\ reconnecting = FALSE /\ channel = {}
    /\ out = "off" /\ sends_on = 0
    /\ moves = 0 /\ failures = 0
    /\ killed = FALSE /\ kept = FALSE /\ spurious = 0

Fails == failures < MaxFailures /\ failures' = failures + 1
Works == UNCHANGED failures
FailsIf(reason) == Fails \/ (reason /\ Works)
stop_requested == stopping \/ stop_file
At(place) == main = place
Goes(place) == main' = place

-----------------------------------------------------------------------------
(* run_tunnel: the handshake and utun, then NetworkConfiguration::install, *)
(* which undoes on failure what it has done, then signals and threads.     *)

launch ==
    /\ At("off") /\ Goes("handshake")
    /\ stop_file' = FALSE     \* removed by the application before it starts a helper
    /\ UNCHANGED <<machine, guard, handled, stopping, worker, shared, bounds, history>>

run_tunnel ==
    /\ At("handshake")
    /\ \/ net # None /\ Works /\ session' = 1 /\ Goes("default")
       \/ FailsIf(net = None) /\ Goes("ended") /\ UNCHANGED session
    /\ UNCHANGED <<machine, guard, control, worker, broken, reconnecting, channel, moves, history>>

default_route ==
    /\ At("default")
    /\ \/ net # None /\ Works /\ default' = net /\ Goes("host")
       \/ FailsIf(net = None) /\ Goes("ended") /\ UNCHANGED default
    /\ UNCHANGED <<machine, routed, previous, control, worker, shared, moves, history>>

(* A route that exists is not replaced: another VPN owns it.               *)
install_host ==
    /\ At("host")
    /\ \/ host = None /\ Works /\ host' = default /\ routed' = TRUE /\ Goes("nets")
       \/ FailsIf(host # None) /\ Goes("routes") /\ UNCHANGED <<host, routed>>
    /\ UNCHANGED <<net, nets, dns, default, previous, control, worker, shared, moves, history>>

install_nets ==
    /\ At("nets")
    /\ \/ Works /\ nets' = nets + 1 /\ Goes(IF nets' = Networks THEN "dns" ELSE "nets")
       \/ Fails /\ Goes("routes") /\ UNCHANGED nets
    /\ UNCHANGED <<net, host, dns, guard, control, worker, shared, moves, history>>

(* An interface without a network service keeps its DNS.                   *)
install_dns ==
    /\ At("dns")
    /\ \/ Works /\ previous' = dns /\ dns' = "vpn" /\ Goes("signals")
       \/ Works /\ Goes("signals") /\ UNCHANGED <<previous, dns>>
       \/ Fails /\ Goes("routes") /\ UNCHANGED <<previous, dns>>
    /\ UNCHANGED <<net, host, nets, default, routed, control, worker, shared, moves, history>>

flag_register ==
    /\ At("signals") /\ Goes("loop")
    /\ handled' = TRUE /\ out' = "check"
    /\ UNCHANGED <<machine, guard, stopping, stop_file, sends_on, shared, bounds, history>>

-----------------------------------------------------------------------------
(* TunnelRuntime::run and reconnect_session.                               *)

(* One turn of the loop that ends or reconnects: a stop, a report, a dead  *)
(* session.                                                                *)
run ==
    /\ At("loop")
    /\ \/ stop_requested /\ Goes("undo") /\ Works /\ UNCHANGED <<channel, reconnecting, spurious>>
       \/ /\ ~stop_requested /\ (channel # {} \/ session \in broken) /\ session < MaxSessions
          /\ Works /\ channel' = {} /\ reconnecting' = TRUE /\ Goes("again")
          /\ spurious' = IF session \in broken THEN spurious ELSE spurious + 1
    /\ UNCHANGED <<machine, guard, control, worker, session, broken, moves, killed, kept>>

(* The interface refuses a packet.                                         *)
write_packets ==
    /\ At("loop") /\ ~stop_requested /\ Fails /\ Goes("undo")
    /\ UNCHANGED <<machine, guard, control, worker, shared, moves, history>>

reconnect ==
    /\ At("again")
    /\ \/ Works /\ Goes(IF stop_requested THEN "undo" ELSE "delete")
       \/ Fails /\ Goes("undo")     \* the state cannot be written
    /\ UNCHANGED <<machine, guard, control, worker, shared, moves, history>>

forget_server_keeps ==
    /\ At("delete") /\ Goes("refresh") /\ routed' = FALSE
    /\ UNCHANGED <<machine, default, previous, control, worker, shared, bounds, history>>

(* refresh_server takes its route off the list before it knows the next.   *)
forget_server ==
    /\ At("delete") /\ Goes("refresh") /\ routed' = FALSE
    /\ \/ Works /\ host' = (IF routed THEN None ELSE host) /\ UNCHANGED kept
       \/ routed /\ host # None /\ Fails /\ kept' = TRUE /\ UNCHANGED host
    /\ UNCHANGED <<net, nets, dns, default, previous, control, worker, shared, moves, killed, spurious>>

refresh_server_forgets ==
    /\ At("refresh")
    /\ \/ net # None /\ host = None /\ Works /\ host' = net /\ default' = net /\ Goes("connect")
       \/ FailsIf(net = None \/ host # None) /\ Goes("again") /\ UNCHANGED <<host, default>>
    /\ UNCHANGED <<net, nets, dns, routed, previous, control, worker, shared, moves, history>>

refresh_server ==
    /\ At("refresh")
    /\ \/ net # None /\ host = None /\ Works /\ host' = net /\ default' = net /\ routed' = TRUE /\ Goes("connect")
       \/ FailsIf(net = None \/ host # None) /\ Goes("again") /\ UNCHANGED <<host, default, routed>>
    /\ UNCHANGED <<net, nets, dns, previous, control, worker, shared, moves, history>>

(* The handshake leaves through the route just made; other parameters than *)
(* the first are an error like any other.                                  *)
connect ==
    /\ At("connect")
    /\ \/ net # None /\ net = host /\ Works /\ Goes("swap")
       \/ FailsIf(net = None \/ net # host) /\ Goes("again")
    /\ UNCHANGED <<machine, guard, control, worker, shared, moves, history>>

swap_session ==
    /\ At("swap") /\ Goes("drain")
    /\ session' = session + 1
    /\ UNCHANGED <<machine, guard, control, worker, broken, reconnecting, channel, bounds, history>>

drain_worker ==
    /\ At("drain") /\ Goes("resume")
    /\ channel' = {}
    /\ UNCHANGED <<machine, guard, control, worker, session, broken, reconnecting, bounds, history>>

resume ==
    /\ At("resume")
    /\ \/ Works /\ Goes("loop")
       \/ Fails /\ Goes("undo")
    /\ reconnecting' = FALSE
    /\ UNCHANGED <<machine, guard, control, worker, session, broken, channel, moves, history>>

-----------------------------------------------------------------------------
(* The end: DNS first, then the routes from the last to the first, then    *)
(* the process with its interface.                                         *)

drop_dns ==
    /\ At("undo") /\ Goes("routes") /\ previous' = None
    /\ \/ Works /\ dns' = (IF previous = None THEN dns ELSE previous) /\ UNCHANGED kept
       \/ previous # None /\ Fails /\ kept' = TRUE /\ UNCHANGED dns
    /\ UNCHANGED <<net, host, nets, default, routed, control, worker, shared, moves, killed, spurious>>

remove_routes ==
    /\ At("routes") /\ Goes("ended")
    /\ nets' = 0 /\ routed' = FALSE
    /\ \/ Works /\ host' = (IF routed THEN None ELSE host) /\ UNCHANGED kept
       \/ routed /\ host # None /\ Fails /\ kept' = TRUE /\ UNCHANGED host
    /\ UNCHANGED <<net, dns, default, previous, control, worker, shared, moves, killed, spurious>>

Gone ==
    /\ main' = "off" /\ default' = None /\ routed' = FALSE /\ previous' = None
    /\ handled' = FALSE /\ stopping' = FALSE
    /\ session' = 0 /\ broken' = {} /\ reconnecting' = FALSE /\ channel' = {}
    /\ out' = "off" /\ sends_on' = 0
    /\ nets' = 0 /\ UNCHANGED <<net, host, dns, stop_file, moves, failures, kept>>

exit == At("ended") /\ Gone /\ spurious' = 0 /\ UNCHANGED killed

(* A signal before the flags are registered ends the process where it is,  *)
(* and so does a SIGKILL.                                                  *)
Killed ==
    /\ main \notin {"off", "ended"} /\ Gone /\ spurious' = 0
    /\ killed' = (killed \/ host # None \/ dns # "own")

Signal ==
    /\ handled /\ ~stopping /\ stopping' = TRUE
    /\ UNCHANGED <<machine, main, guard, handled, stop_file, worker, shared, bounds, history>>

StopRequested ==
    /\ main # "off" /\ ~stop_file /\ stop_file' = TRUE
    /\ UNCHANGED <<machine, main, guard, handled, stopping, worker, shared, bounds, history>>

(* The watcher's interrupt only shortens the wait of the main thread.      *)
spawn_stop_watcher ==
    /\ handled /\ stop_file /\ ~stopping /\ stopping' = TRUE
    /\ UNCHANGED <<machine, main, guard, handled, stop_file, worker, shared, bounds, history>>

-----------------------------------------------------------------------------
(* outgoing_loop.                                                          *)

outgoing_loop ==
    /\ \/ out = "check" /\ stopping /\ out' = "off" /\ UNCHANGED <<sends_on, channel, failures>>
       \/ out = "check" /\ ~stopping /\ ~reconnecting /\ out' = "read" /\ UNCHANGED <<sends_on, channel, failures>>
       \/ out = "read" /\ out' = "send" /\ sends_on' = session /\ UNCHANGED <<channel, failures>>
       \/ out = "read" /\ out' = "check" /\ UNCHANGED <<sends_on, channel, failures>>
       \/ out = "read" /\ Fails /\ out' = "report" /\ UNCHANGED <<sends_on, channel>>
       \/ /\ out = "send" /\ out' = "check" /\ sends_on' = 0
          /\ channel' = IF sends_on \in broken /\ channel = {} THEN {sends_on} ELSE channel
          /\ UNCHANGED failures
       \/ out = "report" /\ channel = {} /\ channel' = {0} /\ out' = "off" /\ UNCHANGED <<sends_on, failures>>
    /\ UNCHANGED <<machine, main, guard, control, session, broken, reconnecting, moves, history>>

-----------------------------------------------------------------------------
(* The surroundings.                                                       *)

Breaks ==
    /\ main # "off" /\ session > 0 /\ session \notin broken
    /\ Cardinality(broken) < MaxBreaks
    /\ broken' = broken \cup {session}
    /\ UNCHANGED <<machine, main, guard, control, worker, session, reconnecting, channel, bounds, history>>

(* The sessions of the old network die with it; its routes may stay.       *)
NetworkMoves ==
    /\ moves < MaxMoves /\ moves' = moves + 1
    /\ \E n \in (Network \cup {None}) \ {net} :
         net' = n /\ host' \in {host, IF host = net THEN None ELSE host}
    /\ broken' = broken \cup {s \in {session, IF main = "swap" THEN session + 1 ELSE 0} : s > 0}
    /\ UNCHANGED <<nets, dns, main, guard, control, worker, session, reconnecting, channel, failures, history>>

Main ==
    \/ run_tunnel \/ default_route \/ install_host \/ install_nets \/ install_dns \/ flag_register
    \/ run \/ reconnect \/ forget_server \/ refresh_server \/ connect
    \/ swap_session \/ drain_worker \/ resume \/ drop_dns \/ remove_routes \/ exit

Next ==
    \/ launch \/ Main \/ write_packets \/ outgoing_loop \/ spawn_stop_watcher
    \/ Killed \/ Signal \/ StopRequested \/ Breaks \/ NetworkMoves

Fairness == WF_vars(Main) /\ WF_vars(outgoing_loop)
Spec == Init /\ [][Next]_vars /\ Fairness

-----------------------------------------------------------------------------
TypeOK ==
    /\ net \in Network \cup {None} /\ host \in Network \cup {None} /\ nets \in 0 .. Networks
    /\ dns \in {"own", "vpn"} /\ previous \in {"own", "vpn", None}
    /\ session \in 0 .. MaxSessions /\ broken \subseteq 1 .. MaxSessions
    /\ channel \subseteq 0 .. MaxSessions /\ Cardinality(channel) <= 1

Tunnelling == main \in {"loop", "again", "delete", "refresh", "connect", "swap", "drain", "resume"}

(* Wherever the installation fails or the tunnel ends, a helper that ended *)
(* by itself leaves no route and the user's DNS; only one that was killed, *)
(* or a command that failed to undo, leaves any.  While packets flow all   *)
(* four routes lead into the tunnel, reconnecting included.                *)
CleanWhenGone ==
    /\ TypeOK
    /\ main = "off" /\ ~killed /\ ~kept => host = None /\ dns = "own"
    /\ Tunnelling => nets = Networks

(* A report of the outgoing thread can arrive after the session it is      *)
(* about was replaced.  It costs one more reconnect, and each dead session *)
(* or dead interface at most one: the outgoing thread takes the session    *)
(* anew for every packet and waits while it is being replaced.             *)
OneReconnectTooMany ==
    spurious <= Cardinality(broken) + (IF out \in {"off", "report"} THEN 1 ELSE 0)

(* A stop request ends the helper wherever it is.                          *)
StopEnds == []<>(stop_file => main = "off")

(* The server's route follows the physical network as long as the helper   *)
(* can make sessions, whichever step of a reconnect failed before.         *)
RouteFollows ==
    []<>(Tunnelling => host = net \/ net = None \/ session = MaxSessions \/ kept)
===============================================================================
