---------------------------- MODULE AndroidSession -----------------------------
(***************************************************************************)
(* A running session of the Android client: the receiving thread, which    *)
(* also reconnects, and the outgoing thread (android-native/src/session.rs)*)
(* with the atomics, the event descriptor and the outbound mutex they      *)
(* share, and the registry through which the service asks for a stop,      *)
(* reports a change of network and reads the status (registry.rs).         *)
(*                                                                         *)
(* A step is one access to shared state with the local work around it.     *)
(* Sessions are numbered; a session comes with its socket.  Clocks are     *)
(* choices, except that a backoff, once set, has to run out.               *)
(***************************************************************************)
EXTENDS Naturals

CONSTANTS
    MaxReconnects,    \* bound: how many replacement sessions the server grants
    MaxChanges        \* bound: how many changes of network are reported

SessionAssumption == MaxReconnects \in Nat /\ MaxChanges \in Nat

VARIABLES
    registered,      \* the registry holds the session
    stopping, reconnecting, requested, changed, alive,  \* the shared atomics
    wake,            \* the event descriptor is readable
    outStopping,     \* outgoing_stopping
    outbound,        \* the session in the outbound mutex
    in,              \* where the receiving thread is
    receiver, transport,    \* IncomingLoop's halves of a session
    needed, due,     \* reconnect_needed; next_reconnect has passed
    fresh,           \* the session a reconnect negotiated, 0 for none
    out,             \* where the outgoing thread is
    include,         \* the outgoing thread polls the TUN, not only the event
    granted,         \* history: sessions the server granted
    changes,         \* history: changes of network reported
    owed,            \* history: a request no attempt has followed yet
    slipped          \* history: batches sent since the pause began

inVars == <<in, receiver, transport, needed, due, fresh>>
outVars == <<out, include>>
flags == <<registered, stopping, reconnecting, requested, changed, alive, wake,
           outStopping, outbound>>
history == <<granted, changes, owed, slipped>>
vars == <<inVars, outVars, flags, history>>

Init ==
    /\ registered = TRUE /\ stopping = FALSE /\ reconnecting = FALSE
    /\ requested = FALSE /\ changed = FALSE /\ alive = TRUE /\ wake = FALSE
    /\ outStopping = FALSE /\ outbound = 1
    /\ in = "top" /\ receiver = 1 /\ transport = 1
    /\ needed = FALSE /\ due = TRUE /\ fresh = 0
    /\ out = "top" /\ include = FALSE
    /\ granted = 1 /\ changes = 0 /\ owed = FALSE /\ slipped = 0

-------------------------------------------------------------------------------
(* The registry. *)

network_changed ==
    /\ registered /\ changes < MaxChanges
    /\ requested' = TRUE /\ wake' = TRUE
    /\ changes' = changes + 1 /\ owed' = TRUE
    /\ UNCHANGED <<inVars, outVars, registered, stopping, reconnecting, changed,
                   alive, outStopping, outbound, granted, slipped>>

stop ==
    /\ registered
    /\ registered' = FALSE /\ stopping' = TRUE /\ wake' = TRUE
    /\ UNCHANGED <<inVars, outVars, reconnecting, requested, changed, alive,
                   outStopping, outbound, history>>

status ==
    CASE ~registered -> "stopped"
      [] registered /\ changed -> "parameters-changed"
      [] registered /\ ~changed /\ ~alive -> "stopped"
      [] registered /\ ~changed /\ alive /\ reconnecting -> "reconnecting"
      [] OTHER -> "running"

-------------------------------------------------------------------------------
(* The receiving thread. *)

\* It only moves on.
InGoto(place) ==
    /\ in' = place
    /\ UNCHANGED <<receiver, transport, needed, due, fresh, outVars, flags, history>>

InTop == in = "top" /\ InGoto(IF stopping THEN "leave" ELSE "receive")

\* Packets, or a poll event.
Received == in = "receive" /\ InGoto("keepalive")

\* The peer is unavailable: found when receiving, or when sending a keepalive.
PeerUnavailable ==
    /\ in \in {"receive", "keepalive"}
    /\ needed' = TRUE
    /\ in' = IF in = "receive" THEN "keepalive" ELSE "update"
    /\ UNCHANGED <<receiver, transport, due, fresh, outVars, flags, history>>

\* None is due, or it is sent, or dropped.
KeepaliveDone == in = "keepalive" /\ InGoto("update")

\* An unrecoverable error of the socket or of the TUN.
InFails == in \in {"receive", "keepalive"} /\ InGoto("leave")

\* update_reconnect_state: a request makes the next attempt due; so may silence,
\* once the backoff has passed.
update_requested ==
    /\ in = "update"
    /\ needed' \in {needed \/ requested, TRUE}
    /\ due' = (due \/ requested)
    /\ requested' = FALSE
    /\ in' = "pause"
    /\ UNCHANGED <<receiver, transport, fresh, outVars, registered, stopping,
                   reconnecting, changed, alive, wake, outStopping, outbound,
                   history>>

update_paused_not ==
    /\ in = "pause"
    /\ in' = IF needed /\ due THEN "try" ELSE "top"
    /\ UNCHANGED <<receiver, transport, needed, due, fresh, outVars, flags, history>>

update_paused ==
    /\ in = "pause"
    /\ reconnecting' = (reconnecting \/ needed)
    /\ wake' = (wake \/ (needed /\ ~reconnecting))
    /\ slipped' = IF needed /\ ~reconnecting THEN 0 ELSE slipped
    /\ in' = IF needed /\ due THEN "try" ELSE "top"
    /\ UNCHANGED <<receiver, transport, needed, due, fresh, outVars, registered,
                   stopping, requested, changed, alive, outStopping, outbound,
                   granted, changes, owed>>

\* try_reconnect: a socket is protected and bound to the selected network, and
\* the handshake begins.
try_reconnect ==
    /\ in = "try"
    /\ owed' = FALSE
    /\ in' = "handshake"
    /\ UNCHANGED <<receiver, transport, needed, due, fresh, outVars, flags,
                   granted, changes, slipped>>

\* The socket, the deadline, or a stop.
HandshakeFailed ==
    /\ in = "handshake"
    /\ due' = FALSE
    /\ in' = "top"
    /\ UNCHANGED <<receiver, transport, needed, fresh, outVars, flags, history>>

HandshakeDone ==
    /\ in = "handshake" /\ granted <= MaxReconnects
    /\ granted' = granted + 1 /\ fresh' = granted + 1
    /\ in' \in {"install", "changed"}
    /\ UNCHANGED <<receiver, transport, needed, due, outVars, flags, changes,
                   owed, slipped>>

install_replacement_receiver_only ==
    /\ in = "install"
    /\ receiver' = fresh /\ transport' = fresh
    /\ needed' = FALSE /\ in' = "finish"
    /\ UNCHANGED <<due, fresh, outVars, flags, history>>

\* The receiver is replaced first, then the mutex is taken.
install_replacement ==
    /\ in = "install"
    /\ receiver' = fresh /\ outbound' = fresh /\ transport' = fresh
    /\ needed' = FALSE
    /\ in' = "finish"
    /\ UNCHANGED <<due, fresh, outVars, registered, stopping, reconnecting,
                   requested, changed, alive, wake, outStopping, history>>

\* The socket cannot be configured, or cannot be cloned.
InstallFailed ==
    /\ in = "install"
    /\ receiver' \in {receiver, fresh}
    /\ in' = "abort"
    /\ UNCHANGED <<transport, needed, due, fresh, outVars, flags, history>>

\* The server changed the session's parameters: the service has to rebuild.
AnnounceChange ==
    /\ in = "changed"
    /\ changed' = TRUE
    /\ in' = "quit"
    /\ UNCHANGED <<receiver, transport, needed, due, fresh, outVars, registered,
                   stopping, reconnecting, requested, alive, wake, outStopping,
                   outbound, history>>

StopForChange ==
    /\ in = "quit"
    /\ stopping' = TRUE
    /\ in' = "finish"
    /\ UNCHANGED <<receiver, transport, needed, due, fresh, outVars, registered,
                   reconnecting, requested, changed, alive, wake, outStopping,
                   outbound, history>>

finish_reconnect ==
    /\ in \in {"finish", "abort"}
    /\ reconnecting' = FALSE /\ wake' = TRUE /\ fresh' = 0
    /\ in' = IF in = "finish" THEN "top" ELSE "leave"
    /\ UNCHANGED <<receiver, transport, needed, due, outVars, registered, stopping,
                   requested, changed, alive, outStopping, outbound, history>>

\* run: the loop has returned, the outgoing thread is told.
InLeave ==
    /\ in = "leave"
    /\ outStopping' = TRUE /\ wake' = TRUE
    /\ in' = "join"
    /\ UNCHANGED <<receiver, transport, needed, due, fresh, outVars, registered,
                   stopping, reconnecting, requested, changed, alive, outbound,
                   history>>

InJoined ==
    /\ in = "join" /\ out = "exited"
    /\ alive' = FALSE
    /\ in' = "dead"
    /\ UNCHANGED <<receiver, transport, needed, due, fresh, outVars, registered,
                   stopping, reconnecting, requested, changed, wake, outStopping,
                   outbound, history>>

\* The backoff runs out.
BackoffPassed ==
    /\ ~due
    /\ due' = TRUE
    /\ UNCHANGED <<in, receiver, transport, needed, fresh, outVars, flags, history>>

InNext ==
    \/ InTop \/ Received \/ PeerUnavailable \/ KeepaliveDone \/ InFails
    \/ update_requested \/ update_paused \/ try_reconnect \/ HandshakeFailed
    \/ HandshakeDone \/ install_replacement \/ InstallFailed \/ AnnounceChange
    \/ StopForChange \/ finish_reconnect \/ InLeave \/ InJoined

-------------------------------------------------------------------------------
(* The outgoing thread. *)

OutGoto(place) ==
    /\ out' = place
    /\ UNCHANGED <<include, inVars, flags, history>>

OutTop == out = "top" /\ OutGoto(IF outStopping \/ stopping THEN "exit" ELSE "load")

OutLoad ==
    /\ out = "load"
    /\ include' = ~reconnecting
    /\ out' = "poll"
    /\ UNCHANGED <<inVars, flags, history>>

\* wait_for_tun: the event, the TUN if it is included, both, or a timeout.
OutPolled ==
    /\ out = "poll"
    /\ wake' = FALSE
    /\ out' \in IF include THEN {"top", "read"} ELSE {"top"}
    /\ UNCHANGED <<include, inVars, registered, stopping, reconnecting, requested,
                   changed, alive, outStopping, outbound, history>>

\* Packets are read, or the TUN is at its end.
OutRead == out = "read" /\ (OutGoto("send") \/ OutGoto("exit"))

\* Polling, reading, the wire codec or the socket fails for good.
OutFails == out \in {"poll", "read", "send"} /\ OutGoto("exit")

\* Encodes and sends with the mutex held: the kernel takes the batch, part of
\* it, or none for now; or the peer is unavailable.
OutSend ==
    /\ out = "send"
    /\ out' \in {"top", "report"}
    /\ slipped' = IF reconnecting THEN slipped + 1 ELSE slipped
    /\ UNCHANGED <<include, inVars, flags, granted, changes, owed>>

\* record_outgoing_result
OutReport ==
    /\ out = "report"
    /\ requested' = TRUE
    /\ wake' = (wake \/ ~requested)
    /\ owed' = TRUE
    /\ out' = "top"
    /\ UNCHANGED <<include, inVars, registered, stopping, reconnecting, changed,
                   alive, outStopping, outbound, granted, changes, slipped>>

OutExit_silent == out = "exit" /\ OutGoto("exited")

\* A thread that ends on its own ends the session.
OutExit ==
    /\ out = "exit"
    /\ stopping' = (stopping \/ ~outStopping)
    /\ wake' = (wake \/ (~stopping /\ ~outStopping))
    /\ out' = "exited"
    /\ UNCHANGED <<include, inVars, registered, reconnecting, requested, changed,
                   alive, outStopping, outbound, history>>

OutNext ==
    \/ OutTop \/ OutLoad \/ OutPolled \/ OutRead \/ OutFails \/ OutSend
    \/ OutReport \/ OutExit

-------------------------------------------------------------------------------

Next == network_changed \/ stop \/ BackoffPassed \/ InNext \/ OutNext

Spec == Init /\ [][Next]_vars

\* Receiving and polling time out after 250 ms, a handshake after 10 s.
FairSpec ==
    Spec /\ WF_vars(InNext) /\ WF_vars(OutNext) /\ WF_vars(BackoffPassed)

-------------------------------------------------------------------------------

\* Flags are flags and numbers are sessions that exist.
TypeOK ==
    /\ {registered, stopping, reconnecting, requested, changed, alive, wake,
        outStopping, needed, due, include, owed} \subseteq BOOLEAN
    /\ granted \in 1..MaxReconnects + 1
    /\ {receiver, transport, outbound} \subseteq 1..granted /\ fresh \in 0..granted
    /\ in \in {"top", "receive", "keepalive", "update", "pause", "try",
               "handshake", "install", "changed", "quit", "finish", "abort",
               "leave", "join", "dead"}
    /\ out \in {"top", "load", "poll", "read", "send", "report", "exit", "exited"}
    /\ changes \in 0..MaxChanges /\ slipped \in Nat

\* While the loop lives, a keepalive encoded by the outbound sender goes out on
\* the socket of the same session, the one whose answers the loop can decrypt.
OneSession ==
    /\ TypeOK
    /\ in \notin {"abort", "leave", "join", "dead"}
          => receiver = outbound /\ transport = outbound

\* During a reconnect the outgoing thread leaves packets in the TUN; the pause
\* reaches it before it polls again, so at most one batch slips out.
OneBatchSlips == slipped <= 1

\* "Wake that direction so the session cannot remain 'running' with uploads
\* silently dead": the end of the outgoing thread ends the session.
UploadsNotSilentlyDead == []<>(out = "exited" => ~alive)

\* stop joins the worker: it cannot wait forever, not even in a handshake.
StopReturns == []<>(~registered => ~alive)

\* A change of network, or a refused send, is followed by an attempt on a new
\* socket even when it is reported in the middle of another attempt.
RequestFollowed == []<>(owed => ~alive)

\* The status goes through the states the service is written for: a loss is
\* shown before it is repaired, and new parameters are the last thing shown.
Promise == INSTANCE NativeSession
StatusKept == Promise!Spec
===============================================================================
