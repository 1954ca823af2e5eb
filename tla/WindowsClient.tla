---------------------------- MODULE WindowsClient ----------------------------
(***************************************************************************)
(* The Windows full tunnel (windows-client: runtime.rs, packet_loop.rs,    *)
(* network_events.rs, liveness.rs) on top of its network policy: the main  *)
(* thread connects, installs the policy and receives; a worker sends what  *)
(* Wintun hands out; a policy worker refreshes the policy; callbacks of    *)
(* Windows ask for a reconnect.  After a packet loop that ended the        *)
(* runtime starts over under the policy that is already installed.         *)
(*                                                                         *)
(* Session parameters are values of Param.  There is no clock: silence of  *)
(* the server, the expiry of a backoff, of the grace period and of the     *)
(* debounce of notifications may come at any time.                         *)
(***************************************************************************)
EXTENDS WindowsPolicy

VARIABLES
    stopping,    \* the flag the user's stop sets
    parameters,  \* the runtime's own copy of the session parameters
    session,     \* the parameters of the session the data plane uses
    dialled,     \* those of the session a connect just returned, or None
    incoming,    \* IncomingLoop: its parameters, and the grace period
    requested,   \* reconnect_requested
    channel,     \* a replacement transport waits in transport_rx
    worker       \* the step of the outgoing worker

runtime == <<parameters, session, dialled>>
loop == <<incoming, requested, channel>>
vars == <<policy, stopping, runtime, loop, worker>>

NoLoop == [parameters |-> None, grace |-> FALSE]

(* The variables of packet_loop::run exist while it runs.                  *)
LoopLocals ==
    incoming' = NoLoop /\ requested' = FALSE /\ channel' = FALSE

(* What ends with the process.                                             *)
Locals ==
    IF at' = "off"
    THEN /\ stopping' = FALSE /\ worker' = "none" /\ LoopLocals
         /\ parameters' = None /\ session' = None /\ dialled' = None
    ELSE UNCHANGED <<stopping, runtime, loop, worker>>

Init ==
    /\ PolicyInit
    /\ stopping = FALSE /\ worker = "none"
    /\ parameters = None /\ session = None /\ dialled = None
    /\ incoming = NoLoop /\ requested = FALSE /\ channel = FALSE

(* IncomingLoop::reconnect sets reconnecting for the length of the call.   *)
reconnecting == at \in {"refresh", "dial", "apply", "hand"}

-----------------------------------------------------------------------------
(* run_with_stop up to the packet loop.                                    *)

(* The handshake beside the making of the adapter, then the MTU and the    *)
(* Wintun session; any of it may fail, the adapter made or not.            *)
Connect ==
    /\ at = "connect"
    /\ \/ /\ \E p \in Param : parameters' = p /\ session' = p /\ guarded' = p
          /\ adapter' = TRUE /\ at' = "bypass"
          /\ UNCHANGED <<switch, bypass, routing, stopping, dialled, loop, worker>>
       \/ adapter' \in {adapter, TRUE} /\ Exits /\ Locals
    /\ UNCHANGED <<journal, machine, gateway, torn, budget>>

(* packet_loop::run: the subscription, the outgoing worker, the policy     *)
(* worker.  A policy worker that cannot be started ends run with the       *)
(* outgoing worker left running.                                           *)
StartLoop ==
    /\ at = "start"
    /\ \/ /\ Works /\ at' = "loop" /\ worker' = "top"
          /\ incoming' = [NoLoop EXCEPT !.parameters = parameters]
          /\ UNCHANGED <<requested, channel>>
       \/ Fails /\ at' = "ended" /\ worker' \in {"none", "top"} /\ UNCHANGED loop
    /\ UNCHANGED <<journal, machine, adapter, gateway, process, torn, stopping, runtime>>

-----------------------------------------------------------------------------
(* The incoming loop.                                                      *)

KeepPolicy == UNCHANGED <<journal, machine, adapter, gateway, process, torn>>

(* One turn of the loop begins: it was not told to stop and the worker     *)
(* has not ended.                                                          *)
Turn == at = "loop" /\ ~stopping /\ worker # "ended"

(* The loop returns because of stopping or check_worker; run joins the     *)
(* worker next.                                                            *)
LeaveLoop ==
    /\ at = "loop" /\ (stopping \/ worker = "ended")
    /\ at' = "join"
    /\ KeepPolicy /\ UNCHANGED <<budget, stopping, runtime, loop, worker>>

(* It returns because of an error of the socket or of Wintun.              *)
LoopFails ==
    /\ Turn /\ Fails
    /\ at' = "join"
    /\ KeepPolicy /\ UNCHANGED <<stopping, runtime, loop, worker>>

(* The session timed out, was reported lost, or the backoff of the last    *)
(* attempt is over.                                                        *)
Reconnect ==
    /\ Turn
    /\ at' = "refresh"
    /\ KeepPolicy /\ UNCHANGED <<budget, stopping, runtime, loop, worker>>

(* take_reconnect_request: the request is consumed; it starts a reconnect  *)
(* unless it comes within the grace period, or the session was reported    *)
(* lost before and the backoff of the last attempt runs.                   *)
take_reconnect_request ==
    /\ Turn /\ requested
    /\ requested' = FALSE
    /\ \/ ~incoming.grace /\ at' = "refresh"
       \/ UNCHANGED at
    /\ KeepPolicy /\ UNCHANGED <<budget, stopping, runtime, incoming, channel, worker>>

GraceEnds ==
    /\ incoming.grace
    /\ incoming' = [incoming EXCEPT !.grace = FALSE]
    /\ UNCHANGED <<policy, stopping, runtime, requested, channel, worker>>

(* establish_replacement, from its first call on.                          *)
ReconnectRefreshes ==
    /\ at = "refresh"
    /\ \/ refresh /\ at' = "dial"
       \/ RefreshFails /\ at' = "loop"
    /\ UNCHANGED <<journal, address, adapter, gateway, switch, guarded, routing, torn>>
    /\ UNCHANGED <<stopping, runtime, loop, worker>>

ReconnectDials ==
    /\ at = "dial"
    /\ \/ \E p \in Param : dialled' = p /\ at' = "apply"
       \/ UNCHANGED dialled /\ at' = "loop"
    /\ KeepPolicy /\ UNCHANGED <<budget, stopping, parameters, session, loop, worker>>

(* Other parameters are applied before the sender and the receiver are     *)
(* replaced.                                                               *)
ReconnectApplies ==
    /\ at = "apply"
    /\ \/ /\ IF dialled = incoming.parameters
             THEN Works /\ UNCHANGED <<address, guarded>>
             ELSE update_parameters(dialled)
          /\ incoming' = [incoming EXCEPT !.parameters = dialled]
          /\ session' = dialled /\ at' = "hand"
       \/ /\ dialled # incoming.parameters
          /\ UpdateFails(dialled) \/ (Fails /\ UNCHANGED <<address, guarded>>)
          /\ at' = "loop" /\ UNCHANGED <<incoming, session>>
    /\ dialled' = None
    /\ UNCHANGED <<journal, rules, server, halves, adapter, gateway, switch, bypass, routing, torn>>
    /\ UNCHANGED <<stopping, parameters, requested, channel, worker>>

(* The socket is handed to the worker over a channel of one place, which   *)
(* blocks while it is taken; then the reconnect is over, and requests that *)
(* came in meanwhile are dropped.                                          *)
ReconnectHands ==
    /\ at = "hand"
    /\ at' = "loop"
    /\ \/ /\ worker # "ended" /\ ~channel
          /\ channel' = TRUE /\ requested' = FALSE
          /\ incoming' = [incoming EXCEPT !.grace = TRUE]
       \/ worker = "ended" /\ UNCHANGED <<channel, requested, incoming>>
    /\ KeepPolicy /\ UNCHANGED <<budget, stopping, runtime, worker>>

-----------------------------------------------------------------------------
(* The other threads of the packet loop.                                   *)

InLoop == incoming # NoLoop

WorkerKeeps ==
    KeepPolicy /\ UNCHANGED <<at, stopping, runtime, incoming>>

WorkerTop_pauses_first ==
    /\ worker = "top"
    /\ IF stopping
       THEN worker' = "ended" /\ UNCHANGED channel
       ELSE IF reconnecting
            THEN UNCHANGED <<worker, channel>>
            ELSE channel' = FALSE /\ worker' = "wait"
    /\ WorkerKeeps /\ UNCHANGED <<budget, requested>>

(* The top of the worker's loop: replacements are taken before             *)
(* reconnecting is looked at.                                              *)
WorkerTop ==
    /\ worker = "top"
    /\ IF stopping
       THEN worker' = "ended" /\ UNCHANGED channel
       ELSE /\ channel' = FALSE
            /\ worker' = IF reconnecting THEN "top" ELSE "wait"
    /\ WorkerKeeps /\ UNCHANGED <<budget, requested>>

(* No packet within the wait, or packets during a reconnect; a batch that  *)
(* is encoded and sent, where a peer reported unavailable asks for a       *)
(* reconnect, also one that began after the worker looked; an error.       *)
WorkerSends ==
    /\ worker = "wait"
    /\ \/ worker' = "top" /\ Works /\ UNCHANGED requested
       \/ InLoop /\ worker' = "top" /\ Works /\ requested' = TRUE
       \/ worker' = "ended" /\ Fails /\ UNCHANGED requested
    /\ WorkerKeeps /\ UNCHANGED channel

(* The policy worker's interval is over.                                   *)
PolicyWorker ==
    /\ InLoop
    /\ refresh \/ RefreshFails
    /\ UNCHANGED <<at, journal, address, adapter, gateway, switch, guarded, routing, torn>>
    /\ UNCHANGED <<stopping, runtime, loop, worker>>

(* A callback of Windows, for a changed address of another interface or    *)
(* for a resume.                                                           *)
WindowsCalls ==
    /\ InLoop
    /\ requested' = TRUE
    /\ UNCHANGED <<policy, stopping, runtime, incoming, channel, worker>>

(* The callback of a changed network may be dropped: it is too close to    *)
(* the last request.                                                       *)
NetworkChanges ==
    /\ \E network \in Network \cup {None} : Roams(network)
    /\ requested' \in {requested, InLoop}
    /\ UNCHANGED <<stopping, runtime, incoming, channel, worker>>

-----------------------------------------------------------------------------
(* The runtime after a packet loop, and the process.                       *)

(* session.shutdown does not reach a worker that waits with a timeout: the *)
(* join returns when the worker has ended by itself.                       *)
Join ==
    /\ at = "join" /\ worker = "ended"
    /\ at' = "ended" /\ worker' = "none" /\ LoopLocals
    /\ KeepPolicy /\ UNCHANGED <<budget, stopping, runtime>>

(* wait_for_stop, before the first attempt to restart and after each one:  *)
(* a stop ends the runtime, else the policy is refreshed first.            *)
BackOff ==
    /\ at = "ended"
    /\ \/ stopping /\ at' = "drop" /\ Works /\ UNCHANGED <<rules, server, halves, bypass>>
       \/ ~stopping /\ refresh /\ at' = "attempt"
       \/ ~stopping /\ RefreshFails /\ UNCHANGED at
    /\ UNCHANGED <<journal, address, adapter, gateway, switch, guarded, routing, torn>>
    /\ UNCHANGED <<stopping, runtime, loop, worker>>

(* Wintun starts a session when no other is left on the adapter.           *)
Attempt ==
    /\ at = "attempt"
    /\ \/ /\ worker \in {"none", "ended"}
          /\ \E p \in Param : dialled' = p
          /\ at' = "restart"
       \/ at' = "ended" /\ UNCHANGED dialled
    /\ KeepPolicy /\ UNCHANGED <<budget, stopping, parameters, session, loop, worker>>

(* The parameters are compared with the runtime's copy, which a reconnect  *)
(* of the packet loop has not changed.                                     *)
Restart ==
    /\ at = "restart"
    /\ \/ /\ IF dialled = parameters
             THEN Works /\ UNCHANGED <<address, guarded>>
             ELSE update_parameters(dialled)
          /\ parameters' = dialled /\ session' = dialled
          /\ at' = "start" /\ worker' = "none"
       \/ /\ dialled # parameters /\ UpdateFails(dialled)
          /\ at' = "ended" /\ UNCHANGED <<parameters, session, worker>>
    /\ dialled' = None
    /\ UNCHANGED <<journal, rules, server, halves, adapter, gateway, switch, bypass, routing, torn>>
    /\ UNCHANGED <<stopping, loop>>

Stop ==
    /\ at # "off" /\ ~stopping
    /\ stopping' = TRUE
    /\ UNCHANGED <<policy, runtime, loop, worker>>

(* What each thread does once it is scheduled.  Failures of the loop, the  *)
(* timeouts that start a reconnect, packets and the user are not among     *)
(* them: nothing makes them happen.                                        *)
MainSteps ==
    \/ recover_stale_state /\ Locals
    \/ ForgetStale /\ Locals
    \/ Connect
    \/ InstallBypass /\ Locals
    \/ WriteJournal /\ Locals
    \/ InstallFence /\ Locals
    \/ FallBack /\ Locals
    \/ InstallRoutes /\ Locals
    \/ Undo /\ Locals
    \/ RemoveJournal /\ Locals
    \/ RenameJournal /\ Locals
    \/ StartLoop \/ LeaveLoop \/ take_reconnect_request
    \/ ReconnectRefreshes \/ ReconnectDials \/ ReconnectApplies \/ ReconnectHands
    \/ Join \/ BackOff \/ Attempt \/ Restart
    \/ Drop /\ Locals
    \/ Forget /\ Locals

WorkerSteps == WorkerTop \/ WorkerSends

Surroundings ==
    \/ Launch /\ Locals
    \/ repair /\ Locals
    \/ RemoveAdapter /\ Locals
    \/ Crashes /\ Locals
    \/ Stop \/ WindowsCalls \/ NetworkChanges \/ GraceEnds
    \/ Reconnect \/ LoopFails

Next == MainSteps \/ WorkerSteps \/ PolicyWorker \/ Surroundings

(* Windows schedules every thread of the helper again and again.           *)
Fairness ==
    /\ WF_vars(MainSteps) /\ WF_vars(WorkerSteps) /\ WF_vars(PolicyWorker)

Spec == Init /\ [][Next]_vars /\ Fairness

-----------------------------------------------------------------------------
Steps ==
    {"off", "recover", "forget_stale", "connect", "bypass", "journal", "fence", "fallback",
     "routes", "undo", "rewrite", "rename", "start", "loop", "refresh", "dial", "apply",
     "hand", "join", "ended", "attempt", "restart", "drop", "forget"}

TypeOK ==
    /\ PolicyTypeOK /\ at \in Steps
    /\ stopping \in BOOLEAN /\ requested \in BOOLEAN /\ channel \in BOOLEAN
    /\ parameters \in Param \cup {None} /\ session \in Param \cup {None}
    /\ dialled \in Param \cup {None}
    /\ worker \in {"none", "top", "wait", "ended"}

(* From the moment the halves of the address space are routed into the     *)
(* tunnel until NetworkGuard::drop has taken the routes back, through      *)
(* reconnects, restarts of the runtime and refreshes that fail halfway,    *)
(* the machine is fenced, by the WFP filters or by the firewall rules, and *)
(* the journal names what a later helper has to remove.  The one gap is    *)
(* the rename of the second write_state.                                   *)
Established ==
    {"start", "loop", "refresh", "dial", "apply", "hand", "join", "ended", "attempt", "restart", "drop"}

FencedWhileRouted ==
    /\ TypeOK
    /\ at \in Established \cup {"rewrite", "rename"} => switch \/ rules
    /\ at \in Established => journal = IF switch THEN "no_rules" ELSE "rules"

(* The helper keeps the promise of TunnelFence: halves are routed into the *)
(* adapter only behind WFP filters or firewall rules, and from the journal *)
(* on until NetworkGuard::drop neither is ever gone, through refreshes     *)
(* that fail, reconnects and restarts of the runtime.                      *)
Fence == INSTANCE TunnelFence WITH
    up <- at \in Established \ {"drop"},
    fenced <- switch \/ rules,
    routed <- halves > 0
FenceKept == Fence!Spec

(* Without a helper and without a journal the machine carries nothing of   *)
(* MouseVPN, whatever failed and wherever the helper was killed: what      *)
(* recover_stale_state takes the absence of the journal to mean.  The      *)
(* exception is a helper that ended between the remove_file and the rename *)
(* of write_state.                                                         *)
JournalCovers ==
    at = "off" /\ journal = "absent" /\ ~torn => Clean

(* The interface carries the address of the session in use, across         *)
(* reconnects and restarts that bring other parameters.                    *)
InterfaceFollowsSession ==
    at = "loop" => address = session

(* A reconnect comes to an end, although it hands its socket over a        *)
(* channel of one place to a worker that pauses while it runs; and a stop  *)
(* ends the helper from every step: the loop, a reconnect, a join, a       *)
(* backoff.                                                                *)
ReconnectAndStopReturn ==
    /\ []<>~reconnecting
    /\ []<>(stopping => at = "off")

(* After a change of network the route to the server leads through the     *)
(* network the machine is on, even when the request for a reconnect was    *)
(* swallowed by the grace period or the debounce, or the first attempts to *)
(* replace the route failed: the policy worker repairs it.                 *)
RouteFollows ==
    []<>(InLoop /\ gateway # None => server = gateway)
=============================================================================
