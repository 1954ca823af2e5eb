------------------------------ MODULE LinuxClient ------------------------------
(***************************************************************************)
(* The two threads of the Linux client: the packet loop, which receives    *)
(* and reconnects (linux-client/src/packet_loop.rs), and the worker, which *)
(* carries packets from the TUN to the server (outgoing.rs).  They share   *)
(* the sender behind its mutex, a channel of replacement sockets, and the  *)
(* atomics stopping, reconnecting, reconnect_requested and                 *)
(* session_generation.                                                     *)
(*                                                                         *)
(* A step is one access to shared state with the local work around it.     *)
(* Sockets and sessions are numbered in the order they are opened.  When   *)
(* the loop decides to reconnect is a choice here; ClientLiveness models   *)
(* the clock behind it.                                                    *)
(***************************************************************************)
EXTENDS Naturals, Sequences, SequencesExt

CONSTANTS
    MaxReconnects     \* bound: how many sockets the client opens after the first

ClientAssumption == MaxReconnects \in Nat

VARIABLES
    stopping, reconnecting, requested, generation,    \* the atomics
    sender,          \* the session of the TunnelSender in the mutex
    replacements,    \* the channel of replacement sockets
    worker,          \* what the worker channel holds: "Empty", "Ok", "Err", "Gone"
    main,            \* where the packet loop is
    transport,       \* PacketLoop::transport
    receiver,        \* the session of PacketLoop::receiver
    fresh,           \* the socket and session a reconnect is installing
    out,             \* where the outgoing worker is
    outgoing,        \* the worker's socket
    batch,           \* the session the worker's batch was encoded with
    loaded,          \* the generation the worker has read
    confirmed,       \* history: <<socket, session>> the server answered on
    opened,          \* history: sockets opened, the first one included
    stale,           \* history: batches on a superseded socket since unpausing
    unheeded         \* history: a failed send of this generation awaits notice

mainVars == <<main, transport, receiver, fresh>>
outVars == <<out, outgoing, batch, loaded>>
shared == <<stopping, reconnecting, requested, generation, sender, replacements,
            worker>>
history == <<confirmed, opened, stale, unheeded>>
vars == <<mainVars, outVars, shared, history>>

Nothing == [transport |-> 0, session |-> 0]

Init ==
    /\ stopping = FALSE /\ reconnecting = FALSE
    /\ requested = 0 /\ generation = 1
    /\ sender = 1 /\ replacements = <<>> /\ worker = "Empty"
    /\ main = "top" /\ transport = 1 /\ receiver = 1 /\ fresh = Nothing
    /\ out = "top" /\ outgoing = 1 /\ batch = 0 /\ loaded = 0
    /\ confirmed = {<<1, 1>>} /\ opened = 1
    /\ stale = 0 /\ unheeded = FALSE

\* SIGINT, SIGTERM, or the embedding application.
Stop ==
    /\ ~stopping
    /\ stopping' = TRUE
    /\ UNCHANGED <<mainVars, outVars, reconnecting, requested, generation, sender,
                   replacements, worker, history>>

-------------------------------------------------------------------------------
(* The packet loop. *)

Ended == main \in {"stopped", "failed"}

\* What check_worker finds: a failure of the worker, or its end while nobody
\* asked for it, is an error.
check_worker == worker # "Err" /\ (worker \in {"Ok", "Gone"} => stopping)

\* try_recv takes the result out of the channel.
Taken == IF worker = "Empty" THEN "Empty" ELSE "Gone"

LoopTop ==
    /\ main = "top"
    /\ \/ /\ stopping
          /\ main' = "stopped"
          /\ UNCHANGED worker
       \/ /\ ~stopping
          /\ main' = IF check_worker THEN "receive" ELSE "failed"
          /\ worker' = Taken
    /\ UNCHANGED <<transport, receiver, fresh, outVars, stopping, reconnecting,
                   requested, generation, sender, replacements, history>>

\* Packets, a refusal by the peer or an interruption; a timeout also checks on
\* the worker.
Received ==
    /\ main = "receive"
    /\ \/ main' = "received" /\ UNCHANGED worker
       \/ main' = (IF check_worker THEN "received" ELSE "failed") /\ worker' = Taken
    /\ UNCHANGED <<transport, receiver, fresh, outVars, stopping, reconnecting,
                   requested, generation, sender, replacements, history>>

\* An unrecoverable error of the socket, of the TUN, or of a keepalive.
LoopFails ==
    /\ main \in {"receive", "maintain"}
    /\ main' = "failed"
    /\ UNCHANGED <<transport, receiver, fresh, outVars, shared, history>>

\* Honoured requests count as a loss of the connection.
Honoured == requested # 0 /\ requested = generation

take_reconnect_request ==
    /\ main = "received"
    /\ \/ /\ stopping
          /\ main' = "stopped"
          /\ UNCHANGED <<requested, unheeded>>
       \/ /\ ~stopping
          /\ main' = "maintain"
          /\ requested' = 0
          /\ unheeded' = (unheeded /\ ~Honoured)
    /\ UNCHANGED <<transport, receiver, fresh, outVars, stopping, reconnecting,
                   generation, sender, replacements, worker, confirmed, opened,
                   stale>>

\* Nothing is due, or a keepalive is sent.
Maintained ==
    /\ main = "maintain"
    /\ main' = "top"
    /\ UNCHANGED <<transport, receiver, fresh, outVars, shared, history>>

reconnect ==
    /\ main = "maintain" /\ opened <= MaxReconnects
    /\ reconnecting' = TRUE
    /\ main' = "migrate"
    /\ UNCHANGED <<transport, receiver, fresh, outVars, stopping, requested,
                   generation, sender, replacements, worker, history>>

\* There is no route, or neither migration nor a new handshake succeeds, or the
\* new session's parameters cannot be applied.
ReconnectFailed ==
    /\ main \in {"migrate", "establish"}
    /\ main' = "unpause"
    /\ UNCHANGED <<transport, receiver, fresh, outVars, shared, history>>

\* The server answered a keepalive of the session on a new socket.
try_migrate ==
    /\ main = "migrate"
    /\ fresh' = [transport |-> opened + 1, session |-> receiver]
    /\ opened' = opened + 1
    /\ confirmed' = confirmed \cup {<<opened + 1, sender>>}
    /\ main' = "handover"
    /\ UNCHANGED <<transport, receiver, outVars, shared, stale,
                   unheeded>>

\* Migration failed and the server answered a new handshake.
establish_replacement ==
    /\ main \in {"migrate", "establish"} /\ opened <= MaxReconnects
    /\ fresh' = [transport |-> opened + 1, session |-> opened + 1]
    /\ opened' = opened + 1
    /\ confirmed' = confirmed \cup {<<opened + 1, opened + 1>>}
    /\ receiver' = opened + 1
    /\ main' = "swap"
    /\ UNCHANGED <<transport, outVars, shared, stale, unheeded>>

SenderSwapped_skipped ==
    /\ main = "swap"
    /\ main' = "handover"
    /\ UNCHANGED <<transport, receiver, fresh, outVars, shared, history>>

SenderSwapped ==
    /\ main = "swap"
    /\ sender' = fresh.session
    /\ main' = "handover"
    /\ UNCHANGED <<transport, receiver, fresh, outVars, stopping, reconnecting,
                   requested, generation, replacements, worker, history>>

\* The channel refuses the socket once the worker is gone; a migration that
\* fails here is followed by a new handshake.
HandedOver ==
    /\ main = "handover"
    /\ \/ /\ out = "exited"
          /\ main' = IF fresh.session = fresh.transport THEN "unpause" ELSE "establish"
          /\ UNCHANGED <<transport, replacements>>
       \/ /\ out # "exited"
          /\ replacements' = Append(replacements, fresh.transport)
          /\ transport' = fresh.transport
          /\ main' = "advance"
    /\ UNCHANGED <<receiver, fresh, outVars, stopping, reconnecting, requested,
                   generation, sender, worker, history>>

GenerationAdvanced ==
    /\ main = "advance"
    /\ generation' = generation + 1
    /\ unheeded' = FALSE
    /\ main' = "clear"
    /\ UNCHANGED <<transport, receiver, fresh, outVars, stopping, reconnecting,
                   requested, sender, replacements, worker, confirmed, opened,
                   stale>>

RequestCleared ==
    /\ main = "clear"
    /\ requested' = 0
    /\ main' = "unpause"
    /\ UNCHANGED <<transport, receiver, fresh, outVars, stopping, reconnecting,
                   generation, sender, replacements, worker, history>>

Unpaused ==
    /\ main = "unpause"
    /\ reconnecting' = FALSE
    /\ stale' = 0
    /\ fresh' = Nothing
    /\ main' = "top"
    /\ UNCHANGED <<transport, receiver, outVars, stopping, requested, generation,
                   sender, replacements, worker, confirmed, opened,
                   unheeded>>

MainNext ==
    \/ LoopTop \/ Received \/ LoopFails \/ take_reconnect_request \/ Maintained
    \/ reconnect \/ ReconnectFailed \/ try_migrate \/ establish_replacement
    \/ SenderSwapped \/ HandedOver \/ GenerationAdvanced \/ RequestCleared
    \/ Unpaused

-------------------------------------------------------------------------------
(* The outgoing worker. *)

\* The worker returns, its result goes into the channel, its ends are dropped.
Exit(result) ==
    /\ out' = "exited"
    /\ worker' = result
    /\ UNCHANGED <<outgoing, batch, loaded, mainVars, stopping, reconnecting,
                   requested, generation, sender, replacements, history>>

\* The worker only moves on.
Goto(place) ==
    /\ out' = place
    /\ UNCHANGED <<outgoing, batch, loaded, mainVars, shared, history>>

OutTop ==
    /\ out = "top"
    /\ IF stopping THEN Exit("Ok") ELSE Goto("drain")

\* The newest replacement wins.
OutDrain ==
    /\ out = "drain"
    /\ out' = "paused"
    /\ outgoing' = Last(<<outgoing>> \o replacements)
    /\ replacements' = <<>>
    /\ UNCHANGED <<batch, loaded, mainVars, stopping, reconnecting, requested,
                   generation, sender, worker, history>>

OutPaused ==
    /\ out = "paused"
    /\ Goto(IF reconnecting THEN "top" ELSE "poll")

\* The TUN is readable, or not for TUN_POLL_MS, or polling fails.
OutPoll ==
    /\ out = "poll"
    /\ Goto("ready") \/ Goto("top") \/ Exit("Err")

\* Reads what the TUN holds: packets, nothing, or an error.
OutRead ==
    /\ out = "ready"
    /\ IF reconnecting THEN Goto("top")
       ELSE Goto("encode") \/ Goto("top") \/ Exit("Err")

\* Under the sender's lock.
OutEncode ==
    /\ out = "encode"
    /\ out' = "send" /\ batch' = sender
    /\ UNCHANGED <<outgoing, loaded, mainVars, shared, history>>

\* Every packet was dropped, or the wire codec failed.
OutEncodeFailed ==
    /\ out = "encode"
    /\ Goto("top") \/ Exit("Err")

OutSent ==
    /\ out = "send"
    /\ out' = "top" /\ batch' = 0
    /\ stale' = IF ~reconnecting /\ outgoing # transport THEN stale + 1 ELSE stale
    /\ UNCHANGED <<outgoing, loaded, mainVars, shared, confirmed, opened,
                   unheeded>>

OutRefused_swallowed ==
    /\ out = "send"
    /\ out' = "top" /\ batch' = 0
    /\ unheeded' = (unheeded \/ outgoing = transport)
    /\ UNCHANGED <<outgoing, loaded, mainVars, shared, confirmed, opened, stale>>

\* The peer is unavailable.
OutRefused ==
    /\ out = "send"
    /\ out' = "load" /\ batch' = 0
    /\ unheeded' = (unheeded \/ outgoing = transport)
    /\ UNCHANGED <<outgoing, loaded, mainVars, shared, confirmed, opened, stale>>

\* A retryable error drops the batch; any other ends the worker.
OutSendFailed ==
    /\ out = "send"
    /\ Goto("top") \/ Exit("Err")

OutLoad ==
    /\ out = "load"
    /\ out' = "store" /\ loaded' = generation
    /\ UNCHANGED <<outgoing, batch, mainVars, shared, history>>

OutStore ==
    /\ out = "store"
    /\ out' = "top" /\ requested' = loaded
    /\ UNCHANGED <<outgoing, batch, loaded, mainVars, stopping, reconnecting,
                   generation, sender, replacements, worker, history>>

OutNext ==
    \/ OutTop \/ OutDrain \/ OutPaused \/ OutPoll \/ OutRead \/ OutEncode
    \/ OutEncodeFailed \/ OutSent \/ OutRefused \/ OutSendFailed \/ OutLoad
    \/ OutStore

-------------------------------------------------------------------------------

Next == Stop \/ MainNext \/ OutNext

Spec == Init /\ [][Next]_vars

\* Neither thread blocks for good: the sockets and the TUN are polled with a
\* timeout and a handshake has a deadline.
FairSpec == Spec /\ WF_vars(MainNext) /\ WF_vars(OutNext)

-------------------------------------------------------------------------------

\* Numbers are sockets, sessions and generations that exist.
TypeOK ==
    /\ stopping \in BOOLEAN /\ reconnecting \in BOOLEAN
    /\ generation \in 1..opened /\ requested \in 0..generation
    /\ loaded \in 0..generation
    /\ opened \in 1..MaxReconnects + 1
    /\ {transport, receiver, sender, outgoing} \subseteq 1..opened
    /\ batch \in 0..opened
    /\ replacements \in Seq(1..opened)
    /\ confirmed \subseteq (1..opened) \X (1..opened)
    /\ fresh \in [transport : 0..opened, session : 0..opened]
    /\ worker \in {"Empty", "Ok", "Err", "Gone"}
    /\ main \in {"top", "receive", "received", "maintain", "migrate", "establish", "swap",
                 "handover", "advance", "clear", "unpause", "stopped", "failed"}
    /\ out \in {"top", "drain", "paused", "poll", "ready", "encode", "send",
                "load", "store", "exited"}
    /\ stale \in Nat /\ unheeded \in BOOLEAN

\* "Reconnect creates a fresh socket and hands its clone to this direction
\* before unpausing packet delivery": while packets flow, the newest socket
\* given to the worker is the one the packet loop receives on, both directions
\* use one session, and the server has answered that session on that socket.
SessionConfirmed ==
    /\ TypeOK
    /\ ~reconnecting /\ out # "exited"
          => /\ Last(<<outgoing>> \o replacements) = transport
             /\ sender = receiver
             /\ <<transport, sender>> \in confirmed

\* The worker checks for a pause before it reads the TUN, not when it sends, so
\* a batch can slip out on the socket a reconnect has superseded; it is one
\* batch per reconnect, however the threads interleave.
OneStaleBatch == stale <= 1

\* A refused send is not swallowed: the packet loop hears of every failure of
\* the current generation's socket, reconnects on its own, or ends.
LossHeeded == []<>(unheeded => Ended)

\* A request to stop ends both threads, wherever they are.
StopEndsBoth == []<>(stopping => Ended /\ out = "exited")

\* The client does not run on with a dead worker.
WorkerEndNoticed == []<>(out = "exited" => Ended)
===============================================================================
