------------------------------ MODULE WindowsSplit ------------------------------
(***************************************************************************)
(* The per-application tunnel of the Windows client: split_tunnel.rs over  *)
(* the capture loop of windivert/divert.rs and the handle of               *)
(* windivert/mod.rs.  The receive loop keeps the session alive and         *)
(* replaces it; the outbound worker captures packets in batches, hands     *)
(* back those that stay and encrypts the others.  They share the           *)
(* translation, the sender and a channel with room for one socket.  Which  *)
(* packet is routed is FlowWatch's business: here a batch has so many.     *)
(***************************************************************************)
EXTENDS Naturals, Sequences, FiniteSets

CONSTANTS
    Network,      \* networks the machine may be on, one interface each
    MaxSessions,  \* bound: sessions of a launch
    MaxFailures,  \* bound: calls that fail
    MaxBatch      \* bound: tunnelled packets in a batch

SplitAssumption == MaxSessions \in Nat /\ MaxFailures \in Nat /\ MaxBatch \in Nat

None == "none"
Session == 1 .. MaxSessions

VARIABLES
    main,        \* where run_split_tunnel is
    out,         \* where the outbound worker is
    stopping,    \* the flag
    shut,        \* the diverter's handle was shut down
    network,     \* where the machine is
    made,        \* the session of the latest handshake, and the network it was made on
    translation, \* the session and the network of the shared translation
    sender,      \* the session of the shared sender
    receiver,    \* the session of the receive loop's receiver
    transport,   \* the session of the receive loop's socket
    channel,     \* sockets handed over: none or one
    socket,      \* the worker's socket
    batch,       \* the worker's batch: packets to hand back, packets to send, its translation
    enc,         \* the session the packet to be sent was encrypted for
    dns,         \* the interfaces set to the tunnel's resolver
    guard,       \* the interface the DnsGuard names, or None
    failures,    \* calls that failed
    stray,       \* workers of the helper that go on capturing though their run is over
    unclean      \* history: interfaces a kill or a failed reset left set

mainVars == <<made, receiver, transport, dns, guard, unclean>>
outVars == <<out, socket, batch, enc>>
vars == <<main, mainVars, outVars, stopping, shut, network, translation, sender, channel, failures, stray>>

NoBatch == [pass |-> FALSE, left |-> 0, of |-> 0]
Off == main = "off"
Fails == failures < MaxFailures /\ failures' = failures + 1

Init ==
    /\ main = "off" /\ out = "off" /\ stopping = FALSE /\ shut = FALSE
    /\ network \in Network
    /\ made = <<0, None>> /\ translation = <<0, None>>
    /\ sender = 0 /\ receiver = 0 /\ transport = 0 /\ channel = <<>>
    /\ socket = 0 /\ batch = NoBatch /\ enc = 0
    /\ dns = {} /\ guard = None /\ failures = 0 /\ stray = 0 /\ unclean = {}

-----------------------------------------------------------------------------
(* run_split_tunnel up to the loop.                                        *)

(* The lock, the handshake, the default route and the translation.         *)
run_split_tunnel ==
    /\ Off /\ out = "off"
    /\ main' = "dns" /\ made' = <<1, network>> /\ translation' = <<1, network>>
    /\ sender' = 1 /\ receiver' = 1 /\ transport' = 1 /\ channel' = <<>>
    /\ stopping' = FALSE /\ shut' = FALSE
    /\ UNCHANGED <<outVars, network, dns, guard, failures, unclean, stray>>

(* The helper calls again after an error, in the same process, unless it   *)
(* was told to stop; its end is the end of every worker.                   *)
Returns == stray' = IF stopping THEN 0 ELSE stray

(* DnsGuard::install; a refused call changes nothing.                      *)
install_dns(fails) ==
    /\ main = "dns"
    /\ IF fails THEN Fails /\ main' = "off" /\ Returns /\ UNCHANGED <<dns, guard>>
                ELSE /\ main' = "capture" /\ dns' = dns \cup {made[2]} /\ guard' = made[2]
                     /\ UNCHANGED <<failures, stray>>
    /\ UNCHANGED <<made, receiver, transport, unclean, outVars, stopping, shut, network, translation, sender,
                   channel>>

(* The worker looks at the flag before it waits for a batch.               *)
Again == IF stopping THEN "ended" ELSE "recv"

(* The library, the watchers, the diverter and the worker.                 *)
open(fails) ==
    /\ main = "capture"
    /\ IF fails THEN Fails /\ main' = "drop" /\ UNCHANGED <<out, socket>>
                ELSE main' = "loop" /\ out' = Again /\ socket' = transport /\ UNCHANGED failures
    /\ UNCHANGED <<mainVars, batch, enc, stopping, shut, network, translation, sender, channel, stray>>

(* The route is asked for once more when the worker runs already.  Without *)
(* one the guard, the watchers and the channel are dropped and the worker, *)
(* which nobody told to stop, goes on with the session it has.             *)
open_late ==
    /\ main = "capture" /\ Fails /\ main' = "drop" /\ stray' = stray + 1
    /\ UNCHANGED <<mainVars, outVars, stopping, shut, network, translation, sender, channel>>

-----------------------------------------------------------------------------
(* ReceiveLoop.                                                            *)

(* A turn whose receive or keepalive fails for good ends the loop.         *)
run_fails ==
    /\ main = "loop" /\ ~stopping /\ Fails /\ main' = "stop"
    /\ UNCHANGED <<mainVars, outVars, stopping, shut, network, translation, sender, channel, stray>>

run_ends ==
    /\ main = "loop" /\ stopping /\ main' = "stop"
    /\ UNCHANGED <<mainVars, outVars, stopping, shut, network, translation, sender, channel, failures, stray>>

(* maintain decided to reconnect: establish reads where the machine is and *)
(* makes a session there.  A handshake that fails is only reported.        *)
establish ==
    /\ main = "loop" /\ ~stopping /\ made[1] < MaxSessions
    /\ made' = <<made[1] + 1, network>> /\ main' = "translate"
    /\ UNCHANGED <<receiver, transport, dns, guard, unclean, outVars, stopping, shut, network, translation,
                   sender, channel, failures, stray>>

translate ==
    /\ main = "translate" /\ main' = "sender" /\ translation' = made
    /\ UNCHANGED <<mainVars, outVars, stopping, shut, network, sender, channel, failures, stray>>

swap_sender ==
    /\ main = "sender" /\ main' = "hand" /\ sender' = made[1] /\ receiver' = made[1]
    /\ UNCHANGED <<made, transport, dns, guard, unclean, outVars, stopping, shut, network, translation, channel,
                   failures, stray>>

WorkerEnded == out \in {"ended", "failed"}

hand_over_anyway ==
    /\ main = "hand" /\ main' = "loop"
    /\ IF WorkerEnded THEN UNCHANGED <<channel, transport>>
       ELSE channel' = <<made[1]>> /\ transport' = made[1]
    /\ UNCHANGED <<made, receiver, dns, guard, unclean, outVars, stopping, shut, network, translation,
                   sender, failures, stray>>

(* The channel has room for one socket: send waits until the worker took   *)
(* the one before.  When the worker has ended it fails, and establish      *)
(* leaves the loop's own socket as it was.                                 *)
hand_over ==
    /\ main = "hand" /\ main' = "loop"
    /\ IF WorkerEnded THEN UNCHANGED <<channel, transport>>
       ELSE channel = <<>> /\ channel' = <<made[1]>> /\ transport' = made[1]
    /\ UNCHANGED <<made, receiver, dns, guard, unclean, outVars, stopping, shut, network, translation,
                   sender, failures, stray>>

(* The flag, the shutdown that wakes the worker, and the join.             *)
stop ==
    /\ main = "stop" /\ main' = "join" /\ stopping' = TRUE /\ shut' = TRUE
    /\ UNCHANGED <<mainVars, outVars, network, translation, sender, channel, failures, stray>>

join ==
    /\ main = "join" /\ WorkerEnded /\ main' = "drop"
    /\ UNCHANGED <<mainVars, outVars, stopping, shut, network, translation, sender, channel, failures, stray>>

(* Everything is dropped: the socket in the channel, the worker's, the     *)
(* DnsGuard.  A failed reset is reported.                                  *)
drop_dns(fails) ==
    /\ main = "drop" /\ main' = "off" /\ Returns /\ guard' = None /\ out' = "off" /\ channel' = <<>>
    /\ IF fails THEN Fails /\ unclean' = unclean \cup {guard} /\ UNCHANGED dns
                ELSE dns' = dns \ {guard} /\ unclean' = unclean \ {guard} /\ UNCHANGED failures
    /\ batch' = NoBatch /\ enc' = 0 /\ UNCHANGED <<socket, made, receiver, transport, stopping, shut, network,
                                                    translation, sender>>

-----------------------------------------------------------------------------
(* The outbound worker: Diverter::run with spawn_outbound's sink.          *)

(* The worker ends when its handle was shut down; it sees the flag only    *)
(* between two batches.  A batch comes with the translation for all of it. *)
recv_batch ==
    /\ out = "recv" /\ shut /\ out' = "ended"
    /\ UNCHANGED <<main, mainVars, socket, batch, enc, stopping, shut, network, translation, sender, channel,
                   failures, stray>>

CaptureFails ==
    /\ out = "recv" /\ ~shut /\ Fails /\ out' = "failed"
    /\ UNCHANGED <<main, mainVars, socket, batch, enc, stopping, shut, network, translation, sender, channel,
                   stray>>

Captures ==
    /\ out = "recv" /\ ~shut
    /\ \E n \in 0 .. MaxBatch, pass \in BOOLEAN :
         batch' = [pass |-> pass, left |-> n, of |-> translation[1]]
    /\ out' = "flush"
    /\ UNCHANGED <<main, mainVars, socket, enc, stopping, shut, network, translation, sender, channel,
                   failures, stray>>

flush ==
    /\ out = "flush"
    /\ batch' = [batch EXCEPT !.pass = FALSE] /\ out' = IF batch.left = 0 THEN Again ELSE "take"
    /\ UNCHANGED <<main, mainVars, socket, enc, stopping, shut, network, translation, sender, channel,
                   failures, stray>>

(* The sink: the latest socket, then the sender's lock.                    *)
take ==
    /\ out = "take" /\ out' = "encode" /\ channel' = <<>>
    /\ socket' = IF channel # <<>> THEN channel[1] ELSE socket
    /\ UNCHANGED <<main, mainVars, batch, enc, stopping, shut, network, translation, sender, failures, stray>>

(* A packet the tunnel cannot carry is skipped.                            *)
Done(b) == IF b.left = 1 THEN Again ELSE "take"
Sent(b) == IF b.left = 1 THEN NoBatch ELSE [b EXCEPT !.left = @ - 1]

encode ==
    /\ out = "encode"
    /\ \/ out' = "send" /\ enc' = sender /\ UNCHANGED batch
       \/ out' = Done(batch) /\ batch' = Sent(batch) /\ UNCHANGED enc
    /\ UNCHANGED <<main, mainVars, socket, stopping, shut, network, translation, sender, channel, failures,
                   stray>>

(* Whatever the socket says is counted and reported only.                  *)
send ==
    /\ out = "send" /\ out' = Done(batch) /\ batch' = Sent(batch) /\ enc' = 0
    /\ UNCHANGED <<main, mainVars, socket, stopping, shut, network, translation, sender, channel, failures,
                   stray>>

-----------------------------------------------------------------------------
(* What surrounds the process.                                             *)

StopRequested ==
    /\ ~Off /\ ~stopping /\ stopping' = TRUE
    /\ UNCHANGED <<main, mainVars, outVars, shut, network, translation, sender, channel, failures, stray>>

NetworkMoves ==
    /\ \E n \in Network \ {network} : network' = n
    /\ UNCHANGED <<main, mainVars, outVars, stopping, shut, translation, sender, channel, failures, stray>>

Killed ==
    /\ ~Off /\ main' = "off" /\ out' = "off" /\ stray' = 0 /\ Fails
    /\ unclean' = unclean \cup dns /\ guard' = None /\ channel' = <<>> /\ batch' = NoBatch /\ enc' = 0
    /\ UNCHANGED <<made, receiver, transport, dns, socket, stopping, shut, network, translation, sender>>

(* A worker that outlived its run ends when its capture fails, or with the *)
(* process, which may be told to stop, or killed, between two runs.        *)
StrayEnds ==
    /\ stray # 0 /\ stray' = stray - 1
    /\ UNCHANGED <<main, mainVars, outVars, stopping, shut, network, translation, sender, channel, failures>>

Main ==
    \/ \E fails \in BOOLEAN : install_dns(fails) \/ open(fails) \/ drop_dns(fails)
    \/ open_late \/ run_ends \/ translate \/ swap_sender \/ hand_over \/ stop \/ join
Worker == recv_batch \/ flush \/ take \/ encode \/ send

Next ==
    \/ run_split_tunnel \/ Main \/ Worker
    \/ run_fails \/ establish \/ Captures \/ CaptureFails \/ StopRequested \/ NetworkMoves \/ Killed
    \/ StrayEnds

(* Each thread goes on as long as it can; nothing obliges an application   *)
(* to send.                                                                *)
Spec == Init /\ [][Next]_vars /\ WF_vars(Main) /\ WF_vars(Worker)

-----------------------------------------------------------------------------
TypeOK ==
    /\ main \in {"off", "dns", "capture", "loop", "translate", "sender", "hand", "stop", "join", "drop"}
    /\ out \in {"off", "recv", "flush", "take", "encode", "send", "ended", "failed"}
    /\ Len(channel) <= 1 /\ dns \subseteq Network /\ stray \in 0 .. MaxFailures /\ batch.left \in 0 .. MaxBatch

(* A packet never goes out on the socket of a session after the one it is  *)
(* encrypted for, and at most two before it: a reconnect waits with its    *)
(* socket until the worker took the one before.  Between two turns the     *)
(* receive loop has the receiver of the session its socket belongs to,     *)
(* unless the worker is gone.  A packet that stays was handed back before  *)
(* any of its batch is encrypted.                                          *)
SessionsTogether ==
    /\ TypeOK
    /\ out = "send" => enc - 2 <= socket /\ socket <= enc
    /\ main = "loop" => receiver = sender /\ (receiver = transport \/ WorkerEnded)
    /\ out \in {"take", "encode", "send"} => ~batch.pass

(* The resolver is on the interface from before the capture of a run to    *)
(* after it; only a worker that outlived its run (stray) captures without, *)
(* and none does once the helper ended on a stop.  An orderly end,         *)
(* whatever failed, leaves no interface with the resolver: none but those  *)
(* a kill or a refused reset left.                                         *)
ResolverRestored ==
    /\ main \in {"loop", "translate", "sender", "hand", "stop", "join"} => guard \in dns
    /\ out \notin {"off", "ended", "failed"} => guard \in dns
    /\ Off => dns \subseteq unclean /\ (stopping => stray = 0)

(* A reconnect waits for the worker, which waits for a packet to send.     *)
Blocked == main = "hand" /\ channel # <<>> /\ out = "recv" /\ ~shut

(* A stop ends the tunnel and gives the resolver back, unless a reconnect  *)
(* hangs on the full channel for good.                                     *)
StopEnds == []<>(stopping => Off \/ Blocked)

(* "The receive timeout bounds how long this can be deferred, so a silent  *)
(* tunnel still reports its silence on schedule" (split_tunnel.rs): a turn *)
(* of the receive loop ends.                                               *)
TurnEnds == (main = "translate") ~> (main \in {"loop", "off"})
===============================================================================
