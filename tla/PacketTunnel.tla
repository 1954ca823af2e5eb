------------------------------ MODULE PacketTunnel ------------------------------
(***************************************************************************)
(* The macOS packet tunnel extension: PacketTunnelProvider and PacketPump  *)
(* (macos/PacketTunnel) over the C interface of apple-native/src/ffi.rs.   *)
(* The system starts and stops the tunnel on a queue of its own; packets   *)
(* go out on one serial queue, together with the keepalive timer, and come *)
(* in on another.  The native session is freed with the last reference to  *)
(* its Swift object: the queues take theirs (weak, then strong) for one    *)
(* turn only.                                                              *)
(***************************************************************************)
EXTENDS Naturals, Sequences, SequencesExt

CONSTANTS
    Chunk,     \* packets handed over at once: 32, MAX_PACKET_BATCH
    MaxRead,   \* bound: IPv4 packets of one read
    MaxFrame   \* MAX_FRAMED_PACKET

TunnelAssumption == Chunk \in Nat \ {0} /\ MaxRead \in Nat /\ MaxFrame \in Nat

VARIABLES
    start,    \* startTunnel: "idle", "connect", "settings", "run", "queue", "timer", "up", "failed"
    stop,     \* stopTunnel: "idle", "release", "done"
    refs,     \* whether the provider refers to the session and the pump
    running,  \* PacketPump.running
    out,      \* sending: "none", "flow", "queued", "sending"
    left,     \* the packets of its batch that are not sent
    pinging,  \* the timer's handler runs
    timer,    \* keepaliveTimer is set
    inq,      \* receiving: "none", "loop", "receive", "write", "done"
    handle,   \* the native session: "none", "open", "freed"
    reports,  \* history: calls of cancelTunnelWithError, each with where stopTunnel was
    early     \* history: stopTunnel was called before startTunnel was through

vars == <<start, stop, refs, running, out, left, pinging, timer, inq, handle, reports, early>>

(* Somebody holds the pump, or the session.                                *)
Pump ==
    \/ refs \/ start \in {"run", "queue", "timer"}
    \/ out = "sending" \/ pinging \/ inq \in {"receive", "write"}
Session == Pump \/ start = "settings"

(* deinit, with the last reference.                                        *)
Release == handle' = IF handle = "open" /\ ~Session' THEN "freed" ELSE handle

Init ==
    /\ start = "idle" /\ stop = "idle" /\ refs = FALSE /\ running = FALSE
    /\ out = "none" /\ left = 0 /\ pinging = FALSE /\ timer = FALSE /\ inq = "none"
    /\ handle = "none" /\ reports = <<>> /\ early = FALSE

-----------------------------------------------------------------------------
(* The provider.                                                           *)

(* A configuration without what it needs is refused.                       *)
startTunnel ==
    /\ start = "idle" /\ start' \in {"connect", "failed"}
    /\ UNCHANGED <<stop, refs, running, out, left, pinging, timer, inq, handle, reports, early>>

(* RustTunnelSession.connect, which frees what it cannot describe.         *)
connect ==
    /\ start = "connect"
    /\ \/ start' = "settings" /\ handle' = "open"
       \/ start' = "failed" /\ handle' \in {"none", "freed"}
    /\ UNCHANGED <<stop, refs, running, out, left, pinging, timer, inq, reports, early>>

(* The answer to setTunnelNetworkSettings.                                 *)
setTunnelNetworkSettings ==
    /\ start = "settings"
    /\ \/ start' = "run" /\ refs' = TRUE
       \/ start' = "failed" /\ UNCHANGED refs
    /\ UNCHANGED <<stop, running, out, left, pinging, timer, inq, reports, early>>
    /\ Release

(* PacketPump.start: the flag, both directions, the timer.                 *)
setRunning ==
    /\ start = "run" /\ start' = "queue" /\ running' = TRUE
    /\ UNCHANGED <<stop, refs, out, left, pinging, timer, inq, reports, early>>
    /\ Release

readNextBatch == out' = IF running THEN "flow" ELSE "none"

startQueues ==
    /\ start = "queue" /\ start' = "timer" /\ readNextBatch /\ inq' = "loop"
    /\ UNCHANGED <<stop, refs, running, left, pinging, timer, reports, early>>
    /\ Release

startKeepalive ==
    /\ start = "timer" /\ start' = "up" /\ timer' = TRUE
    /\ UNCHANGED <<stop, refs, running, out, left, pinging, inq, reports, early>>
    /\ Release

(* PacketPump.stop, if there is a pump.                                    *)
stopTunnel ==
    /\ start # "idle" /\ stop = "idle" /\ stop' = "release"
    /\ running' = (running /\ ~refs) /\ timer' = (timer /\ ~refs)
    /\ early' = (start \notin {"up", "failed"})
    /\ UNCHANGED <<start, refs, out, left, pinging, inq, reports>>
    /\ Release

stopped_keeps_session ==
    /\ stop = "release" /\ stop' = "done"
    /\ UNCHANGED <<start, refs, running, out, left, pinging, timer, inq, reports, early>>
    /\ Release

stopped ==
    /\ stop = "release" /\ stop' = "done" /\ refs' = FALSE
    /\ UNCHANGED <<start, running, out, left, pinging, timer, inq, reports, early>>
    /\ Release

-----------------------------------------------------------------------------
(* The pump.  The first failure while it runs is the one that is reported. *)

fail_always ==
    /\ running' = FALSE /\ reports' = Append(reports, stop)

fail ==
    /\ running' = FALSE /\ reports' = IF running THEN Append(reports, stop) ELSE reports

(* The system has packets; those that are no IPv4 are dropped.             *)
readPackets ==
    /\ out = "flow"
    /\ IF Pump /\ running THEN out' = "queued" /\ left' \in 0 .. MaxRead
       ELSE out' = "none" /\ UNCHANGED left
    /\ UNCHANGED <<start, stop, refs, running, pinging, timer, inq, reports, early>>
    /\ Release

(* Its batch comes up on the outbound queue.                               *)
dequeue ==
    /\ out = "queued" /\ ~pinging
    /\ IF Pump /\ running THEN out' = "sending" /\ UNCHANGED left ELSE out' = "none" /\ left' = 0
    /\ UNCHANGED <<start, stop, refs, running, pinging, timer, inq, reports, early>>
    /\ Release

(* One chunk through mousevpn_apple_send_packet_batch, or, after the last, *)
(* the next read.                                                          *)
send ==
    /\ out = "sending"
    /\ \/ left > 0 /\ left' = left - (IF left < Chunk THEN left ELSE Chunk) /\ UNCHANGED <<out, running, reports>>
       \/ left > 0 /\ out' = "none" /\ left' = 0 /\ fail
       \/ left = 0 /\ readNextBatch /\ UNCHANGED <<left, running, reports>>
    /\ UNCHANGED <<start, stop, refs, pinging, timer, inq, early>>
    /\ Release

sendKeepalive ==
    /\ \/ /\ timer /\ ~pinging /\ out # "sending" /\ Pump /\ running
          /\ pinging' = TRUE /\ UNCHANGED <<running, reports>>
       \/ pinging /\ pinging' = FALSE /\ (fail \/ UNCHANGED <<running, reports>>)
    /\ UNCHANGED <<start, stop, refs, out, left, timer, inq, early>>
    /\ Release

(* receiveLoop: a turn takes what mousevpn_apple_receive_packet_batch      *)
(* returns, nothing within 250 ms or a burst, and writes it to the system. *)
receiveLoop ==
    /\ \/ inq = "loop" /\ inq' = (IF Pump /\ running THEN "receive" ELSE "done") /\ UNCHANGED <<running, reports>>
       \/ inq = "receive" /\ inq' \in {"loop", "write"} /\ UNCHANGED <<running, reports>>
       \/ inq = "write" /\ inq' = "loop" /\ UNCHANGED <<running, reports>>
    /\ UNCHANGED <<start, stop, refs, out, left, pinging, timer, early>>
    /\ Release

receiveFails ==
    /\ inq \in {"receive", "write"} /\ inq' = "done" /\ fail
    /\ UNCHANGED <<start, stop, refs, out, left, pinging, timer, early>>
    /\ Release

Start == connect \/ setTunnelNetworkSettings \/ setRunning \/ startQueues \/ startKeepalive
Outbound == dequeue \/ send \/ (pinging /\ sendKeepalive)

Next ==
    \/ startTunnel \/ Start \/ stopTunnel \/ stopped
    \/ readPackets \/ dequeue \/ send \/ sendKeepalive \/ receiveLoop \/ receiveFails

Fairness == WF_vars(Start) /\ WF_vars(stopped) /\ WF_vars(Outbound) /\ WF_vars(receiveLoop)

Spec == Init /\ [][Next]_vars /\ Fairness

-----------------------------------------------------------------------------
(* The batches that cross the C interface.  A length is one element, a     *)
(* packet a sequence of them.                                              *)

encode(packets) == <<Len(packets)>> \o FlattenSeq([i \in DOMAIN packets |-> <<Len(packets[i])>> \o packets[i]])

Bad == <<"error">>

RECURSIVE frames(_, _, _, _)
frames(input, count, longest, packets) ==
    CASE count = 0 -> IF input = <<>> THEN packets ELSE Bad
      [] count > 0 /\ (input = <<>> \/ Head(input) = 0 \/ Head(input) > longest \/ Head(input) > Len(input) - 1) -> Bad
      [] OTHER -> frames(SubSeq(input, Head(input) + 2, Len(input)), count - 1, longest,
                         Append(packets, SubSeq(input, 2, Head(input) + 1)))

(* decode_batch, and PacketBatchCodec.decode with no longest packet.       *)
decode(input, longest) ==
    IF input = <<>> \/ Head(input) \notin 1 .. Chunk THEN Bad ELSE frames(Tail(input), Head(input), longest, <<>>)

-----------------------------------------------------------------------------
TypeOK ==
    /\ start \in {"idle", "connect", "settings", "run", "queue", "timer", "up", "failed"}
    /\ out \in {"none", "flow", "queued", "sending"} /\ left \in 0 .. MaxRead
    /\ inq \in {"none", "loop", "receive", "write", "done"} /\ Len(reports) \in Nat

Words(n) == UNION {[1 .. l -> 0 .. MaxFrame + 1] : l \in 0 .. n}
Batches == UNION {[1 .. l -> UNION {[1 .. k -> {1}] : k \in 1 .. MaxFrame}] : l \in 1 .. Chunk}

(* A batch arrives as it was sent, and nothing else is taken for one: the  *)
(* input must be some batch's encoding to the last element.                *)
BatchesCross ==
    /\ \A b \in Batches : decode(encode(b), MaxFrame) = b
    /\ \A input \in Words(3 + 2 * Chunk) : decode(input, MaxFrame) # Bad =>
         /\ Len(decode(input, MaxFrame)) <= Chunk
         /\ encode(decode(input, MaxFrame)) = input

(* Of the failures of both queues and the timer, one is reported to the    *)
(* system, and none that happens after a stop, unless the stop came while  *)
(* startTunnel was setting the pump going; a pump that runs keeps reading  *)
(* in both directions, whatever a read, a batch or a burst held.  The      *)
(* batches of the C interface, all of them, are checked before the start.  *)
PumpHeld ==
    /\ TypeOK /\ (start = "idle" => BatchesCross)
    /\ Len(reports) <= 1 /\ (~early => \A i \in DOMAIN reports : reports[i] = "idle")
    /\ stop = "idle" /\ start = "up" /\ ~running => reports # <<>>
    /\ Pump /\ running /\ start \in {"timer", "up"} => inq # "done" /\ out # "none"

(* A tunnel that is stopped once it is up, or failed, ends its queues and  *)
(* frees the native session.                                               *)
StopFrees == []<>(stop # "idle" /\ ~early => handle # "open" /\ inq \in {"none", "done"})
===============================================================================
