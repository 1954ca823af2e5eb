-------------------------------- MODULE DataPath --------------------------------
(***************************************************************************)
(* One direction of a session, from TunnelSender to TunnelReceiver         *)
(* (data-plane/src/tunnel.rs over crypto/src/session.rs), with the         *)
(* replay window of ReplayWindow at its end.  The client's end is          *)
(* AppleSession (apple-native/src/session.rs): send_packets and            *)
(* send_keepalive are called by different threads and share the sender     *)
(* under a lock; receive_packets collects a burst.  The server's end sends *)
(* or receives one datagram at a time.  The network loses, repeats, delays *)
(* and reorders.                                                           *)
(***************************************************************************)
EXTENDS Integers, FiniteSets

CONSTANTS
    WordBits, WindowWords, MaxSequence,   \* as in ReplayWindow
    MaxBatch                              \* MAX_PACKET_BATCH

VARIABLES
    direction,      \* "up": AppleSession sends; "down": it receives
    next_sequence,  \* TunnelSender::next_sequence
    used,           \* history: how often a number was used as a nonce
    frames,         \* history: datagrams given to the network
    batch,          \* packets send_packets still has to send; it holds the lock
    highest, seen, verdict, accepted,     \* the receiver's window
    reading,        \* receive_packets runs
    packets,        \* what its call has collected
    had_activity,   \* whether it heard the peer
    handed,         \* history: packets returned to the caller
    dropped         \* history: packets a failed call had collected

window == <<highest, seen, verdict, accepted>>
sending == <<next_sequence, used, frames, batch>>
receiving == <<reading, packets, had_activity, handed, dropped>>
vars == <<direction, sending, window, receiving>>

Window == INSTANCE ReplayWindow

PathAssumption == MaxBatch \in Nat \ {0} /\ MaxSequence > 0

Frame == [session : {0, 1}, sequence : 0 .. MaxSequence, kind : {"data", "keepalive"}]

(* A datagram of the session before may still be under way.                *)
Init ==
    /\ direction \in {"up", "down"}
    /\ next_sequence = 0 /\ used = [s \in 0 .. MaxSequence |-> 0] /\ batch = 0
    /\ frames \in {{}, {[session |-> 0, sequence |-> 0, kind |-> "data"]}}
    /\ Window!Init
    /\ reading = FALSE /\ packets = {} /\ had_activity = FALSE /\ handed = {} /\ dropped = {}

-----------------------------------------------------------------------------
(* TunnelSender.                                                           *)

encode_into_wrapping(kind, arrives) ==
    /\ used' = [used EXCEPT ![next_sequence] = @ + 1]
    /\ frames' = IF arrives THEN frames \cup {[session |-> 1, sequence |-> next_sequence, kind |-> kind]} ELSE frames
    /\ next_sequence' = IF next_sequence = MaxSequence THEN 0 ELSE next_sequence + 1

(* The last number is never used: its successor does not exist.            *)
encode_into(kind, arrives) ==
    /\ next_sequence < MaxSequence
    /\ used' = [used EXCEPT ![next_sequence] = @ + 1]
    /\ frames' = IF arrives THEN frames \cup {[session |-> 1, sequence |-> next_sequence, kind |-> kind]} ELSE frames
    /\ next_sequence' = next_sequence + 1

(* A call of send_packets takes the lock for all its packets.              *)
send_packets ==
    /\ direction = "up" /\ batch = 0 /\ batch' \in 1 .. MaxBatch
    /\ UNCHANGED <<direction, next_sequence, used, frames, window, receiving>>

(* Each is encoded and sent; the network may lose it.                      *)
send_packet ==
    /\ batch > 0 /\ batch' = batch - 1
    /\ \E arrives \in BOOLEAN : encode_into("data", arrives)
    /\ UNCHANGED <<direction, window, receiving>>

(* A packet that is no IPv4 or too long, an exhausted sender or a socket   *)
(* that refuses ends the call with an error; the number of a datagram the  *)
(* socket refused is gone.                                                 *)
send_fails ==
    /\ batch > 0 /\ batch' = 0
    /\ \/ UNCHANGED <<next_sequence, used, frames>>
       \/ encode_into("data", FALSE)
    /\ UNCHANGED <<direction, window, receiving>>

send_keepalive ==
    /\ direction = "up" /\ batch = 0
    /\ \E arrives \in BOOLEAN : encode_into("keepalive", arrives)
    /\ UNCHANGED <<direction, batch, window, receiving>>

(* The server's sender.                                                    *)
server_sends ==
    /\ direction = "down"
    /\ \E kind \in {"data", "keepalive"}, arrives \in BOOLEAN : encode_into(kind, arrives)
    /\ UNCHANGED <<direction, batch, window, receiving>>

-----------------------------------------------------------------------------
(* TunnelReceiver.                                                         *)

(* The header is compared, then the window and the tag decide.  What the   *)
(* tag admits was made by encode_into, which has checked what is checked   *)
(* of the inner packet afterwards: its kind, its IPv4 header and the MTU.  *)
decode_into(frame) ==
    IF frame.session # 1 THEN UNCHANGED window
    ELSE Window!DecryptRefused(frame.sequence) \/ Window!DecryptAccepted(frame.sequence)

Accepts(frame) == frame.session = 1 /\ Window!ensure_acceptable(frame.sequence) = "Ok"

server_receives ==
    /\ direction = "up"
    /\ \E frame \in frames : decode_into(frame)
    /\ UNCHANGED <<direction, sending, receiving>>

(* A datagram whose tag does not authenticate, damaged under way.          *)
Damaged ==
    /\ \E s \in 0 .. MaxSequence : Window!DecryptUnauthentic(s)
    /\ UNCHANGED <<direction, sending, receiving>>

(* receive_packets with room for so many packets.                          *)
receive_packets ==
    /\ direction = "down" /\ ~reading
    /\ reading' = TRUE /\ packets' = {} /\ had_activity' = FALSE
    /\ UNCHANGED <<direction, sending, window, handed, dropped>>

receive_data ==
    /\ reading /\ Cardinality(packets) < MaxBatch
    /\ \E frame \in frames :
         /\ decode_into(frame)
         /\ had_activity' = (had_activity \/ Accepts(frame))
         /\ packets' = IF Accepts(frame) /\ frame.kind = "data" THEN packets \cup {frame.sequence} ELSE packets
    /\ UNCHANGED <<direction, sending, reading, handed, dropped>>

(* The batch is full or nothing came in time.                              *)
receive_returns ==
    /\ reading /\ reading' = FALSE /\ handed' = handed \cup packets
    /\ packets' = {} /\ had_activity' = FALSE
    /\ UNCHANGED <<direction, sending, window, dropped>>

(* An error of the socket, or its shutdown by interrupt: what the call has *)
(* collected goes with it.                                                 *)
receive_fails ==
    /\ reading /\ reading' = FALSE /\ dropped' = dropped \cup packets
    /\ packets' = {} /\ had_activity' = FALSE
    /\ UNCHANGED <<direction, sending, window, handed>>

Next ==
    \/ send_packets \/ send_packet \/ send_fails \/ send_keepalive \/ server_sends
    \/ server_receives \/ Damaged
    \/ receive_packets \/ receive_data \/ receive_returns \/ receive_fails

Spec == Init /\ [][Next]_vars

-----------------------------------------------------------------------------
TypeOK ==
    /\ next_sequence \in 0 .. MaxSequence /\ frames \subseteq Frame /\ batch \in 0 .. MaxBatch
    /\ handed \cup dropped \cup packets \subseteq 0 .. MaxSequence

(* No number is ever used for two datagrams of a session, by whichever     *)
(* thread and even at the end of the numbers; the receiver accepts only    *)
(* what was sent in this session, and accepts what is new and not too old  *)
(* whatever was lost, repeated or overtaken.                               *)
NoncesOnce ==
    /\ TypeOK
    /\ \A s \in 0 .. MaxSequence : used[s] <= 1
    /\ \A s \in accepted : \E frame \in frames : frame.session = 1 /\ frame.sequence = s
    /\ \A frame \in frames :
         frame.session = 1 /\ frame.sequence \notin accepted
         /\ highest - frame.sequence < WordBits * WindowWords => Accepts(frame)

(* Every data packet the receiver accepted is in exactly one place: the    *)
(* running call's burst, which is never larger than asked for, a burst     *)
(* returned to the caller, or one that went with a failed call.            *)
BurstsPartition ==
    direction = "down" =>
      /\ {s \in accepted : [session |-> 1, sequence |-> s, kind |-> "data"] \in frames}
           = packets \cup handed \cup dropped
      /\ packets \cap (handed \cup dropped) = {} /\ handed \cap dropped = {}
      /\ Cardinality(packets) <= MaxBatch /\ (packets # {} => had_activity)
===============================================================================
