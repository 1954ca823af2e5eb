---------------------------- MODULE ClientLiveness ----------------------------
(***************************************************************************)
(* When the Linux client probes its peer and when it reconnects: Liveness  *)
(* of linux-client/src/liveness.rs, driven by the packet loop of           *)
(* packet_loop.rs, and the keepalives the loop waits for.                  *)
(*                                                                         *)
(* Time is counted in ticks; the loop runs at least once per tick (its     *)
(* receive times out after POLL_INTERVAL) and handles any number of        *)
(* packets and loss reports in between.  A reconnect blocks the loop, so   *)
(* it takes some ticks itself.                                             *)
(***************************************************************************)
EXTENDS Integers, Sequences, SequencesExt

CONSTANTS
    KeepaliveInterval,   \* KEEPALIVE_INTERVAL
    SessionTimeout,      \* SESSION_TIMEOUT
    MinBackoff,          \* MIN_RECONNECT_BACKOFF
    MaxBackoff,          \* MAX_RECONNECT_BACKOFF
    ResponseTimeout,     \* KEEPALIVE_RESPONSE_TIMEOUT
    MaxAttempt,          \* the longest a reconnect blocks the loop
    MaxTime              \* bound: the clock

LivenessAssumption ==
    /\ {KeepaliveInterval, SessionTimeout, MinBackoff, MaxBackoff,
        ResponseTimeout, MaxAttempt, MaxTime} \subseteq Nat
    /\ 0 < MinBackoff /\ MinBackoff < KeepaliveInterval
    /\ KeepaliveInterval < SessionTimeout
    /\ MinBackoff <= MaxBackoff /\ MaxBackoff <= SessionTimeout

VARIABLES
    now,             \* Instant::now(); the session starts at SessionTimeout
    peer_activity,   \* Liveness::peer_activity
    heartbeat,       \* Liveness::heartbeat
    retry,           \* Liveness::retry, or Never
    backoff,         \* Liveness::backoff
    lost,            \* Liveness::lost
    polled,          \* whether the loop ran maintain_liveness at this tick
    pending,         \* pending_keepalives
    sent, responses, timeouts,  \* the three metrics of RuntimeMetrics
    attempt,         \* history: when the last attempt started, or Never
    hurried,         \* history: attempts before their backoff, since contact
    contact          \* history: when the peer was last known to answer

livenessVars == <<peer_activity, heartbeat, retry, backoff, lost>>
metricVars == <<pending, sent, responses, timeouts>>
vars == <<now, livenessVars, polled, metricVars, attempt, hurried, contact>>

Never == -1

Init ==
    /\ now = SessionTimeout
    /\ peer_activity = now /\ heartbeat = now
    /\ retry = Never /\ backoff = MinBackoff /\ lost = FALSE
    /\ polled = FALSE
    /\ pending = <<>> /\ sent = 0 /\ responses = 0 /\ timeouts = 0
    /\ attempt = Never /\ hurried = 0 /\ contact = now

action ==
    IF /\ now - peer_activity >= SessionTimeout
       /\ retry = Never \/ now - retry >= backoff
    THEN "Reconnect"
    ELSE IF now - heartbeat >= KeepaliveInterval THEN "Keepalive" ELSE "None"

Tick ==
    /\ polled /\ now < MaxTime
    /\ now' = now + 1
    /\ polled' = FALSE
    /\ UNCHANGED <<livenessVars, metricVars, attempt, hurried, contact>>

\* An IP packet or a keepalive authenticated.
packet_received ==
    /\ peer_activity' = now
    /\ retry' = Never /\ backoff' = MinBackoff /\ lost' = FALSE
    /\ contact' = now /\ hurried' = 0
    /\ UNCHANGED <<now, heartbeat, polled, attempt>>

IpPacketReceived ==
    /\ packet_received
    /\ UNCHANGED metricVars

\* A reply is matched with the newest probe that waits for one.
KeepaliveReceived ==
    /\ packet_received
    /\ pending' = IF pending = <<>> THEN pending ELSE Front(pending)
    /\ responses' = IF pending = <<>> THEN responses ELSE responses + 1
    /\ UNCHANGED <<sent, timeouts>>

connection_lost_always ==
    /\ peer_activity' = now - SessionTimeout
    /\ retry' = Never /\ lost' = TRUE
    /\ UNCHANGED <<heartbeat, backoff>>

connection_lost ==
    /\ peer_activity' = IF lost THEN peer_activity ELSE now - SessionTimeout
    /\ retry' = IF lost THEN retry ELSE Never
    /\ lost' = TRUE
    /\ UNCHANGED <<heartbeat, backoff>>

\* The receive path, or the send thread's request, reports the peer gone.
LossReported ==
    /\ connection_lost
    /\ UNCHANGED <<now, polled, metricVars, attempt, hurried, contact>>

\* expire_keepalives runs before every maintain_liveness.
expire_keepalives(ps) == SelectSeq(ps, LAMBDA t : now - t < ResponseTimeout)

Expired == Len(pending) - Len(expire_keepalives(pending))

NothingDue ==
    /\ action = "None"
    /\ pending' = expire_keepalives(pending)
    /\ timeouts' = timeouts + Expired
    /\ polled' = TRUE
    /\ UNCHANGED <<now, livenessVars, sent, responses, attempt, hurried, contact>>

KeepaliveSent ==
    /\ action = "Keepalive"
    /\ heartbeat' = now
    /\ pending' = Append(expire_keepalives(pending), now)
    /\ timeouts' = timeouts + Expired
    /\ sent' = sent + 1
    /\ polled' = TRUE
    /\ UNCHANGED <<now, peer_activity, retry, backoff, lost, responses, attempt,
                   hurried, contact>>

\* The send fails because the peer is unavailable.
KeepaliveRefused ==
    /\ action = "Keepalive"
    /\ connection_lost
    /\ pending' = expire_keepalives(pending)
    /\ timeouts' = timeouts + Expired
    /\ polled' = TRUE
    /\ UNCHANGED <<now, sent, responses, attempt, hurried, contact>>

\* reconnect gives up every pending keepalive.
Attempted ==
    /\ action = "Reconnect"
    /\ pending' = <<>>
    /\ timeouts' = timeouts + Len(pending)
    /\ polled' = TRUE
    /\ attempt' = now
    /\ UNCHANGED <<sent, responses>>

Hurried == IF attempt >= contact /\ now - attempt < backoff THEN hurried + 1 ELSE hurried

\* refresh_server_route failed: there is no physical network yet.
network_unavailable ==
    /\ Attempted
    /\ retry' = now /\ backoff' = MinBackoff
    /\ hurried' = Hurried
    /\ UNCHANGED <<now, peer_activity, heartbeat, lost, contact>>

Doubled == IF 2 * backoff < MaxBackoff THEN 2 * backoff ELSE MaxBackoff

\* Neither migration nor a new handshake succeeds, after d ticks.
ReconnectFailed(d) ==
    /\ Attempted
    /\ retry' = now /\ backoff' = Doubled
    /\ now' = now + d
    /\ hurried' = Hurried
    /\ UNCHANGED <<peer_activity, heartbeat, lost, contact>>

Reconnected(d) ==
    /\ Attempted
    /\ now' = now + d
    /\ peer_activity' = now' /\ heartbeat' = now'
    /\ retry' = Never /\ backoff' = MinBackoff /\ lost' = FALSE
    /\ contact' = now' /\ hurried' = 0

maintain_liveness ==
    \/ NothingDue \/ KeepaliveSent \/ KeepaliveRefused
    \/ network_unavailable
    \/ \E d \in 0..MaxAttempt :
          now + d <= MaxTime /\ (ReconnectFailed(d) \/ Reconnected(d))

Next ==
    \/ Tick
    \/ IpPacketReceived \/ KeepaliveReceived \/ LossReported
    \/ maintain_liveness

Spec == Init /\ [][Next]_vars

-------------------------------------------------------------------------------

\* The instants are not in the future, and the backoff stays between its two
\* limits.
TypeOK ==
    /\ now \in Nat
    /\ peer_activity \in Nat /\ peer_activity <= now
    /\ heartbeat \in Nat /\ heartbeat <= now
    /\ retry \in Nat \cup {Never} /\ retry <= now
    /\ backoff \in MinBackoff..MaxBackoff
    /\ lost \in BOOLEAN /\ polled \in BOOLEAN
    /\ pending \in Seq(Nat)
    /\ {sent, responses, timeouts, hurried} \subseteq Nat
    /\ attempt \in Nat \cup {Never} /\ contact \in Nat

\* "a stream of ICMP errors cannot bypass the backoff": however many loss
\* reports arrive until the peer answers again, at most one attempt starts
\* before the backoff of the attempt before it has passed.
BackoffBypassedOnce == hurried <= 1

\* Silence never goes unnoticed: whatever reports arrive, the loop attempts to
\* reconnect at most SESSION_TIMEOUT after the peer was last heard, and again
\* at most MAX_RECONNECT_BACKOFF, or one blocking attempt, after the last try.
SilenceNoticed ==
    polled => \/ now - contact <= SessionTimeout
              \/ attempt # Never /\ now - attempt <= MaxBackoff + MaxAttempt

\* The metrics of the client add up: every keepalive that was sent is either
\* answered, given up, or one of those still waited for; and none is waited for
\* past its timeout, the queue being in order of sending.
KeepalivesAccounted ==
    /\ TypeOK
    /\ sent = responses + timeouts + Len(pending)
    /\ \A i, j \in 1..Len(pending) : i < j => pending[i] <= pending[j]
    /\ polled /\ pending # <<>> => now - pending[1] < ResponseTimeout
===============================================================================
