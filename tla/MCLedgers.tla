--------------------------------- MODULE MCLedgers ---------------------------------
(***************************************************************************)
(* The parts that count, one of which is chosen: the replay window, the    *)
(* path of packets through it, the handshake's deadlines, the liveness     *)
(* timers of the Linux client, and the accounting of traffic.              *)
(***************************************************************************)
EXTENDS ReplayWindow

VARIABLES
    which,
    direction, next_sequence, used, frames, batch, dp_highest, dp_seen, dp_verdict, dp_accepted, reading,
    packets, had_activity, handed, dropped,
    client, at, ch_now, begun, deadline, started, next_retransmit, covers, session, ch_sent, answers,
    stopping, stopped_at, result,
    cl_now, peer_activity, heartbeat, retry, backoff, cl_lost, polled, pending, cl_sent, responses,
    timeouts, attempt, hurried, contact,
    ts_now, up, boot, counter, rows, migrated, flush, report, added, ts_lost, expired

Meters == {"upload", "download"}

\* One unit in the oldest hour of the legacy file.
OneOldUnit == [h \in 0 .. 2 |-> [m \in Meters |-> IF h = 0 /\ m = "upload" THEN 1 ELSE 0]]

Path == INSTANCE DataPath WITH
    WordBits <- 1, WindowWords <- 2, MaxSequence <- 4, MaxBatch <- 2, highest <- dp_highest,
    seen <- dp_seen, verdict <- dp_verdict, accepted <- dp_accepted

Hand == INSTANCE ClientHandshake WITH
    TIMEOUT <- 7, RETRANSMIT <- 2, MaxCovers <- 3, MaxAttempts <- 3, now <- ch_now, sent <- ch_sent

Timers == INSTANCE ClientLiveness WITH
    KeepaliveInterval <- 2, SessionTimeout <- 4, MinBackoff <- 1, MaxBackoff <- 3, ResponseTimeout <- 4,
    MaxAttempt <- 1, MaxTime <- 15, now <- cl_now, lost <- cl_lost, sent <- cl_sent

Traffic == INSTANCE TrafficStore WITH
    Meter <- Meters, RetentionHours <- 1, ReportHours <- 2, Legacy <- OneOldUnit, MaxAdded <- 2,
    MaxHour <- 2, MaxBoot <- 2, now <- ts_now, lost <- ts_lost

pathVars == <<direction, next_sequence, used, frames, batch, dp_highest, dp_seen, dp_verdict, dp_accepted,
              reading, packets, had_activity, handed, dropped>>
handshakeVars == <<client, at, ch_now, begun, deadline, started, next_retransmit, covers, session, ch_sent,
                   answers, stopping, stopped_at, result>>
timersVars == <<cl_now, peer_activity, heartbeat, retry, backoff, cl_lost, polled, pending, cl_sent,
                responses, timeouts, attempt, hurried, contact>>
trafficVars == <<ts_now, up, boot, counter, rows, migrated, flush, report, added, ts_lost, expired>>

One == which \in {"window", "path", "handshake", "timers", "traffic"}

allVars == <<which, vars, pathVars, handshakeVars, timersVars, trafficVars>>

(* One of the components is chosen and runs; the others stay in one of     *)
(* their initial states.                                                   *)
SumInit ==
    /\ One
    /\ Init
    /\ Path!Init /\ (which # "path" => direction = "up" /\ frames = {})
    /\ Hand!Init /\ (which # "handshake" => client = "linux")
    /\ Timers!Init
    /\ Traffic!Init

SumNext ==
    \/ which = "window" /\ Next /\ UNCHANGED <<which, pathVars, handshakeVars, timersVars, trafficVars>>
    \/ which = "path" /\ Path!Next /\ UNCHANGED <<which, vars, handshakeVars, timersVars, trafficVars>>
    \/ which = "handshake" /\ Hand!Next /\ UNCHANGED <<which, vars, pathVars, timersVars, trafficVars>>
    \/ which = "timers" /\ Timers!Next /\ UNCHANGED <<which, vars, pathVars, handshakeVars, trafficVars>>
    \/ which = "traffic" /\ Traffic!Next /\ UNCHANGED <<which, vars, pathVars, handshakeVars, timersVars>>

SumSpec == SumInit /\ [][SumNext]_allVars

ASSUME Hand!HandshakeAssumption /\ Timers!LivenessAssumption /\ Traffic!TrafficAssumption

-------------------------------------------------------------------------------
(* A sequence number is used for one packet of a session, however a burst  *)
(* is cut and whoever sends, and what a burst delivers was sent, once, in  *)
(* calls that share it out (tunnel.rs, session.rs).                        *)
PathExact == which = "path" => Path!NoncesOnce /\ Path!BurstsPartition

(* A handshake ends by its deadline or soon after a stop, and with the     *)
(* keys of the request it sent last (handshake.rs of the clients).         *)
HandshakeBounded == which = "handshake" => Hand!HandshakeBounded

(* A loss report skips the backoff once, silence is noticed, and every     *)
(* keepalive is answered or counted as lost (liveness.rs).                 *)
TimersRight == which = "timers" => Timers!BackoffBypassedOnce /\ Timers!SilenceNoticed /\ Timers!KeepalivesAccounted

(* No unit of traffic is lost or counted twice but those a crash takes,    *)
(* and no report shows more than was carried (traffic.rs).                 *)
TrafficConserved == which = "traffic" => Traffic!TrafficConserved /\ Traffic!ReportNeverOvercounts
===============================================================================
