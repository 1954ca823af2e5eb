--------------------------------- MODULE MCAndroid ---------------------------------
(***************************************************************************)
(* Android, one of two parts of which is chosen: the threads of a native   *)
(* session, and the service that starts and stops sessions.  Two           *)
(* reconnects and two changes of network, so a change can hit a running    *)
(* reconnect and be followed by another; three generations and two         *)
(* sessions, so an old attempt, its successor and a stop overlap.          *)
(***************************************************************************)
EXTENDS Integers, Sequences, FiniteSets

VARIABLES
    which,
    registered, stopping, reconnecting, requested, changed, alive, wake, outStopping, outbound, in,
    receiver, transport, needed, due, fresh, out, include, granted, changes, owed, slipped,
    stopRequested, generation, handle, restart, diag, status, task, queue, x, m, stops, session, bound,
    network, posted, missed, late

Native == INSTANCE AndroidSession WITH
    MaxReconnects <- 2, MaxChanges <- 2

Service == INSTANCE AndroidService WITH
    MaxGeneration <- 3, MaxSessions <- 2, MaxChanges <- 1, MaxInitialAttempts <- 2

nativeVars == <<registered, stopping, reconnecting, requested, changed, alive, wake, outStopping, outbound,
                in, receiver, transport, needed, due, fresh, out, include, granted, changes, owed, slipped>>
serviceVars == <<stopRequested, generation, handle, restart, diag, status, task, queue, x, m, stops,
                 session, bound, network, posted, missed, late>>

One == which \in {"native", "service"}

allVars == <<which, nativeVars, serviceVars>>

(* One of the components is chosen and runs; the others stay in one of     *)
(* their initial states.                                                   *)
SumInit ==
    /\ One
    /\ Native!Init
    /\ Service!Init

SumNext ==
    \/ which = "native" /\ Native!Next /\ UNCHANGED <<which, serviceVars>>
    \/ which = "service" /\ Service!Next /\ UNCHANGED <<which, nativeVars>>

(* The threads that are fair.  Only one component runs, so the first thread *)
(* of each can share one condition, and so on.                             *)
Fair1 ==
    \/ which = "native" /\ Native!InNext /\ UNCHANGED <<which, serviceVars>>
    \/ which = "service" /\ Service!ExecutorNext /\ UNCHANGED <<which, nativeVars>>

Fair2 ==
    \/ which = "native" /\ Native!OutNext /\ UNCHANGED <<which, serviceVars>>
    \/ which = "service" /\ Service!StopExecuted /\ UNCHANGED <<which, nativeVars>>

Fair3 ==
    \/ which = "native" /\ Native!BackoffPassed /\ UNCHANGED <<which, serviceVars>>
    \/ which = "service" /\ Service!signalNetworkChange /\ UNCHANGED <<which, nativeVars>>

Fair4 ==
    \/ which = "service" /\ (Service!StopReadHandle \/ Service!StopClearedHandle \/ Service!StopSubmitted) /\ UNCHANGED <<which, nativeVars>>

SumSpec == SumInit /\ [][SumNext]_allVars /\ WF_allVars(Fair1) /\ WF_allVars(Fair2) /\ WF_allVars(Fair3) /\ WF_allVars(Fair4)

ASSUME Native!SessionAssumption /\ Service!ServiceAssumption

-------------------------------------------------------------------------------
(* While the loop of a native session lives, its sender, receiver and      *)
(* socket belong to one session, and one batch slips into a reconnect      *)
(* (android-native: session.rs).                                           *)
OneSession == which = "native" => Native!OneSession /\ Native!OneBatchSlips

(* stop returns, an end of the outgoing thread ends the session, and a     *)
(* change of network is followed by an attempt (session.rs).               *)
NativeReacts == Native!UploadsNotSilentlyDead /\ Native!StopReturns /\ Native!RequestFollowed

(* The status of a native session goes through the states the service is   *)
(* written for (session.rs, registry.rs).                                  *)
StatusKept == Native!StatusKept

(* The handle is that of the attempt in progress, and a disconnect lets at *)
(* most one handshake begin (MouseVpnService.kt).                          *)
ServiceHeld == which = "service" => Service!HandleOfThisAttempt /\ Service!OneLateHandshake

(* disconnect ends the attempt wherever it is, "Connected" is not shown    *)
(* for good without a session, and a session follows the selected network  *)
(* (MouseVpnService.kt).                                                   *)
ServiceSettles == Service!StopSettles /\ Service!FalseConnectedCleared /\ Service!NetworkFollowed
===============================================================================
