---------------------------- MODULE AndroidService -----------------------------
(***************************************************************************)
(* The Android VPN service (MouseVpnService.kt) over the native library:   *)
(* the main thread starts, disconnects and destroys, an executor runs the  *)
(* connection attempts, a second executor stops native sessions, and the   *)
(* connectivity callbacks ask for a rebuild.  The native side is the       *)
(* registry of handles (registry.rs, jni_api.rs); a running session does   *)
(* what NativeSession promises.                                            *)
(*                                                                         *)
(* A step is one access to the fields the threads share with the local     *)
(* work around it.  Handles are numbers, 0 for none.                       *)
(***************************************************************************)
EXTENDS Naturals, Sequences, SequencesExt

CONSTANTS
    MaxGeneration,        \* bound: connects and disconnects
    MaxSessions,          \* bound: handshakes that succeed
    MaxChanges,           \* bound: changes of the selected network
    MaxInitialAttempts    \* MAX_INITIAL_CONNECT_ATTEMPTS

ServiceAssumption ==
    /\ MaxGeneration \in Nat /\ MaxSessions \in Nat /\ MaxChanges \in Nat
    /\ MaxInitialAttempts \in Nat \ {0}

VARIABLES
    stopRequested, generation, handle,   \* fields of the service
    restart,         \* networkRestartRequested
    diag,            \* diagnosticSessionId names an open row
    status,          \* currentStatus
    task,            \* the generation of the task field, 0 for none
    queue,           \* tasks the executor has not begun
    x,               \* the executor's thread
    m,               \* the main thread
    stops,           \* handles queued for the stop executor
    session,         \* native sessions by handle
    bound,           \* the network each session's socket is bound to
    network,         \* the selected network
    posted,          \* signalNetworkChange is waiting in the handler
    missed,          \* history: a signal came while the handshake was in flight
    late             \* history: handshakes begun since the last disconnect by
                     \* an attempt it was meant to end

fields == <<stopRequested, generation, task, queue>>
native == <<session, bound>>
net == <<network, posted, missed>>
vars == <<fields, handle, restart, diag, status, x, m, stops, native, net, late>>

Handles == 1..MaxSessions
Up == {"running", "reconnecting"}

Init ==
    /\ stopRequested = FALSE /\ generation = 0 /\ handle = 0 /\ restart = FALSE
    /\ diag = FALSE /\ status = "Disconnected" /\ task = 0 /\ queue = <<>>
    /\ x = [at |-> "idle", gen |-> 0, h |-> 0, cur |-> 0, fd |-> "none",
            failures |-> 0, connected |-> FALSE, interrupted |-> FALSE]
    /\ m = [at |-> "ready", why |-> "", cur |-> 0]
    /\ stops = {}
    /\ session = [h \in Handles |-> "none"] /\ bound = [h \in Handles |-> 0]
    /\ network = 1 /\ posted = FALSE /\ missed = FALSE
    /\ late = 0

-------------------------------------------------------------------------------
(* The main thread. *)

InProgress == task # 0 /\ (x.gen = task \/ Contains(queue, task))

\* A connect intent while a task is in progress changes nothing.
onStartCommand ==
    /\ m.at = "ready" /\ ~InProgress /\ generation < MaxGeneration
    /\ stopRequested' = FALSE
    /\ generation' = generation + 1
    /\ task' = generation + 1 /\ queue' = Append(queue, generation + 1)
    /\ UNCHANGED <<handle, restart, diag, status, x, m, stops, native, net, late>>

\* Future.cancel(true): a running task is interrupted, a waiting one dropped.
cancel(t) ==
    /\ x' = [x EXCEPT !.interrupted = @ \/ (t # 0 /\ x.gen = t)]
    /\ queue' = SelectSeq(queue, LAMBDA g : g # t)

\* disconnect, onRevoke and onDestroy; only onDestroy cancels before it reads
\* the handle.
StopBegun(why) ==
    /\ m.at = "ready" /\ generation < MaxGeneration
    /\ m' = [at |-> "read", why |-> why, cur |-> 0]
    /\ stopRequested' = TRUE /\ generation' = generation + 1
    /\ late' = 0
    /\ IF why = "destroy" THEN cancel(task) ELSE UNCHANGED <<x, queue>>
    /\ UNCHANGED <<task, handle, restart, diag, status, stops, native, net>>

\* The handle is read, and then finishDiagnostics closes the row.
StopReadHandle ==
    /\ m.at = "read"
    /\ m' = [m EXCEPT !.at = "clear", !.cur = handle]
    /\ diag' = FALSE
    /\ UNCHANGED <<fields, handle, restart, status, x, stops, native, net, late>>

StopClearedHandle ==
    /\ m.at = "clear"
    /\ m' = [m EXCEPT !.at = "submit"]
    /\ handle' = 0
    /\ UNCHANGED <<fields, restart, diag, status, x, stops, native, net, late>>

\* stopNativeAsync and cancel; onDestroy shuts the executors down instead.
StopSubmitted ==
    /\ m.at = "submit"
    /\ m' = [m EXCEPT !.at = IF m.why = "destroy" THEN "destroyed" ELSE "ready"]
    /\ stops' = stops \cup ({m.cur} \ {0})
    /\ \/ /\ m.why = "disconnect"
          /\ cancel(task)
          /\ task' = 0 /\ status' = "Disconnected"
          /\ UNCHANGED posted
       \/ /\ m.why = "destroy"
          /\ x' = [x EXCEPT !.interrupted = @ \/ x.gen # 0]
          /\ queue' = <<>> /\ posted' = FALSE
          /\ UNCHANGED <<task, status>>
    /\ UNCHANGED <<stopRequested, generation, handle, restart, diag, native,
                   network, missed, late>>

\* The connectivity thread selects another network and posts a delayed signal.
refreshUnderlyingNetwork ==
    /\ m.at # "destroyed" /\ network <= MaxChanges
    /\ network' = network + 1 /\ posted' = TRUE
    /\ UNCHANGED <<fields, handle, restart, diag, status, x, m, stops, native, missed, late>>

signalNetworkChange_connected ==
    /\ m.at = "ready" /\ posted
    /\ posted' = FALSE
    /\ restart' = (restart \/ (handle # 0 /\ status = "Connected"))
    /\ missed' = (missed \/ (handle = 0 /\ x.at \in {"negotiate", "publish"}))
    /\ UNCHANGED <<fields, handle, diag, status, x, m, stops, native, network, late>>

signalNetworkChange ==
    /\ m.at = "ready" /\ posted
    /\ posted' = FALSE
    /\ restart' = (restart \/ handle # 0)
    /\ missed' = (missed \/ (handle = 0 /\ x.at \in {"negotiate", "publish"}))
    /\ UNCHANGED <<fields, handle, diag, status, x, m, stops, native, network, late>>

MainNext ==
    \/ onStartCommand \/ \E why \in {"disconnect", "destroy"} : StopBegun(why)
    \/ StopReadHandle \/ StopClearedHandle \/ StopSubmitted
    \/ refreshUnderlyingNetwork \/ signalNetworkChange

-------------------------------------------------------------------------------
(* The native library. *)

\* stop takes the session out of the registry and joins its threads; a session
\* that start has taken out of the registry is not found.
Stopped(h) ==
    IF h # 0 /\ session[h] # "taken" THEN [session EXCEPT ![h] = "none"] ELSE session

StopExecuted ==
    \E h \in stops :
        /\ stops' = stops \ {h}
        /\ session' = Stopped(h)
        /\ UNCHANGED <<fields, handle, restart, diag, status, x, m, bound, net, late>>

\* What NativeSession promises; a reconnect binds its socket anew.
SessionMoves ==
    \E h \in Handles :
        /\ \/ /\ session[h] = "running"
              /\ session' = [session EXCEPT ![h] = "reconnecting"]
              /\ UNCHANGED bound
           \/ /\ session[h] = "reconnecting"
              /\ session' = [session EXCEPT ![h] = "running"]
              /\ bound' = [bound EXCEPT ![h] = network]
           \/ /\ session[h] = "reconnecting"
              /\ session' = [session EXCEPT ![h] = "parameters-changed"]
              /\ UNCHANGED bound
           \/ /\ session[h] \in Up
              /\ session' = [session EXCEPT ![h] = "stopped"]
              /\ UNCHANGED bound
        /\ UNCHANGED <<fields, handle, restart, diag, status, x, m, stops, net, late>>

-------------------------------------------------------------------------------
(* The executor. *)

isAttemptActive == ~stopRequested /\ ~x.interrupted /\ generation = x.gen

Goto(place) ==
    /\ x' = [x EXCEPT !.at = place]
    /\ UNCHANGED <<fields, handle, restart, diag, status, m, stops, native, net, late>>

TaskBegun ==
    /\ x.at = "idle" /\ queue # <<>>
    /\ x' = [x EXCEPT !.at = "loop", !.gen = Head(queue), !.failures = 0,
                      !.connected = FALSE, !.interrupted = FALSE]
    /\ queue' = Tail(queue)
    /\ UNCHANGED <<stopRequested, generation, task, handle, restart, diag, status,
                   m, stops, native, net, late>>

\* The task is done.
Return(shown) ==
    /\ x' = [x EXCEPT !.at = "idle", !.gen = 0, !.h = 0, !.cur = 0, !.fd = "none"]
    /\ status' = shown
    /\ UNCHANGED <<fields, handle, restart, diag, m, stops, native, net, late>>

AttemptChecked ==
    /\ x.at = "loop"
    /\ IF isAttemptActive THEN Goto("begin") ELSE Return(status)

\* connectOnce: forgets earlier changes of network and opens a row.
AttemptBegun ==
    /\ x.at = "begin"
    /\ x' = [x EXCEPT !.at = "prepare", !.h = 0, !.cur = 0, !.fd = "none"]
    /\ restart' = FALSE /\ status' = "Connecting"
    /\ diag' = TRUE
    /\ UNCHANGED <<fields, handle, m, stops, native, net, late>>

\* prepare binds a protected socket and sends the handshake.  A socket that
\* cannot be bound takes the default route, here the selected network as well.
PrepareBegun ==
    /\ x.at = "prepare"
    /\ x' = [x EXCEPT !.at = "negotiate", !.cur = network]
    /\ missed' = FALSE
    /\ late' = IF (stopRequested \/ generation # x.gen) /\ late < 2 THEN late + 1 ELSE late
    /\ UNCHANGED <<fields, handle, restart, diag, status, m, stops, native, network, posted>>

\* insert_pending
Prepared ==
    /\ x.at = "negotiate"
    /\ \E h \in Handles :
        /\ \A g \in Handles : (g < h <=> bound[g] # 0)
        /\ session' = [session EXCEPT ![h] = "pending"]
        /\ bound' = [bound EXCEPT ![h] = x.cur]
        /\ x' = [x EXCEPT !.at = "publish", !.h = h, !.cur = 0]
    /\ UNCHANGED <<fields, handle, restart, diag, status, m, stops, net, late>>

HandlePublished ==
    /\ x.at = "publish"
    /\ handle' = x.h
    /\ x' = [x EXCEPT !.at = "establish"]
    /\ UNCHANGED <<fields, restart, diag, status, m, stops, native, net, late>>

\* The TUN is created, and the attempt checked on both sides of that.
Establish ==
    /\ x.at = "establish"
    /\ IF isAttemptActive
         THEN /\ x' = [x EXCEPT !.at = "detach", !.fd = "open"]
              /\ UNCHANGED <<fields, handle, restart, diag, status, m, stops, native,
                             net, late>>
         ELSE Goto("interrupted")

Detach ==
    /\ x.at = "detach"
    /\ IF isAttemptActive
         THEN /\ x' = [x EXCEPT !.at = "detached", !.fd = "detached"]
              /\ UNCHANGED <<fields, handle, restart, diag, status, m, stops, native,
                             net, late>>
         ELSE Goto("interrupted")

\* start is called with the handle field, which a stop may have cleared.
StartCalled ==
    /\ x.at = "detached"
    /\ x' = [x EXCEPT !.at = "start", !.cur = handle]
    /\ UNCHANGED <<fields, handle, restart, diag, status, m, stops, native, net, late>>

\* take_pending: an unknown handle is an error, and nobody has the descriptor.
take_pending ==
    /\ x.at = "start"
    /\ IF x.cur # 0 /\ session[x.cur] = "pending"
         THEN /\ session' = [session EXCEPT ![x.cur] = "taken"]
              /\ x' = [x EXCEPT !.at = "spawn"]
         ELSE /\ x' = [x EXCEPT !.at = "exception", !.fd = "leaked"]
              /\ UNCHANGED session
    /\ UNCHANGED <<fields, handle, restart, diag, status, m, stops, bound, net, late>>

\* spawn, which closes the descriptor when it fails, and insert_running
insert_running ==
    /\ x.at = "spawn"
    /\ \/ /\ session' = [session EXCEPT ![x.cur] = "running"]
          /\ x' = [x EXCEPT !.at = "connected", !.fd = "none"]
       \/ /\ session' = [session EXCEPT ![x.cur] = "none"]
          /\ x' = [x EXCEPT !.at = "exception", !.fd = "none"]
    /\ UNCHANGED <<fields, handle, restart, diag, status, m, stops, bound, net, late>>

\* "Connected" is shown, and monitor is given the handle field.
Connected ==
    /\ x.at = "connected"
    /\ status' = "Connected"
    /\ x' = [x EXCEPT !.at = "monitor", !.cur = handle, !.connected = TRUE]
    /\ UNCHANGED <<fields, handle, restart, diag, m, stops, native, net, late>>

\* No profile, no network, no answer, no TUN.
SetupFails ==
    /\ x.at \in {"prepare", "negotiate", "establish"}
    /\ x.at = "establish" => isAttemptActive
    /\ Goto("exception")

\* catch (InterruptedException)
CaughtInterrupted ==
    /\ x.at = "interrupted"
    /\ session' = Stopped(handle)
    /\ handle' = 0
    /\ x' = [x EXCEPT !.at = "stopped", !.fd = "none"]
    /\ UNCHANGED <<fields, restart, diag, status, m, stops, bound, net, late>>

\* catch (Exception)
CaughtException ==
    /\ x.at = "exception"
    /\ diag' = FALSE
    /\ session' = Stopped(handle)
    /\ handle' = 0
    /\ x' = [x EXCEPT !.at = "failed", !.fd = IF @ = "leaked" THEN @ ELSE "none"]
    /\ UNCHANGED <<fields, restart, status, m, stops, bound, net, late>>

Watching == x.at = "monitor" /\ ~x.interrupted /\ handle = x.cur

StatusOf(h) == IF h = 0 \/ session[h] = "none" THEN "stopped" ELSE session[h]

\* The loop of monitor ends: interrupted, or the handle is no longer its own.
MonitorLeft == x.at = "monitor" /\ ~Watching /\ Goto("stopped")

\* The attempt ends: its row is closed; its session is to be stopped.
MonitorEnds(next) ==
    /\ diag' = FALSE
    /\ x' = [x EXCEPT !.at = next]
    /\ UNCHANGED <<fields, handle, status, m, stops, native, net, late>>

MonitorRestarts ==
    /\ Watching /\ restart
    /\ restart' = FALSE
    /\ MonitorEnds("end-again")

MonitorLost ==
    /\ Watching /\ ~restart
    /\ StatusOf(x.cur) \in {"parameters-changed", "stopped"}
    /\ UNCHANGED restart
    /\ MonitorEnds(IF StatusOf(x.cur) = "stopped" THEN "end-retry" ELSE "end-again")

MonitorEnded_keeps_handle ==
    /\ x.at \in {"end-again", "end-retry"}
    /\ session' = Stopped(x.cur)
    /\ x' = [x EXCEPT !.at = IF @ = "end-again" THEN "again" ELSE "retry"]
    /\ UNCHANGED <<fields, handle, restart, diag, status, m, stops, bound, net, late>>

MonitorEnded ==
    /\ x.at \in {"end-again", "end-retry"}
    /\ session' = Stopped(x.cur)
    /\ handle' = 0
    /\ x' = [x EXCEPT !.at = IF @ = "end-again" THEN "again" ELSE "retry"]
    /\ UNCHANGED <<fields, restart, diag, status, m, stops, bound, net, late>>

MonitorShows ==
    /\ Watching /\ ~restart
    /\ \/ StatusOf(x.cur) = "reconnecting" /\ status' = "Reconnecting"
       \/ StatusOf(x.cur) = "running" /\ status' = "Connected"
    /\ UNCHANGED <<fields, handle, restart, diag, x, m, stops, native, net, late>>

recordFailure == ~x.connected /\ x.failures + 1 >= MaxInitialAttempts

\* runConnectionLoop, after an attempt: stop, give up, go on at once or wait.
AttemptOver ==
    /\ x.at \in {"stopped", "failed", "again", "retry"}
    /\ IF ~isAttemptActive \/ x.at = "stopped" THEN Return(status)
       ELSE \/ /\ x.at = "failed" /\ recordFailure
               /\ Return("Failed")
            \/ /\ x.at = "again"
               /\ Goto("loop")
            \/ /\ x.at \in {"failed", "retry"} /\ ~(x.at = "failed" /\ recordFailure)
               /\ status' = "Connecting"
               /\ x' = [x EXCEPT !.at = "wait",
                                 !.failures = IF x.at = "failed" /\ ~x.connected
                                                THEN @ + 1 ELSE @]
               /\ UNCHANGED <<fields, handle, restart, diag, m, stops, native, net,
                              late>>

\* waitForRetry: the delay, or an interruption of it.
Waited == x.at = "wait" /\ (IF isAttemptActive THEN Goto("loop") ELSE Return(status))

ExecutorNext ==
    \/ TaskBegun \/ AttemptChecked \/ AttemptBegun \/ PrepareBegun \/ Prepared
    \/ HandlePublished \/ Establish \/ Detach \/ StartCalled \/ take_pending \/ insert_running
    \/ Connected \/ SetupFails \/ CaughtInterrupted \/ CaughtException
    \/ MonitorLeft \/ MonitorRestarts \/ MonitorLost \/ MonitorEnded \/ MonitorShows
    \/ AttemptOver \/ Waited

-------------------------------------------------------------------------------

Next == MainNext \/ StopExecuted \/ SessionMoves \/ ExecutorNext

Spec == Init /\ [][Next]_vars

\* The threads run; a main-thread handler that began is finished.
FairSpec ==
    /\ Spec
    /\ WF_vars(ExecutorNext) /\ WF_vars(StopExecuted) /\ WF_vars(signalNetworkChange)
    /\ WF_vars(StopReadHandle \/ StopClearedHandle \/ StopSubmitted)

-------------------------------------------------------------------------------

\* Fields hold what their types allow.
TypeOK ==
    /\ {stopRequested, restart, diag, posted} \subseteq BOOLEAN
    /\ generation \in 0..MaxGeneration /\ task \in 0..generation
    /\ queue \in Seq(1..generation) /\ handle \in 0..MaxSessions
    /\ status \in {"Disconnected", "Connecting", "Connected", "Reconnecting", "Failed"}
    /\ x.gen \in 0..generation /\ x.failures \in 0..MaxInitialAttempts - 1
    /\ x.fd \in {"none", "open", "detached", "leaked"}
    /\ stops \subseteq Handles
    /\ session \in [Handles -> {"none", "pending", "taken", "running",
                                "reconnecting", "parameters-changed", "stopped"}]

\* Every thread of the service is at rest.
Quiet == m.at \in {"ready", "destroyed"} /\ x.at = "idle" /\ queue = <<>> /\ stops = {}

\* The handle is the session of the attempt in progress: a later attempt, or a
\* signal that the network changed, never acts on the session of an earlier one.
\* (onDestroy may interrupt the attempt before it takes the handle.)
HandleOfThisAttempt ==
    /\ TypeOK
    /\ m.at \notin {"read", "clear"} =>
          /\ handle # 0 => handle = x.h
          /\ x.at \in {"idle", "loop", "begin", "prepare", "negotiate", "wait"} => handle = 0

\* "A manual disconnect must not start an automatic reconnect": an attempt that
\* a disconnect was meant to end begins at most the one handshake it was about
\* to begin, even if the user connects again meanwhile.
OneLateHandshake == late <= 1

\* disconnect and destroy end the attempt, wherever it is.
StopSettles == []<>(stopRequested => x.at = "idle")

\* "The VPN is not in a false state Connected": while nobody asked to stop, the
\* end of the session is noticed and shown.
FalseConnectedCleared ==
    []<>(status = "Connected" => stopRequested \/ (handle # 0 /\ session[handle] \in Up))

\* A running session comes to be bound to the selected network, whenever it
\* changes: before, during or after an attempt.  The exception is a change whose
\* signal comes during the handshake, when the handle is still zero.
NetworkFollowed ==
    []<>(Watching /\ x.cur # 0 /\ StatusOf(x.cur) = "running" =>
           bound[x.cur] = network \/ missed)

\* "A manual disconnect must not start an automatic reconnect": no native
\* session survives the service's threads.
NoSessionLeft == Quiet => \A h \in Handles : session[h] \notin Up
===============================================================================
