--------------------------------- MODULE MacApp ---------------------------------
(***************************************************************************)
(* The macOS application and its helpers' files: VPNController.swift, the  *)
(* termination callback of MouseVPNApp.swift, and on the helper's side     *)
(* run_main, the PID file and state.rs of crates/macos-client.  The        *)
(* controller's functions run on the main actor and are interleaved where  *)
(* they await; helpers share state.json, helper.pid and the stop request   *)
(* with it and with each other.  What a helper does to the network is the  *)
(* module MacClient.                                                       *)
(***************************************************************************)
EXTENDS Naturals, FiniteSets

CONSTANTS
    Helper,      \* the attempts to connect, each with the helper it starts: 1 .. n
    Stop         \* bound: calls of disconnect that overlap

Status == {"disconnected", "connecting", "connected", "reconnecting", "disconnecting", "error"}

VARIABLES
    up,          \* whether the application runs
    status,
    attempting,  \* connectionAttemptActive
    requested,   \* disconnectRequested
    task,        \* installAndConnect of each attempt: "unused", "prompt", "poll", "done", or "orphan",
                 \* a dialog whose application is gone
    stopper,     \* each disconnect: "idle", "poll", "prompt", "wait"
    victim,      \* the helper it tells to end, or 0
    helper,      \* each helper: "unused", "root", "alone", "connecting", "connected",
                 \* "reconnecting", "stopping" (it has handled a SIGTERM), "ending", "gone"
    stop_file,
    state_file,  \* state.json: <<status, PID or 0>>
    pid_file,    \* helper.pid: a PID, or 0
    two,         \* history: two helpers were between reading and writing the PID file at once
    overwritten  \* history: the application, or another helper, wrote over the state of a helper
                 \* that runs

controller == <<up, status, attempting, requested, task, stopper, victim>>
files == <<stop_file, state_file, pid_file>>
vars == <<controller, helper, files, two, overwritten>>

Exists(h) == h # 0 /\ helper[h] \notin {"unused", "gone"}
Running == {h \in Helper : helper[h] \in {"connecting", "connected", "reconnecting", "stopping", "ending"}}
isConnecting == status \in {"connecting", "reconnecting", "disconnecting"}

Init ==
    /\ up = TRUE /\ status = "disconnected" /\ attempting = FALSE /\ requested = FALSE
    /\ task = [h \in Helper |-> "unused"] /\ stopper = [c \in Stop |-> "idle"] /\ victim = [c \in Stop |-> 0]
    /\ helper = [h \in Helper |-> "unused"]
    /\ stop_file = FALSE /\ state_file = <<"disconnected", 0>> /\ pid_file = 0
    /\ two = FALSE /\ overwritten = FALSE

-----------------------------------------------------------------------------
(* refreshFromStateFile, called by the timer and by the functions that     *)
(* wait: what status becomes and whether a disconnect is over.             *)

Refreshed(active) ==
    CASE requested -> IF Exists(state_file[2]) THEN "disconnecting" ELSE "disconnected"
      [] ~requested /\ state_file[1] = "connecting" /\ state_file[2] = 0 /\ ~active -> "disconnected"
      [] ~requested /\ state_file[1] \in {"connected", "connecting", "reconnecting"}
           /\ state_file[2] # 0 /\ ~Exists(state_file[2]) -> "disconnected"
      [] OTHER -> state_file[1]

refreshFromStateFile ==
    /\ up /\ status' = Refreshed(attempting)
    /\ requested' = (requested /\ Refreshed(attempting) = "disconnecting")
    /\ UNCHANGED <<up, attempting, task, stopper, victim, helper, files, two, overwritten>>

(* installAndConnect up to the dialog.                                     *)
installAndConnect(h) ==
    /\ up /\ status \in {"disconnected", "error"}
    /\ task[h] = "unused" /\ \A g \in Helper : g < h => task[g] # "unused"
    /\ attempting' = TRUE /\ task' = [task EXCEPT ![h] = "prompt"]
    /\ stop_file' = FALSE /\ state_file' = <<"connecting", 0>> /\ status' = "connecting"
    /\ overwritten' = (overwritten \/ \E g \in Helper : Exists(g))
    /\ UNCHANGED <<up, requested, stopper, victim, helper, pid_file, two>>

(* The answer to the dialog.  An attempt that ends, ends the flag.         *)
runPrivileged(h) ==
    /\ \/ /\ task[h] \in {"prompt", "orphan"} /\ helper' = [helper EXCEPT ![h] = "root"]
          /\ task' = [task EXCEPT ![h] = IF @ = "prompt" THEN "poll" ELSE "done"]
          /\ UNCHANGED <<status, attempting>>
       \/ /\ task[h] = "prompt" /\ task' = [task EXCEPT ![h] = "done"]
          /\ status' = "error" /\ attempting' = FALSE /\ UNCHANGED helper
    /\ UNCHANGED <<up, requested, stopper, victim, files, two, overwritten>>

(* Its polling: connected, over, or out of time.                           *)
PollStart(h) ==
    /\ up /\ task[h] = "poll"
    /\ LET now == Refreshed(attempting)
       IN  /\ requested' = (requested /\ now = "disconnecting")
           /\ \/ now \in {"connected", "error", "disconnected"} /\ status' = now
              \/ now \notin {"connected", "error", "disconnected"} /\ status' = "error"
    /\ task' = [task EXCEPT ![h] = "done"] /\ attempting' = FALSE
    /\ UNCHANGED <<up, stopper, victim, helper, files, two, overwritten>>

(* The button stays enabled while a disconnect is on its way.              *)
disconnect(c) ==
    /\ up /\ (status = "connected" \/ isConnecting) /\ stopper[c] = "idle"
    /\ requested' = TRUE /\ status' = "disconnecting" /\ stop_file' = TRUE
    /\ stopper' = [stopper EXCEPT ![c] = "poll"]
    /\ UNCHANGED <<up, attempting, task, victim, helper, state_file, pid_file, two, overwritten>>

Returns(c, now) ==
    /\ stopper' = [stopper EXCEPT ![c] = "idle"] /\ victim' = [victim EXCEPT ![c] = 0]
    /\ requested' = FALSE /\ status' = now

(* Ten seconds of polling, then SIGTERM if there is a helper and the user  *)
(* allows it.                                                              *)
PollStop(c) ==
    /\ up /\ stopper[c] = "poll"
    /\ LET now == Refreshed(attempting)
       IN  \/ now = "disconnected" /\ Returns(c, now)
           \/ /\ now # "disconnected" /\ Exists(pid_file) /\ victim' = [victim EXCEPT ![c] = pid_file]
              /\ stopper' = [stopper EXCEPT ![c] = "prompt"] /\ status' = now /\ UNCHANGED requested
           \/ now # "disconnected" /\ ~Exists(pid_file) /\ Returns(c, "disconnected")
    /\ UNCHANGED <<up, attempting, task, helper, files, two, overwritten>>

(* A SIGTERM ends a helper's loops once it has registered the signal, and  *)
(* the helper itself before.                                               *)
Terminated(phase) ==
    CASE phase \in {"connected", "reconnecting"} -> {"stopping"}
      [] phase = "connecting" -> {"stopping", "gone"}
      [] OTHER -> {phase}

AllowStop(c) ==
    /\ up /\ stopper[c] = "prompt"
    /\ \/ /\ stopper' = [stopper EXCEPT ![c] = "wait"] /\ UNCHANGED <<victim, requested, status>>
          /\ \E phase \in Terminated(helper[victim[c]]) : helper' = [helper EXCEPT ![victim[c]] = phase]
       \/ Returns(c, "error") /\ UNCHANGED helper
    /\ UNCHANGED <<up, attempting, task, files, two, overwritten>>

WaitStop(c) ==
    /\ up /\ stopper[c] = "wait"
    /\ Returns(c, IF Exists(victim[c]) THEN "error" ELSE "disconnected")
    /\ UNCHANGED <<up, attempting, task, helper, files, two, overwritten>>

dismissError ==
    /\ up /\ status = "error" /\ status' = "disconnected"
    /\ state_file' = <<"disconnected", 0>>
    /\ overwritten' = (overwritten \/ \E h \in Helper : Exists(h))
    /\ UNCHANGED <<up, attempting, requested, task, stopper, victim, helper, stop_file, pid_file, two>>

(* The application ends, with a stop request when a helper runs, or it is  *)
(* killed; it is opened again and reads the state.                         *)
Ended ==
    /\ up /\ up' = FALSE /\ attempting' = FALSE /\ requested' = FALSE /\ status' = "disconnected"
    /\ task' = [h \in Helper |->
          CASE task[h] = "poll" -> "done" [] task[h] = "prompt" -> "orphan" [] OTHER -> task[h]]
    /\ stopper' = [c \in Stop |-> "idle"] /\ victim' = [c \in Stop |-> 0]
    /\ UNCHANGED <<helper, state_file, pid_file, two, overwritten>>

applicationWillTerminate == Ended /\ stop_file' = (stop_file \/ Exists(pid_file))
GuiDies == Ended /\ UNCHANGED stop_file

reload ==
    /\ ~up /\ up' = TRUE /\ status' = Refreshed(FALSE)
    /\ UNCHANGED <<attempting, requested, task, stopper, victim, helper, files, two, overwritten>>

-----------------------------------------------------------------------------
(* The helper: run_main.                                                   *)

Becomes(h, phase) == helper' = [helper EXCEPT ![h] = phase]
Writes(h, s) == state_file' = <<s, h>>

acquire_pid_file_drops(h) ==
    /\ helper[h] = "root"
    /\ \/ Exists(pid_file) /\ Writes(h, "error") /\ Becomes(h, "gone") /\ pid_file' = 0
       \/ ~Exists(pid_file) /\ Becomes(h, "alone") /\ UNCHANGED <<state_file, pid_file>>
    /\ two' = (two \/ \E g \in Helper \ {h} : {helper[g], helper'[h]} = {"alone"})
    /\ overwritten' = (overwritten \/ two' \/ helper'[h] = "gone")
    /\ UNCHANGED <<controller, stop_file>>

(* acquire_pid_file: what it reads and what it writes are two steps.  One  *)
(* that is refused leaves the file to its owner.                           *)
acquire_pid_file(h) ==
    /\ helper[h] = "root"
    /\ \/ Exists(pid_file) /\ Writes(h, "error") /\ Becomes(h, "gone")
       \/ ~Exists(pid_file) /\ Becomes(h, "alone") /\ UNCHANGED state_file
    /\ two' = (two \/ \E g \in Helper \ {h} : {helper[g], helper'[h]} = {"alone"})
    /\ overwritten' = (overwritten \/ two' \/ helper'[h] = "gone")
    /\ UNCHANGED <<controller, stop_file, pid_file>>

run_main(h) ==
    /\ helper[h] = "alone"
    /\ pid_file' = h /\ Writes(h, "connecting") /\ Becomes(h, "connecting")
    /\ UNCHANGED <<controller, stop_file, two, overwritten>>

(* run_tunnel: a first session is made or is not; the stop request is      *)
(* looked at in the loops, of which a session that is lost is the other.   *)
run_tunnel(h) ==
    /\ \/ helper[h] = "connecting" /\ \/ Writes(h, "connected") /\ Becomes(h, "connected")
                                      \/ Writes(h, "error") /\ Becomes(h, "ending")
       \/ helper[h] \in {"connected", "reconnecting"} /\ stop_file /\ Writes(h, "disconnected") /\ Becomes(h, "ending")
       \/ helper[h] = "stopping" /\ Writes(h, "disconnected") /\ Becomes(h, "ending")
    /\ UNCHANGED <<controller, stop_file, pid_file, two, overwritten>>

Reconnects(h) ==
    /\ \/ helper[h] = "connected" /\ ~stop_file /\ Writes(h, "reconnecting") /\ Becomes(h, "reconnecting")
       \/ helper[h] = "reconnecting" /\ Writes(h, "connected") /\ Becomes(h, "connected")
       \/ helper[h] \in {"connected", "reconnecting", "stopping"} /\ Writes(h, "error") /\ Becomes(h, "ending")
    /\ UNCHANGED <<controller, stop_file, pid_file, two, overwritten>>

(* The end of the process: PidFileGuard removes the file.                  *)
drop_pid_file(h) ==
    /\ helper[h] = "ending" /\ Becomes(h, "gone") /\ pid_file' = 0
    /\ UNCHANGED <<controller, stop_file, state_file, two, overwritten>>

(* It ends without another word: SIGKILL, or SIGTERM before it is handled. *)
HelperDies(h) ==
    /\ Exists(h) /\ Becomes(h, "gone")
    /\ UNCHANGED <<controller, files, two, overwritten>>

HelperStep(h) == acquire_pid_file(h) \/ run_main(h) \/ run_tunnel(h) \/ drop_pid_file(h)

Next ==
    \/ refreshFromStateFile \/ dismissError
    \/ \E c \in Stop : disconnect(c) \/ PollStop(c) \/ AllowStop(c) \/ WaitStop(c)
    \/ applicationWillTerminate \/ GuiDies \/ reload
    \/ \E h \in Helper :
         installAndConnect(h) \/ runPrivileged(h) \/ PollStart(h) \/ HelperStep(h) \/ Reconnects(h)
         \/ HelperDies(h)

(* The timer fires every second; helpers go on, though nothing makes them  *)
(* lose a session or get it back.  Each has a few steps of its own, so it  *)
(* does not matter that the condition is one for all.                      *)
Fairness == WF_vars(refreshFromStateFile) /\ WF_vars(\E h \in Helper : HelperStep(h))
Spec == Init /\ [][Next]_vars /\ Fairness

-----------------------------------------------------------------------------
TypeOK ==
    /\ status \in Status /\ stopper \in [Stop -> {"idle", "poll", "prompt", "wait"}]
    /\ victim \in [Stop -> Helper \cup {0}] /\ pid_file \in Helper \cup {0}
    /\ state_file \in Status \X (Helper \cup {0})

(* At most one helper gets past the PID file and the file names it,        *)
(* however often the user tries, the application is restarted and helpers  *)
(* die, and however many dialogs are open; unless two helpers were between *)
(* reading and writing the file at once.                                   *)
OneHelper ==
    /\ TypeOK
    /\ ~two => Cardinality(Running) <= 1 /\ (Running # {} => pid_file \in Running)

(* A stop request is heeded by the helper that runs, unless the user       *)
(* connects again.                                                         *)
StopHeeded == []<>(stop_file => Running = {})

(* The application ends up showing what is: a connection that stays is     *)
(* shown as one, and without a helper none is shown; unless dismissError,  *)
(* a further attempt, a helper that was refused or a second one that runs  *)
(* overwrote the state of a helper that runs.                              *)
Connected == \E h \in Helper : helper[h] = "connected"
ShowsWhatIs ==
    /\ []<>(up /\ Connected => status \in {"connected", "disconnecting"} \/ overwritten)
    /\ []<>(up /\ Running = {} => status # "connected")
===============================================================================
