------------------------------- MODULE WindowsGui -------------------------------
(***************************************************************************)
(* What the Windows GUI shows of a connection and how it ends:             *)
(* windows-gui/src-tauri/src/main.rs, tray.rs and profiles.rs.  Commands   *)
(* and the tray's menu run one after another on the main thread; each      *)
(* helper has a reader thread, which may be behind and which stops writing *)
(* once the generation it was started with is over.  What a helper does to *)
(* the machine is the module WindowsClient, what it reads of the selected  *)
(* applications the module AppRouting.                                     *)
(***************************************************************************)
EXTENDS Naturals, Sequences

CONSTANTS
    Helper,     \* the helpers started in the history of the machine: 1 .. n
    Profile,    \* profile IDs
    MaxUnread   \* bound: lines in a pipe

None == "none"
Shown == {"disconnected", "connecting", "connected", "disconnecting", "error"}

VARIABLES
    run,        \* each helper's process: "unused", "up", "told", "exited", "failed"
    of,         \* the profile it was started for
    reader,     \* whether its reader thread was started by this GUI
    lines,      \* the lines in its stderr
    gui,        \* "up", "quitting" in shutdown_for_exit, "gone"
    child,      \* AppState.child
    state,      \* ConnectionSnapshot.state
    profile,    \* ConnectionSnapshot.profile_id
    generation, \* AppState.generation, as the helper whose reader has it, or 0
    last,       \* AppState.last_profile_id
    starting,   \* the helper connect_profile_inner has spawned and not yet put into the slot, or 0
    files,      \* the profiles that are stored
    said,       \* history: what each helper last said of itself, or None
    overtaken   \* history: since the last helper was started, the old reader wrote in the gap in
                \* which connect_profile_inner had not ended its generation, or a helper whose end
                \* was not noticed had its place emptied

helpers == <<run, of, lines, said>>
app == <<child, state, profile, generation, last, starting>>
vars == <<helpers, reader, gui, app, files, overtaken>>

Live == {h \in Helper : run[h] \in {"up", "told"}}
Gone == {h \in Helper : run[h] \in {"exited", "failed"}}

Init ==
    /\ run = [h \in Helper |-> "unused"] /\ of = [h \in Helper |-> None]
    /\ reader = [h \in Helper |-> FALSE] /\ lines = [h \in Helper |-> <<>>]
    /\ gui = "up" /\ files \in SUBSET Profile
    /\ child = 0 /\ state = "disconnected" /\ profile = None
    /\ generation = 0 /\ last = None /\ starting = 0
    /\ said = [h \in Helper |-> None] /\ overtaken = FALSE

Free == gui = "up" /\ starting = 0

-----------------------------------------------------------------------------
(* The commands of the window and of the tray.                             *)

(* connect_profile_inner up to the snapshot: a helper that runs refuses,   *)
(* one that has ended is forgotten.  When none can be started the slot     *)
(* stays empty; shown is what the snapshot becomes then.                   *)
connect_profile_inner(p, shown) ==
    /\ p \in files /\ child \notin Live
    /\ \/ /\ \E h \in Helper :
               /\ run[h] = "unused" /\ \A g \in Helper : g < h => run[g] # "unused"
               /\ run' = [run EXCEPT ![h] = "up"] /\ of' = [of EXCEPT ![h] = p]
               /\ starting' = h
          /\ state' = "connecting" /\ profile' = p /\ last' = p
          /\ overtaken' = FALSE /\ UNCHANGED generation
       \/ /\ state' = shown /\ overtaken' = (overtaken \/ child # 0)
          /\ UNCHANGED <<run, of, starting, profile, last, generation>>
    /\ child' = 0
    /\ UNCHANGED <<lines, said, reader, gui, files>>

connect_profile(p) == Free /\ connect_profile_inner(p, state)

(* The rest of it: the old generation ends, the reader starts, the slot is *)
(* filled.                                                                 *)
fill_slot ==
    /\ starting # 0
    /\ generation' = starting /\ reader' = [reader EXCEPT ![starting] = TRUE]
    /\ child' = starting /\ starting' = 0
    /\ UNCHANGED <<helpers, gui, state, profile, last, files, overtaken>>

disconnect_inner_keeps_readers ==
    /\ child \in Live
    /\ run' = [run EXCEPT ![child] = "told"]
    /\ state' = "disconnecting" /\ UNCHANGED <<generation, child, profile>>

(* disconnect_inner: the generation ends before the snapshot changes.      *)
disconnect_inner ==
    /\ child \in Live
    /\ run' = [run EXCEPT ![child] = "told"]
    /\ generation' = 0 /\ state' = "disconnecting"
    /\ UNCHANGED <<child, profile>>

disconnect ==
    /\ Free /\ disconnect_inner
    /\ UNCHANGED <<of, lines, said, reader, gui, last, starting, files, overtaken>>

(* What the snapshot becomes when the end of the helper is noticed.        *)
Reaped == IF state = "disconnecting" \/ run[child] = "exited" THEN "disconnected" ELSE "error"

connection_status ==
    /\ Free /\ child \in Gone
    /\ generation' = 0 /\ child' = 0 /\ state' = Reaped
    /\ profile' = IF Reaped = "disconnected" THEN None ELSE profile
    /\ UNCHANGED <<helpers, reader, gui, last, starting, files, overtaken>>

(* tray_toggle asks for the status, then turns the tunnel off or on; an    *)
(* error is shown.                                                         *)
tray_toggle ==
    /\ Free /\ child \notin Gone
    /\ \/ /\ state \in {"connecting", "connected"}
          /\ \/ disconnect_inner
             \/ child = 0 /\ state' = "error" /\ UNCHANGED <<run, child, generation, profile>>
          /\ UNCHANGED <<of, lines, said, reader, gui, last, starting, files, overtaken>>
       \/ /\ state \in {"disconnected", "error"}
          /\ \E p \in IF last \in files THEN {last} ELSE files : connect_profile_inner(p, "error")

delete_profile(p) ==
    /\ Free /\ ~(profile = p /\ state # "disconnected")
    /\ files' = files \ {p}
    /\ UNCHANGED <<helpers, reader, gui, app, overtaken>>

import_profile(p) ==
    /\ Free /\ files' = files \cup {p}
    /\ UNCHANGED <<helpers, reader, gui, app, overtaken>>

-----------------------------------------------------------------------------
(* The helper and its reader.                                              *)

(* run_helper: a session that fails is started again until a line or the   *)
(* end of the GUI comes in; it may be killed, and an error may end it      *)
(* before its first session.                                               *)
Says(h, line) ==
    lines' = [lines EXCEPT ![h] = Append(@, line)] /\ said' = [said EXCEPT ![h] = line]

run_helper(h) ==
    /\ h \in Live
    /\ \/ /\ Len(lines[h]) < MaxUnread /\ UNCHANGED run
          /\ \E line \in {"connected", "connecting"} : Says(h, line)
       \/ run[h] = "told" /\ run' = [run EXCEPT ![h] = "exited"] /\ UNCHANGED <<lines, said>>
       \/ run' = [run EXCEPT ![h] = "failed"] /\ UNCHANGED <<lines, said>>
       \/ run' = [run EXCEPT ![h] = "failed"] /\ Says(h, "error")
    /\ UNCHANGED <<of, reader, gui, app, files, overtaken>>

(* read_helper_status: the generation is looked at again under the lock of *)
(* the snapshot.                                                           *)
read_helper_status_unchecked(h) ==
    /\ gui # "gone" /\ reader[h] /\ lines[h] # <<>>
    /\ lines' = [lines EXCEPT ![h] = Tail(@)]
    /\ state' = Head(lines[h])
    /\ UNCHANGED <<run, of, said, reader, gui, child, profile, generation, last, starting, files, overtaken>>

read_helper_status(h) ==
    /\ gui # "gone" /\ reader[h] /\ lines[h] # <<>>
    /\ lines' = [lines EXCEPT ![h] = Tail(@)]
    /\ IF h = generation
       THEN state' = Head(lines[h]) /\ overtaken' = (overtaken \/ starting # 0)
       ELSE UNCHANGED <<state, overtaken>>
    /\ UNCHANGED <<run, of, said, reader, gui, child, profile, generation, last, starting, files>>

-----------------------------------------------------------------------------
(* The end of the GUI.                                                     *)

shutdown_for_exit ==
    /\ Free
    /\ IF child = 0 THEN gui' = "gone" /\ UNCHANGED run
       ELSE /\ gui' = "quitting"
            /\ run' = [run EXCEPT ![child] = IF child \in Live THEN "told" ELSE @]
    /\ UNCHANGED <<of, lines, said, reader, app, files, overtaken>>

(* It waits five seconds, then kills the helper and repairs the network.   *)
WaitForHelper ==
    /\ gui = "quitting"
    /\ run' = [run EXCEPT ![child] = IF child \in Live THEN "failed" ELSE @]
    /\ child' = 0 /\ gui' = "gone"
    /\ UNCHANGED <<of, lines, said, reader, state, profile, generation, last, starting, files, overtaken>>

(* The GUI is killed: its helper sees the end of its stdin.                *)
GuiDies ==
    /\ gui # "gone" /\ gui' = "gone"
    /\ run' = [h \in Helper |-> IF h \in Live THEN "told" ELSE run[h]]
    /\ UNCHANGED <<of, lines, said, reader, app, files, overtaken>>

run_gui ==
    /\ gui = "gone" /\ gui' = "up"
    /\ child' = 0 /\ state' = "disconnected" /\ profile' = None
    /\ generation' = 0 /\ last' = None /\ starting' = 0
    /\ reader' = [h \in Helper |-> FALSE] /\ lines' = [h \in Helper |-> <<>>]
    /\ UNCHANGED <<run, of, said, files, overtaken>>

Next ==
    \/ fill_slot \/ disconnect \/ connection_status \/ tray_toggle
    \/ shutdown_for_exit \/ WaitForHelper \/ GuiDies \/ run_gui
    \/ \E p \in Profile : connect_profile(p) \/ delete_profile(p) \/ import_profile(p)
    \/ \E h \in Helper : run_helper(h) \/ read_helper_status(h)

Spec == Init /\ [][Next]_vars

-----------------------------------------------------------------------------
TypeOK ==
    /\ run \in [Helper -> {"unused", "up", "told", "exited", "failed"}]
    /\ gui \in {"up", "quitting", "gone"} /\ child \in Helper \cup {0} /\ state \in Shown
    /\ profile \in Profile \cup {None} /\ starting \in Helper \cup {0}
    /\ files \subseteq Profile /\ generation \in Helper \cup {0}

(* Once its lines are read, what the GUI shows of the helper it has is     *)
(* what that helper last said, whatever the readers of former helpers      *)
(* still have to say and however they overtook connect_profile_inner.      *)
(* Before its first word it is connecting and without a helper there is no *)
(* connection, unless the gap of connect_profile_inner was hit since the   *)
(* last start.  The profile of a helper that runs stays stored.            *)
ShownAsIs ==
    /\ TypeOK
    /\ gui = "up" /\ starting = 0 =>
         /\ child # 0 /\ generation = child /\ lines[child] = <<>> =>
              IF said[child] # None THEN state = said[child] ELSE state = "connecting" \/ overtaken
         /\ child = 0 => state \in {"disconnected", "error"} \/ overtaken
         /\ child \in Live => of[child] \in files

(* No line of the helper undoes a disconnect: what is being disconnected   *)
(* is shown so until it is disconnected or the user connects again.        *)
DisconnectHolds ==
    [][gui = "up" /\ gui' = "up" /\ state = "disconnecting" =>
         state' \in {"disconnecting", "disconnected"} \/ starting' # 0]_vars
===============================================================================
