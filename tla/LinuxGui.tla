-------------------------------- MODULE LinuxGui --------------------------------
(***************************************************************************)
(* What the Linux GUI shows of a connection: AppState                      *)
(* (linux-gui/src-tauri/src/main.rs), the window that polls it             *)
(* (linux-gui/ui/app.js) and the profile files.  Commands run one after    *)
(* another on the main thread; each helper has a reader thread of its own, *)
(* which may be behind.  What a helper does to the machine is the module   *)
(* LinuxDesktop, what its metrics add up to the module Reliability.        *)
(***************************************************************************)
EXTENDS Naturals, Sequences

CONSTANTS
    Helper,     \* the helpers started in the history of the GUI: 1 .. n
    Profile,    \* profile IDs
    Protocol,   \* modes of a profile
    Legacy,     \* the one of a new profile
    MaxUnread   \* bound: lines in a pipe

None == "none"
Shown == {"disconnected", "connecting", "connected", "disconnecting", "error"}

VARIABLES
    run,      \* each helper's process: "unused", "asked", "up", "exited", "failed"
    of,       \* the profile and mode its reader was started with
    uses,     \* the mode the helper read from the file itself
    lines,    \* the lines in its stderr
    child,    \* AppState.child
    state,    \* ConnectionSnapshot.state
    profile,  \* ConnectionSnapshot.profile_id
    view,     \* connection.state of the window
    files,    \* the protocol in each profile's file, or None
    said,     \* history: what each helper last said of itself, or None
    late,     \* history: the last line read was not of the helper in the slot, or the place of a
              \* helper whose end was not noticed could not be filled
    imported  \* history: a profile was imported over itself, or changed though a late line hid
              \* that it was connecting, before its helper had read it

helpers == <<run, of, uses, lines, said>>
screen == <<child, state, profile, view>>
history == <<late, imported>>
vars == <<helpers, screen, files, history>>

Live == {h \in Helper : run[h] \in {"asked", "up"}}
Gone == {h \in Helper : run[h] \in {"exited", "failed"}}

Init ==
    /\ run = [h \in Helper |-> "unused"] /\ of = [h \in Helper |-> <<None, None>>]
    /\ uses = [h \in Helper |-> None] /\ lines = [h \in Helper |-> <<>>]
    /\ child = 0 /\ state = "disconnected" /\ profile = None /\ view = "disconnected"
    /\ files \in [Profile -> {None, Legacy}]
    /\ said = [h \in Helper |-> None] /\ late = FALSE /\ imported = FALSE

-----------------------------------------------------------------------------
(* The commands of the window.                                             *)

(* The power button: off while the window shows a change.  What it asks    *)
(* for depends on what the window shows, not on what is.                   *)
Power(wanted) ==
    /\ view \notin {"connecting", "disconnecting"}
    /\ wanted = IF view = "connected" THEN "disconnect" ELSE "connect"

(* connect_profile: a helper that runs refuses, one that has ended is      *)
(* forgotten.  When none can be started the slot stays empty, the snapshot *)
(* as it was, and the window shows an error until it polls.                *)
connect_profile(p) ==
    /\ Power("connect") /\ files[p] # None
    /\ \/ /\ child \in Live
          /\ view' = "error" /\ UNCHANGED <<run, of, child, state, profile, late>>
       \/ /\ child \notin Live
          /\ \E h \in Helper :
               /\ run[h] = "unused" /\ \A g \in Helper : g < h => run[g] # "unused"
               /\ run' = [run EXCEPT ![h] = "asked"] /\ of' = [of EXCEPT ![h] = <<p, files[p]>>]
               /\ child' = h
          /\ state' = "connecting" /\ profile' = p /\ view' = "connecting" /\ late' = FALSE
       \/ /\ child \notin Live
          /\ child' = 0 /\ view' = "error" /\ late' = (late \/ child # 0)
          /\ UNCHANGED <<run, of, state, profile>>
    /\ UNCHANGED <<uses, lines, said, files, imported>>

(* disconnect_inner, from the button or from the tray: nothing changes     *)
(* unless the helper is there to be written to.                            *)
disconnect ==
    /\ \/ /\ child \in Live /\ state' = "disconnecting"
          /\ \/ Power("disconnect") /\ view' = "disconnecting"
             \/ UNCHANGED view
       \/ /\ child \notin Live /\ Power("disconnect") /\ view' = "error"
          /\ UNCHANGED state
    /\ UNCHANGED <<helpers, child, profile, files, history>>

(* connection_status, once a second: the end of the helper is noticed.     *)
connection_status ==
    /\ \/ /\ child \in Gone /\ child' = 0 /\ late' = FALSE
          /\ IF state = "disconnecting" \/ run[child] = "exited"
             THEN state' = "disconnected" /\ profile' = None
             ELSE state' = "error" /\ UNCHANGED profile
       \/ /\ child \notin Gone
          /\ UNCHANGED <<child, state, profile, late>>
    /\ view' = state'
    /\ UNCHANGED <<helpers, files, imported>>

(* A helper was asked for that has not read the file yet.                  *)
Unread(p) == \E h \in Helper : run[h] = "asked" /\ of[h][1] = p

(* import_profile writes the file with the mode Legacy, whatever runs.     *)
import_profile(p) ==
    /\ files' = [files EXCEPT ![p] = Legacy]
    /\ imported' = (imported \/ Unread(p))
    /\ UNCHANGED <<helpers, screen, late>>

set_profile_protocol(p, protocol) ==
    /\ ~(profile = p /\ state \in {"connecting", "connected", "disconnecting"})
    /\ files[p] # None /\ files' = [files EXCEPT ![p] = protocol]
    /\ imported' = (imported \/ (late /\ Unread(p)))
    /\ UNCHANGED <<helpers, screen, late>>

delete_profile(p) ==
    /\ ~(profile = p /\ state # "disconnected")
    /\ files' = [files EXCEPT ![p] = None]
    /\ UNCHANGED <<helpers, screen, history>>

-----------------------------------------------------------------------------
(* The helper and its reader.                                              *)

Says(h, line) ==
    lines' = [lines EXCEPT ![h] = Append(@, line)] /\ said' = [said EXCEPT ![h] = line]
Ends(h, how) == run' = [run EXCEPT ![h] = how]

(* The user lets PolicyKit start it, and it reads its file; or does not.   *)
HelperStarts(h) ==
    /\ run[h] = "asked"
    /\ \/ /\ files[of[h][1]] # None /\ uses' = [uses EXCEPT ![h] = files[of[h][1]]]
          /\ run' = [run EXCEPT ![h] = "up"] /\ UNCHANGED <<lines, said>>
       \/ Ends(h, "failed") /\ UNCHANGED <<uses, lines, said>>
       \/ Ends(h, "failed") /\ Says(h, "error") /\ UNCHANGED uses
    /\ UNCHANGED <<of, screen, files, history>>

(* Its tunnel comes up, is lost and found again; it ends when it is told   *)
(* to, with an error it prints, or killed.                                 *)
HelperRuns(h) ==
    /\ run[h] = "up"
    /\ \/ /\ Len(lines[h]) < MaxUnread
          /\ \E line \in {"connected", "reconnecting"} : Says(h, line) /\ UNCHANGED run
       \/ \E how \in {"exited", "failed"} : Ends(h, how) /\ UNCHANGED <<lines, said>>
       \/ Ends(h, "failed") /\ Says(h, "error")
    /\ UNCHANGED <<of, uses, screen, files, history>>

Meant(line) == IF line = "reconnecting" THEN "connecting" ELSE line

(* read_helper_status, one line.                                           *)
read_helper_status(h) ==
    /\ lines[h] # <<>> /\ lines' = [lines EXCEPT ![h] = Tail(@)]
    /\ state' = Meant(Head(lines[h]))
    /\ late' = (child # h)
    /\ UNCHANGED <<run, of, uses, said, child, profile, view, files, imported>>

(* The GUI ends, and with it the readers; a new one knows nothing of a     *)
(* helper that is still letting go.                                        *)
GuiRestarts ==
    /\ run' = [h \in Helper |-> IF h \in Live THEN "failed" ELSE run[h]]
    /\ lines' = [h \in Helper |-> <<>>]
    /\ child' = 0 /\ state' = "disconnected" /\ profile' = None /\ view' = "disconnected"
    /\ late' = FALSE
    /\ UNCHANGED <<of, uses, said, files, imported>>

Next ==
    \/ disconnect \/ connection_status \/ GuiRestarts
    \/ \E p \in Profile :
         \/ connect_profile(p) \/ import_profile(p) \/ delete_profile(p)
         \/ \E protocol \in Protocol : set_profile_protocol(p, protocol)
    \/ \E h \in Helper : HelperStarts(h) \/ HelperRuns(h) \/ read_helper_status(h)

Spec == Init /\ [][Next]_vars

-----------------------------------------------------------------------------
TypeOK ==
    /\ run \in [Helper -> {"unused", "asked", "up", "exited", "failed"}]
    /\ child \in Helper \cup {0} /\ state \in Shown /\ view \in Shown
    /\ profile \in Profile \cup {None} /\ files \in [Profile -> Protocol \cup {None}]

(* Once its lines are read, what the GUI shows of the helper it has is     *)
(* what that helper last said, or that it is being disconnected; before    *)
(* its first word it is connecting, and without a helper there is no       *)
(* connection.  The exception lasts from a line of a former helper to the  *)
(* next line or end of the present one.  Every session is counted under    *)
(* the mode its helper really uses, though connect_profile reads the mode  *)
(* before the user has answered PolicyKit and the helper after it: unless  *)
(* the profile was imported anew in between.                               *)
ShownAndCountedAsIs ==
    /\ TypeOK
    /\ ~late /\ child = 0 => state \in {"disconnected", "error"}
    /\ ~late /\ child # 0 /\ lines[child] = <<>> =>
         state \in {"disconnecting", IF said[child] = None THEN "connecting" ELSE Meant(said[child])}
    /\ ~imported => \A h \in Helper : run[h] = "up" => of[h][2] = uses[h]
===============================================================================
