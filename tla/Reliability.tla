------------------------------ MODULE Reliability ------------------------------
(***************************************************************************)
(* The reliability totals of the Linux GUI                                 *)
(* (linux-gui/src-tauri/src/reliability.rs): what the sessions of a        *)
(* profile and mode have reported, added up over sessions, failed saves    *)
(* and restarts of the GUI.  The metrics of a session are one growing      *)
(* number, its uptime; a reader thread takes them from a pipe and may be   *)
(* behind.                                                                 *)
(***************************************************************************)
EXTENDS Naturals, Sequences, FiniteSets, FiniteSetsExt

CONSTANTS
    Session,    \* the sessions in the history of the GUI: 1 .. n
    Profile,    \* profile IDs
    Protocol,   \* modes of a profile
    MaxUptime,  \* bound: what a session counts up to
    MaxUnread,  \* bound: reports in a pipe
    MaxFailures \* bound: saves that fail

ReliabilityAssumption == Session \subseteq Nat \ {0} /\ MaxUptime \in Nat /\ MaxFailures \in Nat

Mode == Profile \X Protocol
Zero == [sessions |-> 0, seconds |-> 0]
Nothing == [mode \in Mode |-> Zero]
NoSession == [mode |-> <<>>, previous |-> 0, observed |-> FALSE]
Unseen == [seconds |-> 0, seen |-> FALSE]

VARIABLES
    of,       \* the profile and mode of each session, or <<>>
    uptime,   \* what it has counted
    unread,   \* the reports in its pipe
    active,   \* ReliabilityMonitor.active
    totals,   \* ReliabilityMonitor.stored
    file,     \* reliability-v1.json
    failures, \* how many saves may still fail
    told,     \* history: the last uptime of each session that was observed
    due,      \* history: how much of it belongs in the totals, and whether it was seen at all
    kept,     \* history: the same of the file
    late      \* history: a report was read after the next session had begun

vars == <<of, uptime, unread, active, totals, file, failures, told, due, kept, late>>

Started(s) == of[s] # <<>>
Latest(s) == Started(s) /\ \A r \in Session : r > s => ~Started(r)

Init ==
    /\ of = [s \in Session |-> <<>>] /\ uptime = [s \in Session |-> 0] /\ unread = [s \in Session |-> <<>>]
    /\ active = NoSession /\ totals = Nothing /\ file = Nothing /\ failures = MaxFailures
    /\ told = [s \in Session |-> 0] /\ due = [s \in Session |-> Unseen] /\ kept = [s \in Session |-> Unseen]
    /\ late = FALSE

(* save: the new file replaces the old one, or stays away as a whole.      *)
save ==
    \/ file' = totals' /\ kept' = due' /\ UNCHANGED failures
    \/ failures > 0 /\ failures' = failures - 1 /\ UNCHANGED <<file, kept>>

(* connect_profile begins a session of the monitor.                        *)
begin(mode) ==
    /\ \E s \in Session :
         /\ ~Started(s) /\ \A r \in Session : r < s => Started(r)
         /\ of' = [of EXCEPT ![s] = mode]
    /\ active' = [mode |-> mode, previous |-> 0, observed |-> FALSE]
    /\ UNCHANGED <<uptime, unread, totals, file, failures, told, due, kept, late>>

(* RuntimeMetrics::emit, by the helper of the session.                     *)
emit(s) ==
    /\ Latest(s) /\ uptime[s] < MaxUptime /\ Len(unread[s]) < MaxUnread
    /\ \E now \in uptime[s] .. MaxUptime :
         uptime' = [uptime EXCEPT ![s] = now] /\ unread' = [unread EXCEPT ![s] = Append(@, now)]
    /\ UNCHANGED <<of, active, totals, file, failures, told, due, kept, late>>

(* saturating_sub.                                                         *)
delta(current, previous) == IF current > previous THEN current - previous ELSE 0

add_anew(mode, seconds, first) ==
    totals' = [totals EXCEPT ![mode] = [sessions |-> @.sessions + 1, seconds |-> @.seconds + seconds]]

add(mode, seconds, first) ==
    totals' = [totals EXCEPT ![mode] = [sessions |-> @.sessions + (IF first THEN 1 ELSE 0),
                                        seconds |-> @.seconds + seconds]]

(* observe: a report of another profile or mode begins anew.               *)
observe(s) ==
    LET current == Head(unread[s])
        same == active.mode = of[s]
        previous == IF same THEN active.previous ELSE 0
    IN  /\ unread[s] # <<>> /\ unread' = [unread EXCEPT ![s] = Tail(@)]
        /\ active' = [mode |-> of[s], previous |-> current, observed |-> TRUE]
        /\ add(of[s], delta(current, previous), ~(same /\ active.observed))
        /\ told' = [told EXCEPT ![s] = current]
        /\ due' = [due EXCEPT ![s] = [seconds |-> @.seconds + current - told[s], seen |-> TRUE]]
        /\ late' = (late \/ ~Latest(s))
        /\ save
        /\ UNCHANGED <<of, uptime>>

(* clear_profile: the running session counts on from where it is.          *)
clear_profile(p) ==
    /\ totals' = [mode \in Mode |-> IF mode[1] = p THEN Zero ELSE totals[mode]]
    /\ active' = IF active.mode # <<>> /\ active.mode[1] = p THEN [active EXCEPT !.observed = FALSE] ELSE active
    /\ due' = [s \in Session |-> IF Started(s) /\ of[s][1] = p THEN Unseen ELSE due[s]]
    /\ save
    /\ UNCHANGED <<of, uptime, unread, told, late>>

(* The GUI ends, and with it the readers; a new one loads the file.        *)
load ==
    /\ unread' = [s \in Session |-> <<>>]
    /\ uptime' = [s \in Session |-> IF Started(s) THEN MaxUptime ELSE 0]
    /\ active' = NoSession /\ totals' = file /\ due' = kept
    /\ UNCHANGED <<of, file, failures, told, kept, late>>

Next ==
    \/ load
    \/ \E mode \in Mode : begin(mode)
    \/ \E p \in Profile : clear_profile(p)
    \/ \E s \in Session : emit(s) \/ observe(s)

Spec == Init /\ [][Next]_vars

-----------------------------------------------------------------------------
SecondsOf(mode, ledger) == MapThenSumSet(LAMBDA s : ledger[s].seconds, {s \in Session : of[s] = mode})
SessionsOf(mode, ledger) == Cardinality({s \in Session : of[s] = mode /\ ledger[s].seen})
Agrees(book, ledger) ==
    \A mode \in Mode : book[mode] = [sessions |-> SessionsOf(mode, ledger), seconds |-> SecondsOf(mode, ledger)]

(* The totals of a mode, in memory and in the file, are what its sessions  *)
(* reported since they were last cleared, each session once and each       *)
(* second once, through failed saves, restarts and deleted profiles; as    *)
(* long as no reader is behind by a whole connection.                      *)
TotalsExact == ~late => Agrees(totals, due) /\ Agrees(file, kept)
===============================================================================
