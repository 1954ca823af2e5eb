------------------------------- MODULE AppRouting -------------------------------
(***************************************************************************)
(* The routed applications of the Windows GUI: app_exclusions.rs.  The     *)
(* window's commands and a helper that starts read and write settings.toml *)
(* without a lock between the two processes; each rename and removal of    *)
(* replace_file is a step, a process may end at any of them, and paths of  *)
(* applications that update themselves are replaced while they are read.   *)
(***************************************************************************)
EXTENDS Naturals, FiniteSets

CONSTANTS
    Exe,        \* executables
    App,        \* the installation (Squirrel root, Store package) of each
    Part,       \* "plain", "stable" or "version" (Squirrel), "store", "helper" (under %APPDATA%)
    Installed,  \* the sets of executables that may exist at first
    Chosen,     \* the settings that may be stored at first
    MaxChanges, \* bound: changes by the user
    MaxUpdates, \* bound: updates of applications
    MaxFailures \* bound: failing renames and removals

RoutingAssumption == App \in [Exe -> STRING] /\ Part \in [Exe -> STRING]

Squirrel == {"stable", "version"}
Claude == {"store", "helper"}
AppsOf(exes, parts) == {App[x] : x \in {y \in exes : Part[y] \in parts}}

Process == {"gui", "helper"}
Mode == {"exclude", "include"}
Settings == [mode : Mode, apps : SUBSET Exe]
Default == [mode |-> "exclude", apps |-> {}]
Missing == [mode |-> "exclude", apps |-> {}, missing |-> TRUE]

VARIABLES
    dest, bak,  \* settings.toml and settings.bak: settings, or Missing
    installed,  \* the executables that exist
    roots,      \* installations with an Update.exe, or with a directory claude-code
    step,       \* what each process does next
    op,         \* the function it runs: <<name, argument...>>
    held,       \* the settings it holds
    changes, updates, failures,
    last,       \* history: what was last moved to settings.toml
    overlapped  \* history: both processes were past the beginning of a load at once

file == <<dest, bak>>
process == <<step, op, held>>
bounds == <<changes, updates, failures>>
machine == <<installed, roots>>
vars == <<file, machine, process, bounds, last, overlapped>>

Init ==
    /\ dest \in Chosen \cup {Missing} /\ bak = Missing
    /\ installed \in Installed /\ roots = AppsOf(installed, Squirrel \cup {"helper"})
    /\ step = [p \in Process |-> "idle"] /\ op = [p \in Process |-> <<"none">>]
    /\ held = [p \in Process |-> Default]
    /\ changes = 0 /\ updates = 0 /\ failures = 0
    /\ last = [mode |-> dest.mode, apps |-> dest.apps]
    /\ overlapped = FALSE

-----------------------------------------------------------------------------
(* Paths that follow an update.  Missing files are kept, except versions   *)
(* and helpers of an installation whose root is there.                     *)

resolve_squirrel_paths_forgets(apps, inst, dirs) ==
    {x \in apps : x \in inst \/ Part[x] \notin Squirrel}

resolve_squirrel_paths(apps, inst, dirs) ==
    LET identities == AppsOf(apps, Squirrel) \cap dirs
        found == {x \in inst : Part[x] \in Squirrel /\ App[x] \in identities}
    IN  {x \in apps \cup found : x \in inst \/ Part[x] # "version" \/ App[x] \notin identities}

resolve_claude_code_paths(apps, inst, dirs) ==
    LET selected == AppsOf(apps, Claude) \cap dirs
        found == {x \in inst : Part[x] = "helper" /\ App[x] \in selected}
    IN  {x \in apps \cup found : x \in inst \/ Part[x] # "helper" \/ App[x] \notin selected}

resolve_packaged_paths(apps, inst) ==
    LET replacement(x) == {y \in inst : Part[x] = "store" /\ Part[y] = "store" /\ App[y] = App[x]}
    IN  {x \in apps : replacement(x) = {}} \cup UNION {replacement(x) : x \in apps}

(* load_resolved after its load.  The list of installed packages is only   *)
(* asked for when one is missing, and may not be had.                      *)
resolved(apps, inst, dirs) ==
    LET known == resolve_claude_code_paths(resolve_squirrel_paths(apps, inst, dirs), inst, dirs)
    IN  IF \E x \in known : Part[x] = "store" /\ x \notin inst
        THEN {known, resolve_packaged_paths(known, inst)} ELSE {known}

-----------------------------------------------------------------------------
(* The functions of the GUI and of a helper that starts.                   *)

Resolves(o) == o[1] \in {"get", "policy", "set_installed_selection"}

edit(o, s) ==
    CASE o[1] = "set_mode" -> [s EXCEPT !.mode = o[2]]
      [] o[1] = "add" -> [s EXCEPT !.apps = @ \cup {o[2]}]
      [] o[1] = "remove" -> [s EXCEPT !.apps = @ \ {o[2]}]
      [] o[1] = "clear" -> [s EXCEPT !.apps = {}]
      [] o[1] = "set_installed_selection" -> [s EXCEPT !.apps = (@ \ o[3]) \cup o[2]]

Commands ==
    {<<"clear">>} \cup {<<"set_mode", m>> : m \in Mode}
      \cup {<<"add", x>> : x \in installed} \cup {<<"remove", x>> : x \in Exe}
      \cup {<<"set_installed_selection", s, installed>> : s \in SUBSET installed}

(* What a load that nobody disturbs returns.                               *)
Stored == IF dest # Missing THEN dest ELSE [mode |-> bak.mode, apps |-> bak.apps]

Busy(p) == step[p] \notin {"idle", "read", "running"}
Others(p) == {q \in Process \ {p} : Busy(q)}

command(o) ==
    /\ step["gui"] = "idle" /\ changes < MaxChanges
    /\ step' = [step EXCEPT !["gui"] = "read"] /\ op' = [op EXCEPT !["gui"] = o]
    /\ changes' = changes + 1
    /\ UNCHANGED <<file, machine, held, updates, failures, last, overlapped>>

run_helper ==
    /\ step["helper"] = "idle"
    /\ step' = [step EXCEPT !["helper"] = "read"] /\ op' = [op EXCEPT !["helper"] = <<"policy">>]
    /\ UNCHANGED <<file, machine, held, bounds, last, overlapped>>

(* What process p does with the settings it has read, s: it changes them,  *)
(* or brings their paths up to date and saves only a difference.  A        *)
(* selection is made in settings that were brought up to date before.      *)
loaded(p, s) ==
    LET go(place, what, settings) ==
            /\ step' = [step EXCEPT ![p] = place] /\ op' = [op EXCEPT ![p] = what]
            /\ held' = [held EXCEPT ![p] = settings]
    IN  /\ overlapped' = (overlapped \/ Others(p) # {})
        /\ IF ~Resolves(op[p]) THEN go("save", <<"get">>, edit(op[p], s))
           ELSE \E apps \in resolved(s.apps, installed, roots) :
                  LET now == [s EXCEPT !.apps = apps]
                  IN  CASE apps # s.apps -> go("save", op[p], now)
                        [] apps = s.apps /\ op[p][1] = "set_installed_selection" -> go("save", <<"get">>, edit(op[p], now))
                        [] apps = s.apps /\ op[p][1] = "get" -> go("idle", <<"none">>, Default)
                        [] apps = s.apps /\ op[p][1] = "policy" -> go("running", op[p], now)

(* load, which reads the backup when there is no file.                     *)
load(p) ==
    /\ \/ /\ step[p] = "read" /\ dest # Missing
          /\ loaded(p, dest)
       \/ /\ step[p] = "read" /\ dest = Missing
          /\ step' = [step EXCEPT ![p] = "backup"]
          /\ overlapped' = (overlapped \/ Others(p) # {}) /\ UNCHANGED <<op, held>>
       \/ /\ step[p] = "backup"
          /\ loaded(p, [mode |-> bak.mode, apps |-> bak.apps])
    /\ UNCHANGED <<file, machine, bounds, last>>

(* After a save: the selection that was waiting for it, the answer to the  *)
(* window, or the session of the helper.                                   *)
saved(p) ==
    IF op[p][1] = "set_installed_selection"
    THEN /\ step' = [step EXCEPT ![p] = "save"] /\ op' = [op EXCEPT ![p] = <<"get">>]
         /\ held' = [held EXCEPT ![p] = edit(op[p], @)]
    ELSE IF op[p][1] = "get"
    THEN step' = [step EXCEPT ![p] = "read"] /\ held' = [held EXCEPT ![p] = Default] /\ UNCHANGED op
    ELSE step' = [step EXCEPT ![p] = "running"] /\ UNCHANGED <<op, held>>

(* An error ends the function; a helper without a policy ends.             *)
gives_up(p) ==
    /\ step' = [step EXCEPT ![p] = "idle"] /\ op' = [op EXCEPT ![p] = <<"none">>]
    /\ held' = [held EXCEPT ![p] = Default]

At(p, place) == step[p] = place /\ UNCHANGED <<machine, changes, updates, overlapped>>
Goes(p, place) == step' = [step EXCEPT ![p] = place] /\ UNCHANGED <<op, held>>
Fails == failures < MaxFailures /\ failures' = failures + 1

(* save: the temporary file is written, then replace_file looks whether    *)
(* there is a file to keep.                                                *)
save(p) ==
    /\ At(p, "save") /\ UNCHANGED <<file, last>>
    /\ \/ Goes(p, IF dest = Missing THEN "move" ELSE "unback") /\ UNCHANGED failures
       \/ Fails /\ gives_up(p)

move(p) ==
    /\ At(p, "move")
    /\ \/ dest' = held[p] /\ last' = held[p] /\ saved(p) /\ UNCHANGED <<bak, failures>>
       \/ Fails /\ gives_up(p) /\ UNCHANGED <<file, last>>

unback(p) ==
    /\ At(p, "unback") /\ UNCHANGED <<dest, last>>
    /\ \/ bak' = Missing /\ Goes(p, "park") /\ UNCHANGED failures
       \/ bak # Missing /\ Fails /\ gives_up(p) /\ UNCHANGED bak

park_removes(p) ==
    /\ At(p, "park") /\ dest' = Missing /\ Goes(p, "commit") /\ UNCHANGED <<bak, failures, last>>

park(p) ==
    /\ At(p, "park") /\ UNCHANGED last
    /\ \/ dest # Missing /\ bak' = dest /\ dest' = Missing /\ Goes(p, "commit") /\ UNCHANGED failures
       \/ dest = Missing /\ gives_up(p) /\ UNCHANGED <<file, failures>>
       \/ Fails /\ gives_up(p) /\ UNCHANGED file

commit(p) ==
    /\ At(p, "commit") /\ UNCHANGED bak
    /\ \/ dest' = held[p] /\ last' = held[p] /\ Goes(p, "clean") /\ UNCHANGED failures
       \/ Fails /\ Goes(p, "rollback") /\ UNCHANGED <<dest, last>>

clean(p) ==
    /\ At(p, "clean") /\ UNCHANGED <<dest, last>> /\ saved(p)
    /\ \/ bak' = Missing /\ UNCHANGED failures
       \/ Fails /\ UNCHANGED bak

rollback(p) ==
    /\ At(p, "rollback") /\ UNCHANGED last /\ gives_up(p)
    /\ \/ bak # Missing /\ dest' = bak /\ bak' = Missing /\ UNCHANGED failures
       \/ bak = Missing /\ UNCHANGED <<file, failures>>
       \/ Fails /\ UNCHANGED file

(* A process ends in the middle of it.                                     *)
Ends(p) ==
    /\ step[p] # "idle" /\ gives_up(p)
    /\ UNCHANGED <<file, machine, bounds, last, overlapped>>

(* An application is updated, in one step or in two, or removed, with its  *)
(* root or without it; an Update.exe may be missing for a while.           *)
Updates ==
    /\ updates < MaxUpdates /\ updates' = updates + 1
    /\ \/ /\ \E x \in installed : \E y \in {z \in Exe : App[z] = App[x]} :
              \/ Part[x] = Part[y] /\ installed' = (installed \ {x}) \cup {y}
              \/ Part[y] # "store" /\ installed' = installed \cup {y}
              \/ installed' = installed \ {x}
          /\ roots' = roots \cup AppsOf(installed', {"helper"})
       \/ \E a \in AppsOf(Exe, Squirrel \cup {"helper"}) :
            /\ a \notin AppsOf(installed, {"helper"})
            /\ roots' = IF a \in roots THEN roots \ {a} ELSE roots \cup {a}
            /\ installed' \in {installed, {x \in installed : App[x] # a}}
    /\ UNCHANGED <<file, process, changes, failures, last, overlapped>>

Next ==
    \/ run_helper \/ Updates
    \/ \E o \in Commands : command(o)
    \/ \E p \in Process :
         \/ load(p) \/ save(p) \/ move(p) \/ unback(p) \/ park(p) \/ commit(p) \/ clean(p)
         \/ rollback(p) \/ Ends(p)

Spec == Init /\ [][Next]_vars

-----------------------------------------------------------------------------
TypeOK ==
    /\ {dest, bak} \subseteq Settings \cup {Missing} /\ installed \subseteq Exe
    /\ held \in [Process -> Settings] /\ last \in Settings /\ AppsOf(installed, {"helper"}) \subseteq roots

(* Whatever step of replace_file fails or is the last of its process, load *)
(* returns what was last moved into place: the old settings or the new     *)
(* ones, never none, unless two processes were saving at once.             *)
SettingsKept == TypeOK /\ (~overlapped => Stored = last)

(* The executables that belong to what the user chose: a Squirrel          *)
(* installation stands for all its versions, a Store package for its       *)
(* present version and Claude's helpers.                                   *)
Belongs(x, y) ==
    \/ x = y
    \/ App[x] = App[y] /\ Part[x] \in Squirrel /\ Part[y] \in Squirrel /\ App[y] \in roots
    \/ App[x] = App[y] /\ Part[x] = "helper" /\ Part[y] \in Claude

(* A helper's policy has the mode that was stored and every executable     *)
(* that belongs to a chosen one and exists, even when the stored path is   *)
(* one an update has removed; only a missing Store version may be absent,  *)
(* when the list of packages cannot be had.  What was read is what was     *)
(* stored, unless the window was saving between the two readings.          *)
PolicyComplete ==
    [][LET base == IF step["helper"] = "read" THEN dest ELSE [mode |-> bak.mode, apps |-> bak.apps]
           got == held'["helper"].apps \cap installed
           due == {x \in installed : \E y \in base.apps : Belongs(x, y)}
           moved == {x \in installed : Part[x] = "store" /\
                       \E y \in base.apps \ installed : App[y] = App[x] /\ Part[y] = "store"}
       IN  step["helper"] \in {"read", "backup"} /\ step'["helper"] \in {"save", "running"} =>
             /\ got \in {due, due \cup moved}
             /\ ~overlapped' => base = Stored /\ held'["helper"].mode = base.mode]_vars

(* One path stands for the other's choice in the settings.                 *)
Carries(x, y) ==
    \/ x = y
    \/ App[x] = App[y] /\ \E parts \in {Squirrel, {"store"}, {"helper"}} : {Part[x], Part[y]} \subseteq parts

(* Bringing paths up to date never loses a choice while there is something *)
(* it could be carried over to: a chosen path leaves the settings for      *)
(* another of the same installation, or when not one executable of that    *)
(* installation is there at the reading.  The second part is needed: the   *)
(* last version of a Squirrel application or Claude's last helper is gone  *)
(* for a moment in an update that removes before it installs, and a reading *)
(* in that moment saves the settings without it.                           *)
ChoiceKept ==
    [][\A p \in Process : step[p] \in {"read", "backup"} /\ Resolves(op[p]) /\ step'[p] = "save"
                          /\ op'[p] = op[p] =>
         LET base == IF step[p] = "read" THEN dest ELSE bak
         IN  /\ held'[p].mode = base.mode
             /\ \A y \in base.apps :
                  (\E x \in installed : Carries(x, y)) => \E x \in held'[p].apps : Carries(x, y)]_vars
===============================================================================
