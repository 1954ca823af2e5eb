------------------------------- MODULE MCDesktopApps -------------------------------
(***************************************************************************)
(* The applications around the tunnel that run without fairness: the flow  *)
(* watcher of the Windows split tunnel, the routed applications and the    *)
(* window of the Windows GUI, the window of the Linux GUI and its          *)
(* reliability totals.  They share no state, so one of them is chosen.     *)
(***************************************************************************)
EXTENDS Naturals, Sequences, FiniteSets, TLC

VARIABLES
    which,
    mode, alive, owner, established, queue, watching, table, cache, address, physical, found,
    flows, reused, forgotten,
    wg_run, wg_of, reader, wg_lines, gui, wg_child, wg_state, wg_profile, generation, wg_last, starting,
    wg_files, wg_said, overtaken,
    dest, bak, installed, roots, step, op, held, changes, updates, ar_failures, ar_last, overlapped,
    lg_run, lg_of, uses, lg_lines, lg_child, lg_state, lg_profile, view, lg_files, lg_said, lg_late, imported,
    rl_of, uptime, unread, active, totals, file, rl_failures, told, due, kept, rl_late

MCPid == ("a" :> 1) @@ ("b" :> 1) @@ ("s" :> 2)

MCLocal == ("k" :> "there")

\* A Squirrel application with a stable path and two versions, and a Store
\* package with two versions and a helper.
MCExe == {"s", "v1", "v2", "w1", "w2", "h1"}
MCApp == [x \in MCExe |-> IF x \in {"s", "v1", "v2"} THEN "squirrel" ELSE "claude"]
MCPart == ("s" :> "stable") @@ ("v1" :> "version") @@ ("v2" :> "version")
          @@ ("w1" :> "store") @@ ("w2" :> "store") @@ ("h1" :> "helper")

Flow == INSTANCE FlowWatch WITH
    Program <- {"a", "b", "s"}, Pid <- MCPid, Listed <- {"a"}, Protected <- {"s"}, Key <- {"k"},
    Address <- {"here", "there"}, Local <- MCLocal, Family <- 4, Capacity <- 1, MaxFlows <- 2, MaxQueue <- 2

Gui == INSTANCE WindowsGui WITH
    Helper <- {1, 2}, Profile <- {"p", "q"}, MaxUnread <- 1, run <- wg_run, of <- wg_of, lines <- wg_lines,
    child <- wg_child, state <- wg_state, profile <- wg_profile, last <- wg_last, files <- wg_files,
    said <- wg_said

Routing == INSTANCE AppRouting WITH
    Exe <- MCExe, App <- MCApp, Part <- MCPart, Installed <- {{"v1", "h1", "w1"}},
    Chosen <- {[mode |-> "include", apps |-> {"v1", "w1", "h1"}]}, MaxChanges <- 1, MaxUpdates <- 1,
    MaxFailures <- 1, failures <- ar_failures, last <- ar_last

Linux == INSTANCE LinuxGui WITH
    Helper <- {1, 2}, Profile <- {"p"}, Protocol <- {"legacy", "speedy"}, Legacy <- "legacy",
    MaxUnread <- 1, run <- lg_run, of <- lg_of, lines <- lg_lines, child <- lg_child, state <- lg_state,
    profile <- lg_profile, files <- lg_files, said <- lg_said, late <- lg_late

Totals == INSTANCE Reliability WITH
    Session <- {1, 2}, Profile <- {"p", "q"}, Protocol <- {"legacy", "speedy"}, MaxUptime <- 2,
    MaxUnread <- 1, MaxFailures <- 1, of <- rl_of, failures <- rl_failures, late <- rl_late

flowVars == <<mode, alive, owner, established, queue, watching, table, cache, address, physical, found,
              flows, reused, forgotten>>
windowsVars == <<wg_run, wg_of, reader, wg_lines, gui, wg_child, wg_state, wg_profile, generation, wg_last,
                 starting, wg_files, wg_said, overtaken>>
routingVars == <<dest, bak, installed, roots, step, op, held, changes, updates, ar_failures, ar_last,
                 overlapped>>
linuxVars == <<lg_run, lg_of, uses, lg_lines, lg_child, lg_state, lg_profile, view, lg_files, lg_said,
               lg_late, imported>>
totalsVars == <<rl_of, uptime, unread, active, totals, file, rl_failures, told, due, kept, rl_late>>

One == which \in {"flow", "windows", "routing", "linux", "totals"}

allVars == <<which, flowVars, windowsVars, routingVars, linuxVars, totalsVars>>

(* One of the components is chosen and runs; the others stay in one of     *)
(* their initial states.                                                   *)
SumInit ==
    /\ One
    /\ Flow!Init /\ (which # "flow" => mode = "include" /\ address = "here")
    /\ Gui!Init /\ (which # "windows" => wg_files = {})
    /\ Routing!Init /\ (which # "routing" => dest = Routing!Missing)
    /\ Linux!Init /\ (which # "linux" => lg_files["p"] = Linux!None)
    /\ Totals!Init

SumNext ==
    \/ which = "flow" /\ Flow!Next /\ UNCHANGED <<which, windowsVars, routingVars, linuxVars, totalsVars>>
    \/ which = "windows" /\ Gui!Next /\ UNCHANGED <<which, flowVars, routingVars, linuxVars, totalsVars>>
    \/ which = "routing" /\ Routing!Next /\ UNCHANGED <<which, flowVars, windowsVars, linuxVars, totalsVars>>
    \/ which = "linux" /\ Linux!Next /\ UNCHANGED <<which, flowVars, windowsVars, routingVars, totalsVars>>
    \/ which = "totals" /\ Totals!Next /\ UNCHANGED <<which, flowVars, windowsVars, routingVars, linuxVars>>

SumSpec == SumInit /\ [][SumNext]_allVars

ASSUME Flow!FlowAssumption /\ Routing!RoutingAssumption /\ Totals!ReliabilityAssumption

-------------------------------------------------------------------------------
(* A flow of a listed program is routed as its owner's, however the events *)
(* of the two layers and reused process IDs interleave, and what is routed *)
(* into the tunnel fits it and comes from its address                      *)
(* (windivert/flow.rs, divert.rs, packet.rs).                              *)
FlowsRouted == which = "flow" => Flow!VerdictRight /\ Flow!RoutedStaysInside

(* What either GUI shows of the helper it has is what that helper last     *)
(* said, once its lines are read; before its first word it is connecting,  *)
(* and without a helper there is no connection.  Lines of former helpers   *)
(* do not change that on Windows, but for the gap in which a helper is     *)
(* being started, and on Linux until the next line.  The totals of Linux   *)
(* count under the mode the helper uses (read_helper_status and            *)
(* connect_profile of both main.rs).                                       *)
ShownAsIs == (which = "windows" => Gui!ShownAsIs) /\ (which = "linux" => Linux!ShownAndCountedAsIs)

(* After a disconnect no line of the helper that was told to end changes   *)
(* what the Windows GUI shows.                                             *)
DisconnectHolds == Gui!DisconnectHolds

(* The stored settings survive failing renames and the end of a process at *)
(* any step of replace_file.                                               *)
SettingsKept == which = "routing" => Routing!SettingsKept

(* The policy a helper starts with has every chosen application in it, and *)
(* no choice is lost to an update while an executable of the application   *)
(* is there (app_exclusions.rs).                                           *)
ChoiceFollowed == Routing!PolicyComplete /\ Routing!ChoiceKept

(* The totals of a profile and mode are what its sessions reported, once   *)
(* each, over restarts and failed saves (reliability.rs).                  *)
TotalsExact == which = "totals" => Totals!TotalsExact
===============================================================================
