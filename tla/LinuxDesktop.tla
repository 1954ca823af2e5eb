------------------------------ MODULE LinuxDesktop ------------------------------
(***************************************************************************)
(* The Linux desktop: the GUI (linux-gui/src-tauri/src/main.rs) starts a   *)
(* privileged helper per connection (helper_runtime.rs), which takes the   *)
(* runtime lock, starts a watchdog over itself and runs the client with    *)
(* its network guards (linux-client/src/runtime.rs, linux-platform).  A    *)
(* call may fail, a helper may be killed and the GUI may end at any step.  *)
(*                                                                         *)
(* A profile is known by its server.  The nftables table and the marked    *)
(* route to the server outlive a helper; the TUN device goes with it and   *)
(* takes the halves and the DNS of its link along.  The tunnel itself is   *)
(* the module LinuxClient: here its loop runs until something ends it.     *)
(***************************************************************************)
EXTENDS Naturals

CONSTANTS
    Helper,     \* the helpers started in the history of the machine: 1 .. n
    Server,     \* the servers of the profiles
    Gateway,    \* physical default gateways
    Home,       \* the one the machine starts with
    MaxMishaps  \* bound: calls that fail, changes of the gateway, helpers killed

ASSUME DesktopAssumption ==
    /\ Helper \subseteq Nat \ {0} /\ Home \in Gateway
    /\ MaxMishaps \in Nat

None == "none"
Free == <<0, None>>

VARIABLES
    at,        \* the step of each helper's main thread
    server,    \* the server of the helper's profile
    told,      \* its stdin holds a line or is closed
    failing,   \* the result run_mode is about to return is an error
    dog,       \* the watchdog over it
    lock,      \* who holds the runtime lock: a helper or a watchdog
    table,     \* the helper the nftables table mousevpn_client_runtime is of, or 0
    path,      \* the gateway of the marked route to each server
    cached,    \* RouteGuard.server_route
    halves,    \* how many of the halves RouteGuard leads into the helper's TUN
    gateway,   \* the default gateway of the machine, or None
    gui,       \* a GUI is running
    child,     \* AppState.child, or 0
    piped,     \* a GUI reads the helper's stderr
    bare,      \* history: a helper held the lock and ended with no watchdog, or a repair failed
    budget     \* what is left of MaxMishaps

process == <<at, server, told, failing, dog, lock>>
machine == <<table, path, cached, halves>>
screen == <<gui, child, piped>>
vars == <<process, machine, gateway, screen, bare, budget>>

Ended(h) == at[h] \in {"exited", "failed"}
Alive(h) == at[h] # "unused" /\ ~Ended(h)
Step(h, from, to) == at[h] = from /\ at' = [at EXCEPT ![h] = to]

Mishap == budget > 0 /\ budget' = budget - 1
Works == UNCHANGED budget
Fails == Mishap

Init ==
    /\ at = [h \in Helper |-> "unused"] /\ server = [h \in Helper |-> None]
    /\ told = [h \in Helper |-> FALSE] /\ failing = [h \in Helper |-> FALSE]
    /\ dog = [h \in Helper |-> "none"] /\ lock = Free
    /\ table = 0 /\ path = [s \in Server |-> None]
    /\ cached = [h \in Helper |-> None] /\ halves = [h \in Helper |-> 0]
    /\ gateway = Home
    /\ gui = TRUE /\ child = 0 /\ piped = [h \in Helper |-> FALSE]
    /\ bare = FALSE
    /\ budget = MaxMishaps

-----------------------------------------------------------------------------
(* The GUI.                                                                *)

(* connect_profile: a helper that still runs refuses it.  One that could   *)
(* not be started leaves the slot empty and the snapshot as it was.        *)
connect_profile ==
    /\ gui /\ child \in {0} \cup {h \in Helper : Ended(h)}
    /\ \E h \in Helper, s \in Server :
         /\ at[h] = "unused" /\ \A g \in Helper : g < h => at[g] # "unused"
         /\ \/ /\ Works
               /\ at' = [at EXCEPT ![h] = "auth"] /\ server' = [server EXCEPT ![h] = s]
               /\ piped' = [piped EXCEPT ![h] = TRUE]
               /\ child' = h
            \/ /\ Fails
               /\ child' = 0 /\ UNCHANGED <<at, server, piped>>
    /\ UNCHANGED <<told, failing, dog, lock, machine, gateway, gui, bare>>

(* disconnect_inner: writing to a helper that has ended fails and changes  *)
(* nothing.                                                                *)
disconnect ==
    /\ gui /\ child # 0 /\ Alive(child)
    /\ told' = [told EXCEPT ![child] = TRUE]
    /\ UNCHANGED <<at, server, failing, dog, lock, machine, gateway, screen, bare, budget>>

(* The GUI quits or dies: the pipes of its helpers close.                  *)
GuiEnds ==
    /\ gui /\ gui' = FALSE
    /\ told' = [h \in Helper |-> told[h] \/ piped[h]]
    /\ piped' = [h \in Helper |-> FALSE] /\ child' = 0
    /\ UNCHANGED <<at, server, failing, dog, lock, machine, gateway, bare, budget>>

run_gui ==
    /\ ~gui /\ gui' = TRUE
    /\ UNCHANGED <<process, machine, gateway, child, piped, bare, budget>>

-----------------------------------------------------------------------------
(* The helper up to its tunnel.                                            *)

(* The process ends: the lock, the TUN and what hangs on it go with it.    *)
Exits(h, how) ==
    /\ at' = [at EXCEPT ![h] = how]
    /\ lock' = IF lock = <<h, "helper">> THEN Free ELSE lock
    /\ bare' = (bare \/ (lock = <<h, "helper">> /\ dog[h] = "none"))
    /\ halves' = [halves EXCEPT ![h] = 0] /\ cached' = [cached EXCEPT ![h] = None]

(* main: an error is printed and the process exits with 1.                 *)
ExitsWithError(h) == Exits(h, "failed")

KeepGui == UNCHANGED <<gateway, screen>>
KeepProcess == UNCHANGED <<server, told, failing, dog>>

(* PolicyKit runs the helper, or the user refuses.                         *)
Authorize(h) ==
    /\ at[h] = "auth"
    /\ \/ at' = [at EXCEPT ![h] = "lock"] /\ UNCHANGED <<lock, bare, halves, cached>>
       \/ Exits(h, "failed")
    /\ KeepProcess /\ KeepGui /\ Works /\ UNCHANGED <<table, path>>

(* acquire_runtime_lock: for two seconds, then with an error.              *)
acquire_runtime_lock(h) ==
    /\ at[h] = "lock"
    /\ \/ /\ lock = Free /\ lock' = <<h, "helper">>
          /\ at' = [at EXCEPT ![h] = "watch"]
          /\ UNCHANGED <<halves, cached, bare>>
       \/ lock # Free /\ ExitsWithError(h)
    /\ KeepProcess /\ KeepGui /\ Works /\ UNCHANGED <<table, path>>

(* The configuration is read and the watchdog started; the line that is    *)
(* printed next is a panic when nobody reads it.                           *)
spawn_watchdog(h) ==
    /\ at[h] = "watch"
    /\ \/ /\ Works /\ dog' = [dog EXCEPT ![h] = "watching"]
          /\ \/ /\ piped[h] /\ at' = [at EXCEPT ![h] = "check"]
                /\ UNCHANGED <<lock, halves, cached, bare>>
             \/ /\ ~piped[h] /\ at' = [at EXCEPT ![h] = "failed"] /\ lock' = Free
                /\ UNCHANGED <<halves, cached, bare>>
       \/ Fails /\ ExitsWithError(h) /\ UNCHANGED dog
    /\ KeepGui /\ UNCHANGED <<server, told, failing, table, path>>

(* reject_full_tunnel.                                                     *)
has_full_tunnel == \E h \in Helper : halves[h] > 0

ensure_no_competing_full_tunnel(h) ==
    /\ at[h] = "check"
    /\ \/ /\ ~has_full_tunnel /\ Works /\ at' = [at EXCEPT ![h] = "repair"]
          /\ UNCHANGED <<lock, halves, cached, bare>>
       \/ ((has_full_tunnel /\ Works) \/ Fails) /\ ExitsWithError(h)
    /\ KeepProcess /\ KeepGui /\ UNCHANGED <<table, path>>

(* repair_stale_network: the table first, then the routes to one server.   *)
repair_stale_network_routes_only(s) == path' = [path EXCEPT ![s] = None] /\ UNCHANGED table
repair_stale_network(s) == table' = 0 /\ path' = [path EXCEPT ![s] = None]
RepairFails == table' \in {0, table} /\ UNCHANGED path
(* What nft answers is not looked at: the table it keeps, stays.           *)
TableStays(s) == UNCHANGED table /\ path' = [path EXCEPT ![s] = None]

repair_platform_state(h) ==
    /\ at[h] = "repair"
    /\ \/ /\ (Works /\ repair_stale_network(server[h])) \/ (Fails /\ TableStays(server[h]))
          /\ at' = [at EXCEPT ![h] = "connect"]
          /\ UNCHANGED <<lock, halves, cached, bare>>
       \/ Fails /\ RepairFails /\ ExitsWithError(h)
    /\ KeepProcess /\ KeepGui

(* The handshake, the TUN, the handlers of SIGINT and SIGTERM.             *)
connect(h) ==
    /\ at[h] = "connect"
    /\ \/ /\ at' = [at EXCEPT ![h] = "fence"]
          /\ UNCHANGED <<lock, halves, cached, bare>>
       \/ ExitsWithError(h)
    /\ KeepProcess /\ KeepGui /\ Works /\ UNCHANGED <<table, path>>

-----------------------------------------------------------------------------
(* The guards.                                                             *)

KeepHelper == UNCHANGED <<server, told, dog, lock, bare>>

(* FirewallGuard::install: an old table is removed, then the rules go in   *)
(* in one transaction.                                                     *)
InstallFirewall(h) ==
    /\ \/ /\ Works /\ Step(h, "fence", "route") /\ table' = h
          /\ UNCHANGED failing
       \/ /\ Fails /\ Step(h, "fence", "exit") /\ table' \in {0, table}
          /\ failing' = [failing EXCEPT ![h] = TRUE]
    /\ KeepHelper /\ KeepGui /\ UNCHANGED <<path, cached, halves>>

(* The kernel takes no second route to a server of the same metric.        *)
Addable(s) == path[s] = None

(* RouteGuard::install, with an error that drops what is built so far.     *)
InstallServerRoute(h) ==
    /\ \/ /\ Works /\ Step(h, "route", "halves")
          /\ ~has_full_tunnel /\ gateway # None /\ Addable(server[h])
          /\ path' = [path EXCEPT ![server[h]] = gateway]
          /\ cached' = [cached EXCEPT ![h] = gateway]
          /\ UNCHANGED failing
       \/ /\ Step(h, "route", "undo_fence")
          /\ \/ (has_full_tunnel \/ gateway = None \/ ~Addable(server[h])) /\ Works
             \/ Fails
          /\ failing' = [failing EXCEPT ![h] = TRUE]
          /\ UNCHANGED <<path, cached>>
    /\ KeepHelper /\ KeepGui /\ UNCHANGED <<table, halves>>

add_tunnel_route(h) ==
    /\ at[h] = "halves"
    /\ \/ /\ Works /\ halves' = [halves EXCEPT ![h] = @ + 1]
          /\ at' = [at EXCEPT ![h] = IF halves[h] = 1 THEN "dns" ELSE @]
          /\ UNCHANGED failing
       \/ /\ Fails /\ Step(h, "halves", "undo_routes")
          /\ failing' = [failing EXCEPT ![h] = TRUE]
          /\ UNCHANGED halves
    /\ KeepHelper /\ KeepGui /\ UNCHANGED <<table, path, cached>>

(* DnsGuard::install; then the workers start and the state is printed,     *)
(* which is a panic that unwinds when nobody reads it.                     *)
InstallDns(h) ==
    /\ \/ /\ Works /\ Step(h, "dns", "loop") /\ piped[h]
          /\ UNCHANGED failing
       \/ /\ Works /\ Step(h, "dns", "unfence") /\ ~piped[h]
          /\ failing' = [failing EXCEPT ![h] = TRUE]
       \/ /\ Fails /\ Step(h, "dns", "undo_routes")
          /\ failing' = [failing EXCEPT ![h] = TRUE]
    /\ KeepHelper /\ KeepGui /\ UNCHANGED machine

(* RouteGuard::refresh_server_route: a route that is there is recorded; an *)
(* old one is deleted before the new one is added; when that fails the old *)
(* one is put back.                                                        *)
refresh_server_route(h) ==
    LET s == server[h]
        old == cached[h] # None /\ path[s] = cached[h]
    IN  /\ at[h] = "loop" /\ ~told[h] /\ gateway # None
        /\ \/ /\ path[s] = gateway /\ Works
              /\ cached' = [cached EXCEPT ![h] = gateway] /\ UNCHANGED path
           \/ /\ path[s] # gateway /\ (old \/ Addable(s)) /\ Works
              /\ path' = [path EXCEPT ![s] = gateway]
              /\ cached' = [cached EXCEPT ![h] = gateway]
           \/ \* delete refused
              /\ path[s] # gateway /\ old /\ Fails
              /\ cached' = [cached EXCEPT ![h] = None] /\ UNCHANGED path
           \/ \* add refused, the old route back or not
              /\ path[s] # gateway /\ (old \/ Addable(s)) /\ Fails
              /\ \E back \in {None, cached[h]} :
                   path' = [path EXCEPT ![s] = back] /\ cached' = [cached EXCEPT ![h] = back]
           \/ \* another route to the server is in the way
              /\ path[s] # gateway /\ ~old /\ ~Addable(s) /\ Works
              /\ cached' = [cached EXCEPT ![h] = None] /\ UNCHANGED path
        /\ KeepHelper /\ KeepGui /\ UNCHANGED <<at, failing, table, halves>>

-----------------------------------------------------------------------------
(* The packet loop, and letting go.                                        *)

LeaveLoop_on_line(h) ==
    /\ Step(h, "loop", "unfence")
    /\ \/ told[h] /\ piped[h] /\ UNCHANGED failing
       \/ ~told[h] /\ failing' = [failing EXCEPT ![h] = TRUE]
    /\ KeepHelper /\ KeepGui /\ Works /\ UNCHANGED machine

(* PacketLoop::run returns: it was told to stop, or a call or its worker   *)
(* failed for good; or a line it prints is a panic.                        *)
LeaveLoop(h) ==
    /\ Step(h, "loop", "unfence")
    /\ \/ told[h] /\ UNCHANGED failing
       \/ ~(told[h] /\ piped[h]) /\ failing' = [failing EXCEPT ![h] = TRUE]
    /\ KeepHelper /\ KeepGui /\ Works /\ UNCHANGED machine

(* FirewallGuard::drop and RouteGuard::drop ignore errors.  A NetworkGuard *)
(* that was built drops the firewall first, one that was not drops it last.*)
DropFirewall(h) ==
    /\ Step(h, "unfence", "unroute") \/ Step(h, "undo_fence", "exit")
    /\ (Works /\ table' = 0) \/ (Fails /\ UNCHANGED table)
    /\ KeepHelper /\ KeepGui /\ UNCHANGED <<failing, path, cached, halves>>

DropRoutes(h) ==
    /\ Step(h, "unroute", "exit") \/ Step(h, "undo_routes", "undo_fence")
    /\ \/ /\ Works /\ halves' = [halves EXCEPT ![h] = 0]
          /\ path' = [path EXCEPT ![server[h]] = IF @ = cached[h] THEN None ELSE @]
       \/ Fails /\ UNCHANGED <<halves, path>>
    /\ KeepHelper /\ KeepGui /\ UNCHANGED <<failing, table, cached>>

exit(h) ==
    /\ at[h] = "exit"
    /\ IF failing[h] THEN ExitsWithError(h) ELSE Exits(h, "exited")
    /\ KeepProcess /\ KeepGui /\ Works /\ UNCHANGED <<table, path>>

HelperStep(h) ==
    \/ acquire_runtime_lock(h) \/ spawn_watchdog(h) \/ ensure_no_competing_full_tunnel(h)
    \/ repair_platform_state(h) \/ connect(h) \/ InstallFirewall(h) \/ InstallServerRoute(h)
    \/ add_tunnel_route(h) \/ InstallDns(h) \/ DropFirewall(h) \/ DropRoutes(h) \/ exit(h)

-----------------------------------------------------------------------------
(* The watchdog, and the machine.                                          *)

(* run_watchdog sees the end of its helper; whoever holds the lock then is *)
(* left to repair on its own.                                              *)
NoticeEnd_unlocked(h) ==
    /\ dog[h] = "watching" /\ Ended(h)
    /\ dog' = [dog EXCEPT ![h] = "repair"]
    /\ UNCHANGED <<at, server, told, failing, lock, machine, gateway, screen, bare, budget>>

NoticeEnd(h) ==
    /\ dog[h] = "watching" /\ Ended(h)
    /\ IF lock = Free
       THEN lock' = <<h, "dog">> /\ dog' = [dog EXCEPT ![h] = "repair"]
       ELSE dog' = [dog EXCEPT ![h] = "done"] /\ UNCHANGED lock
    /\ UNCHANGED <<at, server, told, failing, machine, gateway, screen, bare, budget>>

Repair(h) ==
    /\ dog[h] = "repair"
    /\ \/ Works /\ repair_stale_network(server[h]) /\ UNCHANGED bare
       \/ Fails /\ (RepairFails \/ TableStays(server[h])) /\ bare' = TRUE
    /\ dog' = [dog EXCEPT ![h] = "done"]
    /\ lock' = IF lock = <<h, "dog">> THEN Free ELSE lock
    /\ UNCHANGED <<at, server, told, failing, cached, halves>> /\ KeepGui

DogStep(h) == NoticeEnd(h) \/ Repair(h)

(* SIGKILL, or a signal before the handlers are registered.                *)
Killed(h) ==
    /\ Alive(h) /\ at[h] # "auth" /\ Mishap
    /\ Exits(h, "failed")
    /\ KeepProcess /\ KeepGui /\ UNCHANGED <<table, path>>

(* The default gateway changes; routes over the old one may vanish.        *)
Roams ==
    /\ Mishap
    /\ gateway' \in (Gateway \cup {None}) \ {gateway}
    /\ path' \in {path, [s \in Server |-> IF path[s] = gateway THEN None ELSE path[s]]}
    /\ UNCHANGED <<process, table, cached, halves, screen, bare>>

Next ==
    \/ connect_profile \/ disconnect \/ GuiEnds \/ run_gui \/ Roams
    \/ \E h \in Helper : \/ Authorize(h) \/ HelperStep(h) \/ refresh_server_route(h)
                         \/ LeaveLoop(h) \/ DogStep(h) \/ Killed(h)

(* The main thread of a helper goes on; its loop looks at stopping and     *)
(* refreshes the route again and again; a watchdog polls.                  *)
Fairness ==
    \A h \in Helper :
      /\ WF_vars(HelperStep(h)) /\ WF_vars(told[h] /\ LeaveLoop(h))
      /\ WF_vars(refresh_server_route(h)) /\ WF_vars(DogStep(h))

Spec == Init /\ [][Next]_vars
FairSpec == Spec /\ Fairness

-----------------------------------------------------------------------------
TypeOK ==
    /\ at \in [Helper -> {"unused", "auth", "lock", "watch", "check", "repair", "connect", "fence", "route",
                          "halves", "dns", "loop", "unfence", "unroute", "undo_routes", "undo_fence", "exit",
                          "exited", "failed"}]
    /\ server \in [Helper -> Server \cup {None}]
    /\ told \in [Helper -> BOOLEAN] /\ failing \in [Helper -> BOOLEAN]
    /\ dog \in [Helper -> {"none", "watching", "repair", "done"}]
    /\ lock \in {Free} \cup (Helper \X {"helper", "dog"})
    /\ table \in Helper \cup {0} /\ path \in [Server -> Gateway \cup {None}]
    /\ cached \in [Helper -> Gateway \cup {None}] /\ halves \in [Helper -> 0 .. 2]
    /\ gateway \in Gateway \cup {None}

(* A helper is connected from the last guard on until it lets go.          *)
Connected(h) == at[h] = "loop"

(* The desktop keeps the promise of TunnelFence: a table is in force       *)
(* before traffic is led into a tunnel, and neither another helper nor a   *)
(* late watchdog takes it away under a connected one.                      *)
Fence == INSTANCE TunnelFence WITH
    up <- \E h \in Helper : Connected(h),
    fenced <- table # 0,
    routed <- \E h \in Helper : halves[h] > 0
FenceKept == Fence!Spec

(* No process is left that could still clean up.                           *)
Quiet == \A h \in Helper : ~Alive(h) /\ dog[h] \in {"none", "done"}

(* When every helper and watchdog is gone no table is left that would cut  *)
(* the machine off, whoever was killed where and whichever helper a        *)
(* watchdog lost the lock to; unless a helper got the lock and ended       *)
(* before it had a watchdog of its own, or a repair failed.                *)
FenceLifted == TypeOK /\ (Quiet /\ ~bare => table = 0)

(* linux-gui/README.md: the watchdog "removes only MouseVPN's nftables     *)
(* table and marked server route if the tunnel helper is killed".          *)
WatchdogSweeps == Quiet /\ ~bare => table = 0 /\ \A s \in Server : path[s] = None

(* A helper that was told to stop ends, also when the GUI that told it is  *)
(* gone, and its watchdog after it.                                        *)
StopSettles ==
    \A h \in Helper : []<>(told[h] /\ at[h] # "auth" => Ended(h) /\ dog[h] \in {"none", "done"})

(* While a helper is connected its route to the server comes to lead over  *)
(* the gateway of the machine; unless a route RouteGuard has lost track of *)
(* is in the way.                                                          *)
Astray(h) == path[server[h]] # None /\ path[server[h]] # cached[h]
RouteFollows ==
    \A h \in Helper :
      []<>(Connected(h) /\ gateway # None => path[server[h]] = gateway \/ Astray(h))
===============================================================================
