---------------------------- MODULE WindowsPolicy ----------------------------
(***************************************************************************)
(* The network policy of the Windows helper (windows-client: network.rs,   *)
(* netcfg.rs, killswitch.rs, app_bypass.rs): what it changes on the        *)
(* machine, the journal it keeps of it, and how it takes it back, with a   *)
(* failure of any call and the end of the process at any step.             *)
(*                                                                         *)
(* Routes, addresses and Windows Firewall rules outlive the process; the   *)
(* filters of a dynamic WFP session (the kill switch, the application      *)
(* bypass) end with it, and the adapter disappears some time after it.     *)
(***************************************************************************)
EXTENDS Naturals

CONSTANTS
    Network,      \* the physical networks: a default route of the machine each
    Home,         \* the one the machine starts on
    Param,        \* the session parameters a server hands out
    AppRouting,   \* the routing policies: "exclude", "exclude_apps", "include"
    MaxFaults,    \* bound: calls of Windows that fail
    MaxRoams      \* bound: changes of the physical network

ASSUME PolicyAssumption ==
    /\ Home \in Network /\ Param # {}
    /\ AppRouting \subseteq {"exclude", "exclude_apps", "include"}
    /\ MaxFaults \in Nat /\ MaxRoams \in Nat

None == "none"

VARIABLES
    at,        \* the step the helper's main thread is at; "off": no helper
    journal,   \* the file network-state.toml: "absent", "garbled", or by firewall_rules
    rules,     \* Windows Firewall rules of the group MouseVPN Kill Switch exist
    switch,    \* a KillSwitch of this process is installed in WFP
    server,    \* the network the route to the server leads through, or None
    halves,    \* how many of the TUNNEL_HALVES are routed into the adapter
    address,   \* the parameters the adapter's address and DNS are set to, or None
    adapter,   \* the Wintun adapter exists
    bypass,    \* the address BypassState was opened for; "closed": engine = 0
    gateway,   \* the network of the physical default route, or None
    routing,   \* the AppRoutingPolicy of this helper: Exclude without applications,
               \* Exclude with some, or Include
    guarded,   \* NetworkGuard.parameters
    torn,      \* history: a helper ended between remove_file and rename
    budget     \* what is left of the two bounds

machine == <<rules, server, halves, address>>
process == <<switch, bypass, guarded, routing>>
policy == <<at, journal, machine, adapter, gateway, process, torn, budget>>

Works == UNCHANGED budget
Fails == budget.faults > 0 /\ budget' = [budget EXCEPT !.faults = @ - 1]

(* default_ipv4_route finds a route that is not the tunnel's.              *)
HasDefaultRoute == gateway # None

Clean == ~rules /\ server = None /\ halves = 0 /\ address = None

(* The process ends: what is held by handles goes with it.                 *)
Exits == at' = "off" /\ switch' = FALSE /\ bypass' = None /\ guarded' = None /\ routing' = None

(* The machine is clean, or a helper left its policy behind a journal that *)
(* cannot be parsed.                                                       *)
PolicyInit ==
    /\ at = "off" /\ switch = FALSE /\ halves = 0 /\ address = None
    /\ adapter = FALSE /\ bypass = None /\ guarded = None /\ torn = FALSE
    /\ gateway = Home /\ routing = None
    /\ \/ journal = "absent" /\ rules = FALSE /\ server = None
       \/ journal = "garbled" /\ rules = TRUE /\ server = gateway
    /\ budget = [faults |-> MaxFaults, roams |-> MaxRoams]

-----------------------------------------------------------------------------
(* Taking the policy back.                                                 *)

(* cleanup, with the parts that failed; the others are done all the same.  *)
cleanup(firewall_rules, failed) ==
    /\ address' = IF "interface" \in failed THEN address ELSE None
    /\ IF "routes" \in failed
       THEN server' \in {None, server} /\ halves' \in 0 .. halves
       ELSE server' = None /\ halves' = 0
    /\ rules' = (rules /\ (~firewall_rules \/ "rules" \in failed))

Parts(firewall_rules) ==
    {"routes"} \cup (IF adapter THEN {"interface"} ELSE {})
               \cup (IF firewall_rules THEN {"rules"} ELSE {})

CleanedUp(firewall_rules) ==
    /\ cleanup(firewall_rules, {})
    /\ torn' = (torn /\ ~firewall_rules)
    /\ Works

CleanupFailed(firewall_rules) ==
    /\ \E failed \in SUBSET Parts(firewall_rules) \ {{}} : cleanup(firewall_rules, failed)
    /\ Fails
    /\ UNCHANGED torn

(* The helper is started: runtime.lock admits one at a time.               *)
Launch ==
    /\ at = "off"
    /\ at' = "recover"
    /\ routing' \in AppRouting
    /\ UNCHANGED <<journal, machine, adapter, gateway, switch, bypass, guarded, torn, budget>>

(* What recover_stale_state sweeps: a journal that does not parse counts   *)
(* as one with rules, none at all as one without.                          *)
SweepsRules == journal \in {"garbled", "rules"}

recover_stale_state ==
    /\ at = "recover"
    /\ IF journal = "absent" /\ ~adapter
       THEN /\ at' = "connect"
            /\ UNCHANGED <<machine, process, torn, budget>>
       ELSE \/ /\ CleanedUp(SweepsRules)
               /\ at' = IF journal = "absent" THEN "connect" ELSE "forget_stale"
               /\ UNCHANGED process
            \/ CleanupFailed(SweepsRules) /\ Exits
    /\ UNCHANGED <<journal, adapter, gateway>>

(* The journal of the earlier helper is removed.                           *)
ForgetStale ==
    /\ at = "forget_stale"
    /\ \/ Works /\ journal' = "absent" /\ at' = "connect" /\ UNCHANGED process
       \/ Fails /\ Exits /\ UNCHANGED journal
    /\ UNCHANGED <<machine, adapter, gateway, torn>>

(* repair_network, asked for while no helper runs.                         *)
repair ==
    /\ at = "off"
    /\ \/ CleanedUp(TRUE) /\ journal' = "absent"
       \/ CleanedUp(TRUE) /\ UNCHANGED journal
       \/ CleanupFailed(TRUE) /\ UNCHANGED journal
    /\ UNCHANGED <<at, adapter, gateway, process>>

-----------------------------------------------------------------------------
(* Installing it.                                                          *)

(* open_engine: redirections and filters for the physical address, in one  *)
(* transaction of a session of its own.                                    *)
open_engine == bypass' = gateway

(* AppBypassGuard::install: the driver, the physical address, the engine.  *)
InstallBypass ==
    /\ at = "bypass"
    /\ \/ /\ routing = "exclude" /\ Works
          /\ at' = "journal" /\ UNCHANGED process
       \/ /\ routing # "exclude" /\ HasDefaultRoute /\ Works
          /\ open_engine /\ at' = "journal"
          /\ UNCHANGED <<switch, guarded, routing>>
       \/ /\ routing # "exclude" /\ (Fails \/ (~HasDefaultRoute /\ Works))
          /\ Exits
    /\ UNCHANGED <<journal, machine, adapter, gateway, torn>>

(* NetworkGuard::install: the journal comes first, and expects rules.      *)
WriteJournal ==
    /\ at = "journal"
    /\ \/ Works /\ journal' = "rules" /\ at' = "fence" /\ UNCHANGED process
       \/ Fails /\ Exits /\ UNCHANGED journal
    /\ UNCHANGED <<machine, adapter, gateway, torn>>

(* install_script: rules that block what must not leave by the physical    *)
(* network; a script that fails may have made some of them.                *)
InstallRules ==
    \/ rules' = TRUE /\ at' = "routes" /\ Works
    \/ rules' \in {rules, TRUE} /\ at' = "undo" /\ Fails

InstallFence_unfenced ==
    /\ at = "fence"
    /\ \/ switch' = TRUE /\ Works
       \/ switch' = FALSE /\ Fails
    /\ at' = "routes"
    /\ UNCHANGED <<journal, machine, adapter, gateway, bypass, guarded, routing, torn>>

(* KillSwitch::install: all of its filters in one transaction, or none.    *)
InstallKillSwitch ==
    \/ switch' = TRUE /\ at' = "routes" /\ Works
    \/ UNCHANGED switch /\ at' = "fallback" /\ Fails

(* The fence: the WFP filters; for Include, or where WFP refuses them, the *)
(* rules of the Windows Firewall.  An error that comes before either is    *)
(* the failure of both: nothing is in force and what is built is undone.   *)
InstallFence ==
    /\ at = "fence"
    /\ \/ routing # "include" /\ InstallKillSwitch /\ UNCHANGED rules
       \/ routing = "include" /\ InstallRules /\ UNCHANGED switch
    /\ UNCHANGED <<journal, server, halves, address, adapter, gateway, bypass, guarded, routing, torn>>

FallBack ==
    /\ at = "fallback"
    /\ InstallRules
    /\ UNCHANGED <<journal, server, halves, address, adapter, gateway, process, torn>>

(* apply_parameters: the address and the DNS of the adapter; a failure     *)
(* comes after the old address was removed, or before.                     *)
Applied(parameters) == address' = parameters
PartlyApplied(parameters) == address' \in {address, None, parameters}

(* add_route, for the server and for the halves; an error may leave the    *)
(* halves incomplete.                                                      *)
RoutesAdded == server' = gateway /\ halves' = 2
RoutesPartlyAdded == server' = gateway /\ halves' \in {0, 1}

(* The rest of install_policy: address, route to the server, the halves.   *)
(* On an error the KillSwitch is dropped before cleanup runs.              *)
InstallRoutes ==
    /\ at = "routes"
    /\ \/ /\ HasDefaultRoute /\ Works
          /\ Applied(guarded) /\ RoutesAdded
          /\ at' = "rewrite" /\ UNCHANGED switch
       \/ /\ at' = "undo" /\ switch' = FALSE
          /\ \/ ~HasDefaultRoute /\ Works /\ UNCHANGED <<server, halves, address>>
             \/ /\ HasDefaultRoute /\ Fails
                /\ \/ PartlyApplied(guarded) /\ UNCHANGED <<server, halves>>
                   \/ Applied(guarded) /\ RoutesPartlyAdded
    /\ UNCHANGED <<journal, rules, adapter, gateway, bypass, guarded, routing, torn>>

(* install_policy failed: everything is taken back, and the journal stays  *)
(* unless that worked.                                                     *)
Undo ==
    /\ at = "undo"
    /\ \/ CleanedUp(TRUE) /\ at' = "forget" /\ UNCHANGED process
       \/ CleanupFailed(TRUE) /\ Exits
    /\ UNCHANGED <<journal, adapter, gateway>>

(* The second write_state: the temporary file, remove_file, then rename.   *)
RemoveJournal ==
    /\ at = "rewrite"
    /\ \/ Works /\ journal' = "absent" /\ at' = "rename" /\ UNCHANGED process
       \/ Fails /\ Exits /\ UNCHANGED journal
    /\ UNCHANGED <<machine, adapter, gateway, torn>>

RenameJournal ==
    /\ at = "rename"
    /\ \/ Works /\ journal' = (IF switch THEN "no_rules" ELSE "rules") /\ at' = "start" /\ UNCHANGED <<process, torn>>
       \/ Fails /\ Exits /\ torn' = TRUE /\ UNCHANGED journal
    /\ UNCHANGED <<machine, adapter, gateway>>

-----------------------------------------------------------------------------
(* Keeping it, and dropping it.                                            *)

server_route_is_stale == server # gateway

repair_routes ==
    /\ server' = IF server_route_is_stale THEN gateway ELSE server
    /\ halves' = 2

(* NetworkRefresher::refresh, under refresh_lock: the routes, the rules    *)
(* unless the fence is in WFP, and the bypass if the address is another.   *)
(* The rules of all adapters are one: an adapter that appears is without   *)
(* them until the next refresh.                                            *)
refresh ==
    /\ HasDefaultRoute /\ Works
    /\ repair_routes
    /\ rules' = (rules \/ ~switch)
    /\ bypass' = IF bypass = None THEN None ELSE gateway

(* It fails without a default route; or with the old route to the server   *)
(* removed and the new one refused; or after the routes, at the rules; or  *)
(* with the old bypass engine closed and the new one refused.              *)
RefreshFails ==
    \/ ~HasDefaultRoute /\ Works /\ UNCHANGED <<rules, server, halves, bypass>>
    \/ /\ HasDefaultRoute /\ Fails
       /\ \/ /\ server' \in {server, IF server_route_is_stale THEN None ELSE server}
             /\ UNCHANGED <<rules, halves, bypass>>
          \/ repair_routes /\ ~switch /\ UNCHANGED <<rules, bypass>>
          \/ /\ bypass \notin {None, gateway}
             /\ repair_routes /\ rules' = (rules \/ ~switch) /\ bypass' = "closed"

(* update_parameters: on an error the previous parameters are put back,    *)
(* which may fail in turn.                                                 *)
update_parameters(parameters) ==
    /\ Works
    /\ IF parameters = guarded THEN UNCHANGED address ELSE Applied(parameters)
    /\ guarded' = parameters

UpdateFails(parameters) ==
    /\ parameters # guarded
    /\ UNCHANGED guarded
    /\ \/ Fails /\ Applied(guarded)
       \/ /\ budget.faults > 1 /\ budget' = [budget EXCEPT !.faults = @ - 2]
          /\ address' \in {address, None, parameters, guarded}

Drop_forgets_anyway ==
    /\ at = "drop"
    /\ CleanedUp(~switch) \/ CleanupFailed(~switch)
    /\ at' = "forget"
    /\ UNCHANGED <<journal, adapter, gateway, process>>

(* NetworkGuard::drop: cleanup under the fence; the fields, the kill       *)
(* switch among them, are dropped after it.                                *)
Drop ==
    /\ at = "drop"
    /\ \/ CleanedUp(~switch) /\ at' = "forget" /\ UNCHANGED process
       \/ CleanupFailed(~switch) /\ Exits
    /\ UNCHANGED <<journal, adapter, gateway>>

Forget ==
    /\ at = "forget"
    /\ (Works /\ journal' = "absent") \/ (Fails /\ UNCHANGED journal)
    /\ Exits
    /\ UNCHANGED <<machine, adapter, gateway, torn>>

-----------------------------------------------------------------------------
(* The machine around it.                                                  *)

(* Windows removes the adapter after the helper has gone, and with it what *)
(* was bound to it.                                                        *)
RemoveAdapter ==
    /\ at = "off" /\ adapter
    /\ adapter' = FALSE /\ halves' = 0 /\ address' = None
    /\ UNCHANGED <<at, journal, rules, server, gateway, process, torn, budget>>

(* The default route changes; the route to the server stays where it led.  *)
Roams(network) ==
    /\ budget.roams > 0 /\ network # gateway
    /\ budget' = [budget EXCEPT !.roams = @ - 1]
    /\ gateway' = network
    /\ UNCHANGED <<at, journal, machine, adapter, process, torn>>

(* The process is killed.                                                  *)
Crashes ==
    /\ at # "off"
    /\ Exits
    /\ torn' = (torn \/ at = "rename")
    /\ UNCHANGED <<journal, machine, adapter, gateway, budget>>

-----------------------------------------------------------------------------
PolicyTypeOK ==
    /\ journal \in {"absent", "garbled", "rules", "no_rules"}
    /\ rules \in BOOLEAN /\ switch \in BOOLEAN /\ adapter \in BOOLEAN /\ torn \in BOOLEAN
    /\ server \in Network \cup {None} /\ gateway \in Network \cup {None}
    /\ bypass \in Network \cup {None, "closed"}
    /\ halves \in 0 .. 2 /\ routing \in AppRouting \cup {None}
    /\ address \in Param \cup {None} /\ guarded \in Param \cup {None}
=============================================================================
