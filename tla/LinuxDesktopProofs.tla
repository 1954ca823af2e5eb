--------------------------- MODULE LinuxDesktopProofs ---------------------------
(***************************************************************************)
(* The fence of the Linux desktop, for any number of helpers, servers and  *)
(* gateways and any number of mishaps: LinuxDesktop implements             *)
(* TunnelFence, and the table does not outlive the last watchdog.          *)
(***************************************************************************)
EXTENDS LinuxDesktop, TLAPS

(* The steps at which a helper holds the runtime lock, the ones before it  *)
(* lays a half, and the ones at which its own table is in force.           *)
Holding == {"watch", "check", "repair", "connect", "fence", "route", "halves", "dns", "loop",
            "unfence", "unroute", "undo_routes", "undo_fence", "exit"}
Before == {"unused", "auth", "lock", "watch", "check", "repair", "connect", "fence", "route"}
Fencing == {"route", "halves", "dns", "loop", "undo_routes"}
Steps == Holding \cup {"unused", "auth", "lock", "exited", "failed"}

Typed ==
    /\ at \in [Helper -> Steps] /\ dog \in [Helper -> {"none", "watching", "repair", "done"}]
    /\ lock \in {Free} \cup (Helper \X {"helper", "dog"})
    /\ table \in Helper \cup {0} /\ halves \in [Helper -> 0 .. 2]

(* Whoever changes the machine has the lock, and who has it is at work.    *)
Locked ==
    \A h \in Helper :
      /\ at[h] \in Holding <=> lock = <<h, "helper">>
      /\ dog[h] = "repair" <=> lock = <<h, "dog">>

(* A helper that holds the lock is watched from its second step on.        *)
Watched ==
    \A h \in Helper : /\ at[h] \in Holding \ {"watch"} => dog[h] = "watching"
                      /\ at[h] \in {"unused", "auth", "lock", "watch"} => dog[h] = "none"

(* How many halves are laid at a step.                                     *)
Laid(step, n) ==
    /\ step \in Before => n = 0
    /\ step = "halves" => n < 2
    /\ step \in {"dns", "loop"} => n = 2

Installed ==
    \A h \in Helper : /\ at[h] \in Fencing => table = h
                      /\ Laid(at[h], halves[h])

(* A table is somebody's to remove.                                        *)
Minded ==
    table # 0 /\ ~bare =>
      \E g \in Helper : dog[g] \in {"watching", "repair"} \/ at[g] = "watch"

IInv == Typed /\ Locked /\ Watched /\ Installed /\ Minded

relevant == <<at, dog, lock, table, halves, bare>>

-----------------------------------------------------------------------------
(* What the steps of the code come down to.                                *)

(* A helper that holds the lock and is watched goes from one step to the   *)
(* next, and changes nothing but the table and its own halves.             *)
Moves(h, to) ==
    /\ at[h] \in Holding \ {"watch"} /\ to \in Holding \ {"watch"}
    /\ at' = [at EXCEPT ![h] = to] /\ UNCHANGED <<lock, dog, bare>>
    /\ table' \in Helper \cup {0} /\ halves' \in [Helper -> 0 .. 2]
    /\ \A g \in Helper \ {h} : halves'[g] = halves[g]
    /\ to \in Fencing => table' = h
    /\ Laid(to, halves'[h])
    /\ to = "loop" => UNCHANGED <<table, halves>>
    /\ halves'[h] > halves[h] => table = h

(* At most one helper holds the lock, and no watchdog repairs beside it.   *)
LEMMA LockExcludes ==
    ASSUME IInv, NEW h \in Helper, at[h] \in Holding
    PROVE  /\ lock = <<h, "helper">>
           /\ \A g \in Helper \ {h} : at[g] \notin Holding
           /\ \A g \in Helper : dog[g] # "repair"
  BY DEF IInv, Locked

LEMMA MovesKeeps ==
    ASSUME IInv, NEW h \in Helper, NEW to, Moves(h, to)
    PROVE  IInv'
  <1> USE DEF IInv
  <1>1. at[h] \in Holding BY DEF Moves
  <1>2. Typed' BY DEF Moves, Typed, Steps
  <1>3. Locked' BY <1>1 DEF Moves, Typed, Locked
  <1>4. Watched' BY <1>1 DEF Moves, Typed, Watched, Holding
  <1>5. Installed' BY <1>1, LockExcludes, SMTT(60) DEF Moves, Typed, Installed, Fencing, Before, Laid, Holding
  <1>6. dog'[h] = "watching" BY DEF Moves, Watched
  <1> QED BY <1>2, <1>3, <1>4, <1>5, <1>6 DEF Minded

(* A helper that ends lets go of the lock; if it was not watched then, the *)
(* history says so.                                                        *)
LEMMA ExitsKeeps ==
    ASSUME IInv, NEW h \in Helper, NEW how \in {"exited", "failed"}, Exits(h, how),
           at[h] \in Holding \cup {"auth", "lock"}, UNCHANGED dog,
           table' = table \/ (table' = 0 /\ at[h] \in Holding)
    PROVE  IInv'
  <1> USE DEF IInv
  <1>1. Typed' BY DEF Exits, Typed, Steps
  <1>2. Locked'
    <2> SUFFICES ASSUME NEW g \in Helper
                 PROVE  /\ at'[g] \in Holding <=> lock' = <<g, "helper">>
                        /\ dog'[g] = "repair" <=> lock' = <<g, "dog">>
      BY DEF Locked
    <2>1. CASE g = h BY <2>1, DesktopAssumption DEF Exits, Typed, Locked, Holding, Free
    <2>2. CASE g # h BY <2>2, DesktopAssumption DEF Exits, Typed, Locked, Holding, Free
    <2> QED BY <2>1, <2>2
  <1>3. Watched' BY DEF Exits, Typed, Watched, Holding
  <1>4. Installed'
    <2>1. CASE table' = table BY <2>1 DEF Exits, Typed, Installed, Fencing, Before, Laid
    <2>2. CASE at[h] \in Holding BY <2>2, LockExcludes, SMTT(60) DEF Exits, Typed, Installed, Fencing, Before, Laid, Holding
    <2> QED BY <2>1, <2>2
  <1>5. Minded'
    <2> SUFFICES ASSUME table' # 0, ~bare'
                 PROVE  \E g \in Helper : dog'[g] \in {"watching", "repair"} \/ at'[g] = "watch"
      BY DEF Minded
    <2>1. table # 0 /\ ~bare BY Zenon DEF Exits
    <2>2. PICK g \in Helper : dog[g] \in {"watching", "repair"} \/ at[g] = "watch" BY <2>1 DEF Minded
    <2>3. CASE dog[g] \in {"watching", "repair"} BY <2>3
    <2>4. CASE at[g] = "watch" /\ g # h BY <2>4 DEF Exits, Typed
    <2>5. CASE at[g] = "watch" /\ g = h BY <2>5, Zenon DEF Exits, Locked, Watched, Holding
    <2> QED BY <2>2, <2>3, <2>4, <2>5
  <1> QED BY <1>1, <1>2, <1>3, <1>4, <1>5

LEMMA IdleKeeps ==
    ASSUME IInv, UNCHANGED relevant
    PROVE  IInv'
  BY DEF IInv, relevant, Typed, Locked, Watched, Installed, Minded

-----------------------------------------------------------------------------
(* Every step of the desktop keeps the invariant.                          *)

(* The guards and the loop move; an error before them exits.               *)
LEMMA GuardsKeep ==
    ASSUME IInv, NEW h \in Helper,
           \/ connect(h) \/ InstallFirewall(h) \/ InstallServerRoute(h) \/ add_tunnel_route(h)
           \/ InstallDns(h) \/ refresh_server_route(h) \/ LeaveLoop(h) \/ DropFirewall(h)
           \/ DropRoutes(h) \/ exit(h)
    PROVE  \/ \E to : Moves(h, to)
           \/ /\ \E how \in {"exited", "failed"} : Exits(h, how)
              /\ at[h] \in Holding /\ UNCHANGED <<dog, table>>
  <1> USE DEF IInv, Typed, Installed, Moves, Holding, Fencing, Before, Laid, KeepHelper, KeepProcess, Step, machine, screen
  <1>1. ASSUME connect(h) PROVE Moves(h, "fence") \/ (Exits(h, "failed") /\ at[h] \in Holding /\ UNCHANGED <<dog, table>>)
    BY <1>1 DEF connect, ExitsWithError
  <1>2. ASSUME InstallFirewall(h) PROVE Moves(h, "route") \/ Moves(h, "exit")
    BY <1>2, SMTT(60) DEF InstallFirewall
  <1>3. ASSUME InstallServerRoute(h) PROVE Moves(h, "halves") \/ Moves(h, "undo_fence")
    BY <1>3, SMTT(60) DEF InstallServerRoute
  <1>4. ASSUME add_tunnel_route(h) PROVE Moves(h, "dns") \/ Moves(h, "halves") \/ Moves(h, "undo_routes")
    BY <1>4, SMTT(60) DEF add_tunnel_route
  <1>5. ASSUME InstallDns(h) PROVE Moves(h, "loop") \/ Moves(h, "unfence") \/ Moves(h, "undo_routes")
    BY <1>5, SMTT(30) DEF InstallDns
  <1>6. ASSUME refresh_server_route(h) PROVE Moves(h, "loop")
    BY <1>6, SMTT(60) DEF refresh_server_route
  <1>7. ASSUME LeaveLoop(h) PROVE Moves(h, "unfence")
    BY <1>7, SMTT(30) DEF LeaveLoop
  <1>8. ASSUME DropFirewall(h) PROVE Moves(h, "unroute") \/ Moves(h, "exit")
    <2>1. CASE at[h] = "unfence" BY <1>8, <2>1, SMTT(60) DEF DropFirewall
    <2>2. CASE at[h] = "undo_fence" BY <1>8, <2>2, SMTT(60) DEF DropFirewall
    <2> QED BY <1>8, <2>1, <2>2 DEF DropFirewall
  <1>9. ASSUME DropRoutes(h) PROVE Moves(h, "exit") \/ Moves(h, "undo_fence")
    <2>1. halves' = [halves EXCEPT ![h] = 0] \/ halves' = halves BY <1>9 DEF DropRoutes
    <2>2. at[h] \in Holding \ {"watch"} /\ UNCHANGED <<lock, dog, bare, table>> BY <1>9 DEF DropRoutes
    <2>3. /\ table' \in Helper \cup {0} /\ halves' \in [Helper -> 0 .. 2]
          /\ \A g \in Helper \ {h} : halves'[g] = halves[g]
          /\ halves'[h] <= halves[h]
      BY <2>1, <2>2, SMTT(60)
    <2>4. CASE at[h] = "unroute"
      <3>1. at' = [at EXCEPT ![h] = "exit"] BY <1>9, <2>4 DEF DropRoutes
      <3> QED BY <2>2, <2>3, <3>1, SMTT(60)
    <2>5. CASE at[h] = "undo_routes"
      <3>1. at' = [at EXCEPT ![h] = "undo_fence"] BY <1>9, <2>5, SMTT(30) DEF DropRoutes
      <3> QED BY <2>2, <2>3, <3>1, SMTT(60)
    <2> QED BY <1>9, <2>4, <2>5 DEF DropRoutes
  <1>10. ASSUME exit(h)
         PROVE  (Exits(h, "exited") \/ Exits(h, "failed")) /\ at[h] \in Holding /\ UNCHANGED <<dog, table>>
    BY <1>10 DEF exit, ExitsWithError
  <1> HIDE DEF IInv, Typed, Installed, Moves, Holding, Fencing
  <1> QED BY <1>1, <1>2, <1>3, <1>4, <1>5, <1>6, <1>7, <1>8, <1>9, <1>10

LEMMA HelperKeeps ==
    ASSUME IInv, NEW h \in Helper, HelperStep(h) \/ refresh_server_route(h) \/ LeaveLoop(h)
    PROVE  IInv'
  <1> USE DEF KeepProcess, machine, screen
  <1>1. ASSUME acquire_runtime_lock(h) PROVE IInv'
    <2>1. CASE ExitsWithError(h)
      BY <1>1, <2>1, ExitsKeeps DEF acquire_runtime_lock, ExitsWithError
    <2>2. CASE lock = Free /\ lock' = <<h, "helper">> /\ at' = [at EXCEPT ![h] = "watch"]
      <3> USE DEF IInv
      <3>1. UNCHANGED <<dog, table, halves, bare>> /\ at[h] = "lock" BY <1>1, <2>2 DEF acquire_runtime_lock, Exits, ExitsWithError
      <3>2. \A g \in Helper : at[g] \notin Holding /\ dog[g] # "repair"
        BY <2>2, DesktopAssumption DEF Locked, Free
      <3>3. Typed' BY <2>2, <3>1 DEF Typed, Steps, Holding
      <3>4. Locked' BY <2>2, <3>1, <3>2 DEF Typed, Locked, Holding
      <3>5. Watched' BY <2>2, <3>1 DEF Typed, Watched, Holding
      <3>6. Installed' BY <2>2, <3>1 DEF Typed, Installed, Fencing, Before, Laid
      <3>7. Minded' BY <2>2, <3>1 DEF Typed, Minded
      <3> QED BY <3>3, <3>4, <3>5, <3>6, <3>7
    <2> QED BY <1>1, <2>1, <2>2 DEF acquire_runtime_lock
  <1>2. ASSUME spawn_watchdog(h) PROVE IInv'
    <2>1. CASE ExitsWithError(h) /\ UNCHANGED dog
      BY <1>2, <2>1, ExitsKeeps DEF spawn_watchdog, ExitsWithError, Holding
    <2>2. CASE dog' = [dog EXCEPT ![h] = "watching"]
      <3> USE DEF IInv
      <3>1. /\ at[h] = "watch" /\ UNCHANGED <<table, halves, bare>>
            /\ \/ at' = [at EXCEPT ![h] = "check"] /\ UNCHANGED lock
               \/ at' = [at EXCEPT ![h] = "failed"] /\ lock' = Free
        BY <1>2, <2>2 DEF spawn_watchdog, ExitsWithError, Exits, Typed, Watched
      <3>2. lock = <<h, "helper">> /\ \A g \in Helper \ {h} : at[g] \notin Holding /\ dog[g] # "repair"
        BY <3>1, LockExcludes DEF Holding
      <3>3. Typed' BY <2>2, <3>1 DEF Typed, Steps, Holding
      <3>4. Locked' BY <2>2, <3>1, <3>2, DesktopAssumption DEF Typed, Locked, Holding, Free
      <3>5. Watched' BY <2>2, <3>1 DEF Typed, Watched, Holding
      <3>6. Installed' BY <2>2, <3>1 DEF Typed, Installed, Fencing, Before, Laid
      <3>7. Minded' BY <2>2, <3>1 DEF Typed, Minded
      <3> QED BY <3>3, <3>4, <3>5, <3>6, <3>7
    <2> QED BY <1>2, <2>1, <2>2 DEF spawn_watchdog
  <1>3. ASSUME ensure_no_competing_full_tunnel(h) PROVE IInv'
    <2>1. CASE ExitsWithError(h)
      BY <1>3, <2>1, ExitsKeeps DEF ensure_no_competing_full_tunnel, ExitsWithError, Holding
    <2>2. CASE at' = [at EXCEPT ![h] = "repair"] /\ UNCHANGED <<lock, halves, bare>>
      <3>1. Moves(h, "repair")
        BY <1>3, <2>2 DEF ensure_no_competing_full_tunnel, Moves, Holding, Fencing, Before, Laid, Installed, IInv, Typed
      <3> QED BY <3>1, MovesKeeps
    <2> QED BY <1>3, <2>1, <2>2 DEF ensure_no_competing_full_tunnel
  <1>4. ASSUME repair_platform_state(h) PROVE IInv'
    <2>1. CASE RepairFails /\ ExitsWithError(h)
      BY <1>4, <2>1, ExitsKeeps DEF repair_platform_state, ExitsWithError, RepairFails, Holding
    <2>2. CASE /\ repair_stale_network(server[h]) \/ TableStays(server[h])
               /\ at' = [at EXCEPT ![h] = "connect"] /\ UNCHANGED <<lock, halves, bare>>
      <3>1. table' \in Helper \cup {0} /\ halves \in [Helper -> 0 .. 2]
        BY <2>2 DEF repair_stale_network, TableStays, IInv, Typed
      <3>2. at[h] = "repair" /\ UNCHANGED dog BY <1>4 DEF repair_platform_state, KeepProcess
      <3>3. Laid("connect", halves[h]) BY <3>2 DEF IInv, Typed, Installed, Laid, Before
      <3>4. Moves(h, "connect") BY <2>2, <3>1, <3>2, <3>3 DEF Moves, Holding, Fencing
      <3> QED BY <3>4, MovesKeeps
    <2> QED BY <1>4, <2>1, <2>2 DEF repair_platform_state
  <1>5. CASE \/ connect(h) \/ InstallFirewall(h) \/ InstallServerRoute(h) \/ add_tunnel_route(h)
             \/ InstallDns(h) \/ refresh_server_route(h) \/ LeaveLoop(h) \/ DropFirewall(h)
             \/ DropRoutes(h) \/ exit(h)
    BY <1>5, GuardsKeep, MovesKeeps, ExitsKeeps
  <1> QED BY <1>1, <1>2, <1>3, <1>4, <1>5 DEF HelperStep

(* A watchdog that loses the lock leaves the table to a helper that is     *)
(* watched, or to another watchdog at its repair.                          *)
LEMMA DogKeeps ==
    ASSUME IInv, NEW h \in Helper, DogStep(h)
    PROVE  IInv'
  <1> USE DEF IInv, machine, screen
  <1>1. ASSUME NoticeEnd(h) PROVE IInv'
    <2>0. dog[h] = "watching" /\ at[h] \in {"exited", "failed"} /\ UNCHANGED <<at, table, halves, bare>>
      BY <1>1 DEF NoticeEnd, Ended
    <2>1. CASE lock = Free
      <3>0. lock' = <<h, "dog">> /\ dog' = [dog EXCEPT ![h] = "repair"] BY <1>1, <2>1 DEF NoticeEnd
      <3>1. \A g \in Helper : at[g] \notin Holding /\ dog[g] # "repair"
        BY <2>1, DesktopAssumption DEF Locked, Free
      <3>2. Typed' BY <2>0, <3>0 DEF Typed
      <3>3. Locked' BY <2>0, <3>0, <3>1 DEF Typed, Locked
      <3>4. Watched' BY <2>0, <3>0, <3>1 DEF Typed, Watched
      <3>5. Installed' /\ Minded' BY <2>0, <3>0 DEF Typed, Installed, Minded
      <3> QED BY <3>2, <3>3, <3>4, <3>5
    <2>2. CASE lock # Free
      <3>0. lock' = lock /\ dog' = [dog EXCEPT ![h] = "done"] BY <1>1, <2>2 DEF NoticeEnd
      <3>1. PICK k \in Helper : lock = <<k, "helper">> \/ lock = <<k, "dog">> BY <2>2 DEF Typed
      <3>2. (at[k] \in Holding \/ dog[k] = "repair") /\ k # h
        BY <2>0, <3>1 DEF Locked, Holding
      <3>3. Typed' BY <2>0, <3>0 DEF Typed
      <3>4. Locked' BY <2>0, <3>0 DEF Typed, Locked, Holding
      <3>5. Watched' BY <2>0, <3>0 DEF Typed, Watched, Holding
      <3>6. Installed' BY <2>0 DEF Installed
      <3>7. Minded' BY <2>0, <3>0, <3>2 DEF Typed, Minded, Watched
      <3> QED BY <3>3, <3>4, <3>5, <3>6, <3>7
    <2> QED BY <2>1, <2>2
  <1>2. ASSUME Repair(h) PROVE IInv'
    <2>0. /\ dog[h] = "repair" /\ dog' = [dog EXCEPT ![h] = "done"] /\ UNCHANGED <<at, halves>>
          /\ (table' = 0 \/ (table' = table /\ bare')) /\ lock = <<h, "dog">> /\ lock' = Free
      BY <1>2 DEF Repair, repair_stale_network, RepairFails, TableStays, Locked
    <2>1. \A g \in Helper : at[g] \notin Holding /\ (g # h => dog[g] # "repair") BY <2>0 DEF Locked
    <2>2. Typed' BY <2>0 DEF Typed
    <2>3. Locked' BY <2>0, <2>1, DesktopAssumption DEF Typed, Locked, Free
    <2>4. Watched' BY <2>0, <2>1 DEF Typed, Watched, Holding
    <2>5. Installed' BY <2>0, <2>1 DEF Installed, Fencing, Holding
    <2>6. Minded' BY <2>0 DEF Minded
    <2> QED BY <2>2, <2>3, <2>4, <2>5, <2>6
  <1> QED BY <1>1, <1>2 DEF DogStep

(* The steps of the GUI, the user, the gateway and the kernel.             *)
LEMMA OthersKeep ==
    ASSUME IInv, NEW h \in Helper,
           connect_profile \/ disconnect \/ GuiEnds \/ run_gui \/ Roams \/ Authorize(h) \/ Killed(h)
    PROVE  IInv'
  <1> USE DEF machine, screen, process, KeepProcess
  <1>1. ASSUME NEW g \in Helper, at[g] \in {"unused", "auth"}, NEW to \in {"auth", "lock"},
               at[g] = "unused" \/ to = "lock", at' = [at EXCEPT ![g] = to],
               UNCHANGED <<dog, lock, table, halves, bare>>
        PROVE  IInv'
    <2> USE DEF IInv
    <2>1. Typed' BY <1>1 DEF Typed, Steps
    <2>2. Locked' /\ Watched' BY <1>1 DEF Typed, Locked, Watched, Holding
    <2>3. Installed' BY <1>1 DEF Typed, Installed, Fencing, Before, Laid
    <2>4. Minded' BY <1>1 DEF Typed, Minded
    <2> QED BY <2>1, <2>2, <2>3, <2>4
  <1>2. ASSUME connect_profile PROVE IInv'
    BY <1>1, <1>2, IdleKeeps DEF connect_profile, relevant
  <1>3. ASSUME Authorize(h) PROVE IInv'
    <2>1. CASE Exits(h, "failed") BY <1>3, <2>1, ExitsKeeps DEF Authorize
    <2>2. CASE at' = [at EXCEPT ![h] = "lock"] /\ UNCHANGED <<lock, halves, bare>>
      BY <1>1, <1>3, <2>2, Zenon DEF Authorize
    <2> QED BY <1>3, <2>1, <2>2 DEF Authorize
  <1>4. ASSUME Killed(h) PROVE IInv'
    <2>1. at[h] \in Holding \cup {"auth", "lock"} BY <1>4 DEF Killed, Alive, Ended, IInv, Typed, Steps
    <2> QED BY <1>4, <2>1, ExitsKeeps DEF Killed
  <1>5. ASSUME disconnect \/ GuiEnds \/ run_gui \/ Roams PROVE IInv'
    BY <1>5, IdleKeeps DEF disconnect, GuiEnds, run_gui, Roams, relevant
  <1> QED BY <1>2, <1>3, <1>4, <1>5

LEMMA Inductive == IInv /\ [Next]_vars => IInv'
  <1> SUFFICES ASSUME IInv, [Next]_vars PROVE IInv' OBVIOUS
  <1>1. CASE UNCHANGED vars BY <1>1, IdleKeeps DEF vars, process, machine, relevant
  <1>2. ASSUME connect_profile \/ disconnect \/ GuiEnds \/ run_gui \/ Roams, Helper # {} PROVE IInv'
    <2>1. PICK h \in Helper : TRUE BY <1>2
    <2> QED BY <1>2, <2>1, OthersKeep
  <1>3. ASSUME connect_profile \/ disconnect \/ GuiEnds \/ run_gui \/ Roams, Helper = {} PROVE IInv'
    BY <1>3, IdleKeeps, Zenon DEF connect_profile, disconnect, GuiEnds, run_gui, Roams, relevant, machine, process
  <1>4. ASSUME NEW h \in Helper,
               \/ Authorize(h) \/ HelperStep(h) \/ refresh_server_route(h)
               \/ LeaveLoop(h) \/ DogStep(h) \/ Killed(h)
        PROVE  IInv'
    BY <1>4, OthersKeep, HelperKeeps, DogKeeps
  <1> QED BY <1>1, <1>2, <1>3, <1>4 DEF Next

(* The invariant holds for any number of helpers, mishaps and GUIs.        *)
THEOREM DesktopInvariant == Spec => []IInv
  <1>1. Init => IInv
    <2> SUFFICES ASSUME Init PROVE IInv OBVIOUS
    <2> USE DEF Init
    <2>1. Typed BY DEF Typed, Steps
    <2>2. Locked BY DesktopAssumption, Zenon DEF Locked, Holding, Free
    <2>3. Watched /\ Installed /\ Minded BY DEF Watched, Holding, Installed, Fencing, Before, Laid, Minded
    <2> QED BY <2>1, <2>2, <2>3 DEF IInv
  <1> QED BY <1>1, Inductive, PTL DEF Spec

(* The rest of the types: what the helpers are told and know, and where    *)
(* the routes lead.                                                        *)
Flags == told \in [Helper -> BOOLEAN] /\ failing \in [Helper -> BOOLEAN]
Places ==
    /\ server \in [Helper -> Server \cup {None}] /\ gateway \in Gateway \cup {None}
    /\ path \in [Server -> Gateway \cup {None}] /\ cached \in [Helper -> Gateway \cup {None}]

LEMMA FlagsKept == Flags /\ [Next]_vars => Flags'
  <1> SUFFICES ASSUME Flags, [Next]_vars PROVE Flags' OBVIOUS
  <1> USE DEF Flags, KeepProcess, KeepHelper, process
  <1>1. ASSUME UNCHANGED <<told, failing>> PROVE Flags' BY <1>1
  <1>2. ASSUME connect_profile \/ disconnect \/ GuiEnds \/ run_gui \/ Roams PROVE Flags'
    BY <1>2, Zenon DEF connect_profile, disconnect, GuiEnds, run_gui, Roams
  <1>3. ASSUME NEW h \in Helper, Authorize(h) \/ DogStep(h) \/ Killed(h) PROVE Flags'
    BY <1>1, <1>3, Zenon DEF Authorize, DogStep, NoticeEnd, Repair, Killed
  <1>4. ASSUME NEW h \in Helper,
               \/ acquire_runtime_lock(h) \/ spawn_watchdog(h) \/ ensure_no_competing_full_tunnel(h)
               \/ repair_platform_state(h) \/ connect(h) \/ DropFirewall(h) \/ DropRoutes(h) \/ exit(h)
               \/ refresh_server_route(h)
        PROVE  Flags'
    BY <1>1, <1>4, Zenon DEF acquire_runtime_lock, spawn_watchdog, ensure_no_competing_full_tunnel,
       repair_platform_state, connect, DropFirewall, DropRoutes, exit, refresh_server_route
  <1>5. ASSUME NEW h \in Helper, UNCHANGED told, UNCHANGED failing \/ failing' = [failing EXCEPT ![h] = TRUE]
        PROVE  Flags'
    BY <1>5, Zenon
  <1>6. ASSUME NEW h \in Helper,
               InstallFirewall(h) \/ InstallServerRoute(h) \/ add_tunnel_route(h) \/ InstallDns(h) \/ LeaveLoop(h)
        PROVE  Flags'
    BY <1>5, <1>6 DEF InstallFirewall, InstallServerRoute, add_tunnel_route, InstallDns, LeaveLoop
  <1>7. CASE UNCHANGED vars BY <1>1, <1>7 DEF vars
  <1> QED BY <1>2, <1>3, <1>4, <1>6, <1>7 DEF Next, HelperStep

LEMMA PlacesKept == Places /\ [Next]_vars => Places'
  <1> SUFFICES ASSUME Places, [Next]_vars PROVE Places' OBVIOUS
  <1> USE DEF Places, KeepProcess, KeepHelper, KeepGui, machine, Exits, ExitsWithError
  <1>1. ASSUME connect_profile \/ disconnect \/ GuiEnds \/ run_gui \/ Roams PROVE Places'
    BY <1>1 DEF connect_profile, disconnect, GuiEnds, run_gui, Roams, process
  <1>2. ASSUME NEW h \in Helper, Authorize(h) \/ DogStep(h) \/ Killed(h) PROVE Places'
    BY <1>2, SMTT(30) DEF Authorize, DogStep, NoticeEnd, Repair, Killed, repair_stale_network, RepairFails, TableStays
  <1>3. ASSUME NEW h \in Helper,
               \/ acquire_runtime_lock(h) \/ spawn_watchdog(h) \/ ensure_no_competing_full_tunnel(h)
               \/ repair_platform_state(h) \/ connect(h) \/ exit(h)
        PROVE  Places'
    BY <1>3 DEF acquire_runtime_lock, spawn_watchdog, ensure_no_competing_full_tunnel,
       repair_platform_state, connect, exit, repair_stale_network, RepairFails, TableStays
  <1>4. ASSUME NEW h \in Helper,
               InstallFirewall(h) \/ InstallServerRoute(h) \/ add_tunnel_route(h) \/ InstallDns(h) \/ LeaveLoop(h)
        PROVE  Places'
    BY <1>4 DEF InstallFirewall, InstallServerRoute, add_tunnel_route, InstallDns, LeaveLoop
  <1>5. ASSUME NEW h \in Helper, DropFirewall(h) \/ DropRoutes(h) PROVE Places'
    BY <1>5 DEF DropFirewall, DropRoutes
  <1>6. ASSUME NEW h \in Helper, refresh_server_route(h) PROVE Places'
    <2>1. UNCHANGED <<server, gateway>> BY <1>6 DEF refresh_server_route
    <2>2. /\ gateway \in Gateway \cup {None} /\ cached[h] \in Gateway \cup {None}
          /\ \/ path' = path \/ path' = [path EXCEPT ![server[h]] = gateway]
             \/ path' = [path EXCEPT ![server[h]] = None] \/ path' = [path EXCEPT ![server[h]] = cached[h]]
      BY <1>6 DEF refresh_server_route
    <2>3. path' \in [Server -> Gateway \cup {None}] BY <2>2
    <2>4. \/ cached' = [cached EXCEPT ![h] = gateway] \/ cached' = [cached EXCEPT ![h] = None]
          \/ cached' = [cached EXCEPT ![h] = cached[h]]
      BY <1>6 DEF refresh_server_route
    <2>5. cached' \in [Helper -> Gateway \cup {None}] BY <2>2, <2>4
    <2> QED BY <2>1, <2>3, <2>5, SMTT(30)
  <1>7. CASE UNCHANGED vars BY <1>7 DEF vars, process
  <1> QED BY <1>1, <1>2, <1>3, <1>4, <1>5, <1>6, <1>7 DEF Next, HelperStep

(* When no helper and no watchdog is left there is no table: what the      *)
(* watchdog of helper_runtime.rs is for.                                   *)
THEOREM FenceAlwaysLifted == Spec => []FenceLifted
  <1>1. Init => Flags /\ Places BY DesktopAssumption DEF Init, Flags, Places
  <1>2. IInv /\ Flags /\ Places => FenceLifted
    <2> SUFFICES ASSUME IInv, Flags, Places PROVE FenceLifted OBVIOUS
    <2>1. TypeOK BY DEF IInv, Typed, Flags, Places, TypeOK, Steps, Holding
    <2>2. Quiet /\ ~bare => table = 0 BY DEF IInv, Minded, Quiet, Alive, Ended
    <2> QED BY <2>1, <2>2 DEF FenceLifted
  <1> QED BY <1>1, <1>2, FlagsKept, PlacesKept, DesktopInvariant, PTL DEF Spec

-----------------------------------------------------------------------------
(* The refinement: what the steps of the desktop are to TunnelFence.       *)

(* While a helper is connected nobody else touches the table, and its      *)
(* halves are there.                                                       *)
LEMMA MovesRefines ==
    ASSUME IInv, NEW h \in Helper, NEW to, Moves(h, to)
    PROVE  [Fence!Next]_(Fence!vars)
  <1> DEFINE Up == \E g \in Helper : Connected(g)
  <1> DEFINE Routed == \E g \in Helper : halves[g] > 0
  <1>1. Up <=> at[h] = "loop" BY LockExcludes DEF Moves, Connected, Holding
  <1>2. Up' <=> to = "loop" BY LockExcludes DEF Moves, Connected, Holding, IInv, Typed
  <1>3. at[h] = "loop" => table # 0 /\ Routed BY DesktopAssumption DEF IInv, Installed, Fencing, Laid
  <1>4. to = "loop" => table # 0 /\ Routed BY DesktopAssumption DEF Moves, Fencing, Laid
  <1>5. Routed' /\ table = 0 => Routed BY DesktopAssumption DEF Moves, IInv, Typed
  <1>6. CASE to = "loop" /\ at[h] = "loop"
    <2>1. UNCHANGED <<table, halves>> BY <1>6 DEF Moves
    <2> QED BY <1>1, <1>2, <1>6, <2>1 DEF Fence!vars
  <1>7. CASE to = "loop" /\ at[h] # "loop"
    <2>1. UNCHANGED <<table, halves>> BY <1>7 DEF Moves
    <2> QED BY <1>1, <1>2, <1>4, <1>7, <2>1 DEF Fence!Next, Fence!Rise
  <1>8. CASE to # "loop" /\ at[h] = "loop"
    BY <1>1, <1>2, <1>8 DEF Fence!Next, Fence!Fall
  <1>9. CASE to # "loop" /\ at[h] # "loop"
    BY <1>1, <1>2, <1>5, <1>9, Zenon DEF Fence!Next, Fence!Prepare
  <1> QED BY <1>6, <1>7, <1>8, <1>9

LEMMA ExitsRefines ==
    ASSUME IInv, NEW h \in Helper, NEW how \in {"exited", "failed"}, Exits(h, how),
           at[h] \in Holding \cup {"auth", "lock"},
           table' = table \/ (table' = 0 /\ at[h] \in Holding)
    PROVE  [Fence!Next]_(Fence!vars)
  <1> DEFINE Up == \E g \in Helper : Connected(g)
  <1> DEFINE Routed == \E g \in Helper : halves[g] > 0
  <1> USE DEF Fence!Next, Fence!Prepare, Fence!Rise, Fence!Fall, Fence!vars
  <1>1. Routed' => Routed BY SMTT(60) DEF Exits, IInv, Typed
  <1>2. CASE ~Up
    <2>1. ~Up' BY <1>2 DEF Exits, Connected, IInv, Typed
    <2> QED BY <1>1, <1>2, <2>1, Zenon
  <1>3. CASE Up /\ at[h] = "loop"
    <2>1. ~Up' BY <1>3, LockExcludes DEF Exits, Connected, Holding, IInv, Typed
    <2> QED BY <1>3, <2>1, Zenon
  <1>4. CASE Up /\ at[h] # "loop"
    <2>1. PICK g \in Helper : at[g] = "loop" BY <1>4 DEF Connected
    <2>2. g # h /\ at[h] \notin Holding BY <1>4, <2>1, LockExcludes DEF Holding
    <2>3. halves[g] = 2 /\ halves'[g] = 2 /\ at'[g] = "loop"
      BY <2>1, <2>2 DEF Exits, IInv, Typed, Installed, Laid
    <2>4. Up' BY <2>3 DEF Connected
    <2>5. Routed /\ Routed' BY <2>3
    <2> QED BY <1>4, <2>2, <2>4, <2>5, Zenon
  <1> QED BY <1>2, <1>3, <1>4, Zenon

(* Steps that leave the table, the halves and the connected helpers.       *)
LEMMA StutterRefines ==
    ASSUME UNCHANGED <<table, halves>>, \A g \in Helper : Connected(g)' <=> Connected(g)
    PROVE  UNCHANGED Fence!vars
  BY DEF Fence!vars

LEMMA HelperRefines ==
    ASSUME IInv, NEW h \in Helper, HelperStep(h) \/ refresh_server_route(h) \/ LeaveLoop(h)
    PROVE  [Fence!Next]_(Fence!vars)
  <1> USE DEF KeepProcess
  <1>1. ASSUME acquire_runtime_lock(h) \/ spawn_watchdog(h) PROVE [Fence!Next]_(Fence!vars)
    <2>1. CASE ExitsWithError(h)
      BY <1>1, <2>1, ExitsRefines DEF acquire_runtime_lock, spawn_watchdog, ExitsWithError, Holding
    <2>2. CASE ~ExitsWithError(h)
      <3>1. /\ UNCHANGED <<table, halves>> /\ at[h] \in {"lock", "watch"}
            /\ \E to \in {"watch", "check", "failed"} : at' = [at EXCEPT ![h] = to]
        BY <1>1, <2>2 DEF acquire_runtime_lock, spawn_watchdog
      <3>2. \A g \in Helper : Connected(g)' <=> Connected(g) BY <3>1 DEF Connected, IInv, Typed
      <3> QED BY <3>1, <3>2, StutterRefines
    <2> QED BY <2>1, <2>2
  <1>2. ASSUME ensure_no_competing_full_tunnel(h) \/ repair_platform_state(h) PROVE [Fence!Next]_(Fence!vars)
    <2>1. CASE ExitsWithError(h)
      BY <1>2, <2>1, ExitsRefines DEF ensure_no_competing_full_tunnel, repair_platform_state,
         repair_stale_network, RepairFails, TableStays, ExitsWithError, Holding
    <2>2. CASE ~ExitsWithError(h)
      <3>1. ASSUME ensure_no_competing_full_tunnel(h) PROVE Moves(h, "repair")
        BY <3>1, <2>2, SMTT(60) DEF ensure_no_competing_full_tunnel,
           Moves, Holding, Fencing, Before, Laid, Installed, IInv, Typed
      <3>2. ASSUME repair_platform_state(h) PROVE Moves(h, "connect")
        <4>1. /\ at[h] = "repair" /\ at' = [at EXCEPT ![h] = "connect"] /\ table' \in Helper \cup {0}
              /\ UNCHANGED <<lock, dog, bare, halves>>
          BY <3>2, <2>2, SMTT(30) DEF repair_platform_state, repair_stale_network, TableStays, IInv, Typed
        <4>2. halves \in [Helper -> 0 .. 2] /\ Laid("connect", halves[h])
          BY <4>1 DEF IInv, Typed, Installed, Laid, Before
        <4> QED BY <4>1, <4>2 DEF Moves, Holding, Fencing
      <3> QED BY <1>2, <3>1, <3>2, MovesRefines
    <2> QED BY <2>1, <2>2
  <1>3. CASE \/ connect(h) \/ InstallFirewall(h) \/ InstallServerRoute(h) \/ add_tunnel_route(h)
             \/ InstallDns(h) \/ refresh_server_route(h) \/ LeaveLoop(h) \/ DropFirewall(h)
             \/ DropRoutes(h) \/ exit(h)
    BY <1>3, GuardsKeep, MovesRefines, ExitsRefines
  <1> QED BY <1>1, <1>2, <1>3 DEF HelperStep

(* LinuxDesktop implements TunnelFence: no helper, watchdog, GUI or mishap *)
(* takes the fence away under a connected helper, and traffic is led into  *)
(* the tunnel only behind it.                                              *)
THEOREM DesktopFenced == Spec => FenceKept
  <1>1. Init => Fence!Init
    BY DEF Init, Fence!Init, Connected
  <1>2. IInv /\ [Next]_vars => [Fence!Next]_(Fence!vars)
    <2> SUFFICES ASSUME IInv, [Next]_vars PROVE [Fence!Next]_(Fence!vars) OBVIOUS
    <2> USE DEF machine, process, KeepProcess
    <2>1. CASE UNCHANGED vars BY <2>1, StutterRefines DEF vars, Connected
    <2>2. ASSUME NEW h \in Helper, HelperStep(h) \/ refresh_server_route(h) \/ LeaveLoop(h)
          PROVE  [Fence!Next]_(Fence!vars)
      BY <2>2, HelperRefines
    <2>3. ASSUME disconnect \/ GuiEnds \/ run_gui \/ Roams PROVE [Fence!Next]_(Fence!vars)
      BY <2>3, StutterRefines DEF disconnect, GuiEnds, run_gui, Roams, Connected
    <2>4. ASSUME connect_profile PROVE [Fence!Next]_(Fence!vars)
      <3>1. \A g \in Helper : Connected(g)' <=> Connected(g)
        BY <2>4 DEF connect_profile, Connected, IInv, Typed
      <3> QED BY <2>4, <3>1, StutterRefines, SMTT(30) DEF connect_profile
    <2>5. ASSUME NEW h \in Helper, Authorize(h) PROVE [Fence!Next]_(Fence!vars)
      <3>1. CASE Exits(h, "failed") BY <2>5, <3>1, ExitsRefines DEF Authorize
      <3>2. CASE ~Exits(h, "failed")
        <4>1. \A g \in Helper : Connected(g)' <=> Connected(g)
          BY <2>5, <3>2 DEF Authorize, Connected, IInv, Typed
        <4> QED BY <2>5, <3>2, <4>1, StutterRefines DEF Authorize
      <3> QED BY <3>1, <3>2
    <2>6. ASSUME NEW h \in Helper, Killed(h) PROVE [Fence!Next]_(Fence!vars)
      <3>1. at[h] \in Holding \cup {"auth", "lock"} BY <2>6 DEF Killed, Alive, Ended, IInv, Typed, Steps
      <3> QED BY <2>6, <3>1, ExitsRefines DEF Killed
    <2>7. ASSUME NEW h \in Helper, NoticeEnd(h) PROVE [Fence!Next]_(Fence!vars)
      BY <2>7, StutterRefines DEF NoticeEnd, Connected
    <2>8. ASSUME NEW h \in Helper, Repair(h) PROVE [Fence!Next]_(Fence!vars)
      <3>1. \A g \in Helper : at[g] # "loop" BY <2>8, SMTT(60) DEF Repair, IInv, Locked, Holding
      <3>2. UNCHANGED <<at, halves>> BY <2>8 DEF Repair
      <3> QED BY <3>1, <3>2, Zenon DEF Fence!Next, Fence!Prepare, Fence!vars, Connected
    <2> QED BY <2>1, <2>2, <2>3, <2>4, <2>5, <2>6, <2>7, <2>8 DEF Next, DogStep
  <1> QED BY <1>1, <1>2, DesktopInvariant, PTL DEF Spec, FenceKept, Fence!Spec
===============================================================================
