------------------------- MODULE WindowsClientProofs -------------------------
(***************************************************************************)
(* FencedWhileRouted and JournalCovers for every set of networks,          *)
(* parameters and routing policies, and any number of failing calls,       *)
(* changes of network, crashes and launches.                               *)
(*                                                                         *)
(* Neither is inductive by itself.  What carries them through the steps is *)
(* Covered: which journal exists at which step, and what that journal says *)
(* about the rules while no helper was torn between remove_file and        *)
(* rename.                                                                 *)
(***************************************************************************)
EXTENDS WindowsClient, TLAPS

Installing == {"fence", "fallback", "routes", "undo", "rewrite"}
Routed == {"routes", "rewrite", "rename"}

(* Where the journal stands, and where the fence does.                     *)
Journalled ==
    /\ at \in {"connect", "bypass", "journal"} => journal = "absent"
    /\ at \in Installing => journal = "rules"
    /\ at \in Established => journal = IF switch THEN "no_rules" ELSE "rules"
    /\ at \in Established \cup Routed => switch \/ rules
    /\ switch => at \in Established \cup Routed \cup {"forget"}

(* What the journal proves about the machine.                              *)
Covered ==
    ~torn =>
        /\ journal = "absent" /\ at # "rename" => Clean
        /\ journal = "no_rules" => ~rules
        /\ at \in {"forget", "forget_stale"} => Clean
        /\ at = "fence" => ~rules
        /\ at \in Routed /\ switch => ~rules

(* The packet loop's own state exists while the loop or its join runs.     *)
Scoped == InLoop => at \in {"loop", "refresh", "dial", "apply", "hand", "join"}

IInv == TypeOK /\ Journalled /\ Covered /\ Scoped

(* A step within Established that keeps the journal, the kill switch and   *)
(* the history, and touches the rules at most as a refresh does.           *)
LEMMA Inside ==
    ASSUME TypeOK, Journalled, Covered, at \in Established, at' \in Established,
           switch' = switch, journal' = journal, torn' = torn,
           rules' = rules \/ rules' = (rules \/ ~switch)
    PROVE  Journalled' /\ Covered'
  <1>1. journal # "absent" BY DEF Journalled
  <1>2. (journal = "no_rules") => switch BY DEF Journalled
  <1>3. switch /\ rules' => rules BY Zenon
  <1>4. (switch \/ rules) => (switch' \/ rules') BY Zenon
  <1>5. Journalled' BY <1>4 DEF Journalled, Established, Routed, Installing
  <1>6. Covered' BY <1>1, <1>2, <1>3 DEF Covered, Established, Routed
  <1> QED BY <1>5, <1>6

(* The end of the process, by itself or by a kill.                         *)
LEMMA Ending ==
    ASSUME TypeOK, Journalled, Covered, Exits, journal' = journal,
           UNCHANGED <<machine, torn>>, at # "rename"
    PROVE  Journalled' /\ Covered'
  BY DEF TypeOK, PolicyTypeOK, Journalled, Covered, Exits, machine, Clean, Established, Routed, Installing

(* The steps that change the policy keep what the journal says true.       *)
LEMMA PolicySteps ==
    ASSUME TypeOK, Journalled, Covered,
           \/ Launch \/ recover_stale_state \/ ForgetStale \/ repair \/ InstallBypass
           \/ WriteJournal \/ InstallFence \/ FallBack \/ InstallRoutes \/ Undo
           \/ RemoveJournal \/ RenameJournal \/ Drop \/ Forget \/ RemoveAdapter \/ Crashes
           \/ Connect
    PROVE  Journalled' /\ Covered'
  <1> USE DEF TypeOK, PolicyTypeOK, Journalled, Covered, Established, Routed, Installing, Clean, machine, process, Works, Fails, Exits
  <1>1. CASE Launch BY <1>1 DEF Launch
  <1>2. CASE recover_stale_state
    <2>1. CASE journal = "absent" /\ ~adapter BY <1>2, <2>1 DEF recover_stale_state
    <2>2. CASE CleanedUp(SweepsRules) /\ UNCHANGED process /\ at' \in {"connect", "forget_stale"}
      <3>1. journal' = journal /\ at = "recover" /\ (at' = "connect" => journal = "absent")
        BY <1>2, <2>2 DEF recover_stale_state, CleanupFailed
      <3>2. rules' => rules BY <2>2 DEF CleanedUp, cleanup
      <3>3. ~torn' => Clean'
        <4>1. address' = None /\ server' = None /\ halves' = 0 BY <2>2 DEF CleanedUp, cleanup
        <4>2. SweepsRules => ~rules' BY <2>2, Zenon DEF CleanedUp, cleanup
        <4>3. ~SweepsRules /\ ~torn' => ~torn BY <2>2 DEF CleanedUp
        <4>4. ~SweepsRules /\ ~torn => ~rules BY <3>1 DEF SweepsRules
        <4> QED BY <4>1, <4>2, <4>3, <4>4, <3>2
      <3>4. ~switch' BY <3>1, <2>2
      <3> QED BY <3>1, <3>2, <3>3, <3>4, <2>2
    <2>3. CASE CleanupFailed(SweepsRules) /\ Exits
      <3>1. PICK failed \in SUBSET Parts(SweepsRules) \ {{}} : cleanup(SweepsRules, failed) BY <2>3 DEF CleanupFailed
      <3>2. rules' => rules BY <3>1 DEF cleanup
      <3>3. Clean => Clean' BY <3>1, SMTT(60) DEF cleanup
      <3> QED BY <1>2, <2>3, <3>2, <3>3 DEF recover_stale_state, CleanupFailed
    <2> QED BY <1>2, <2>1, <2>2, <2>3, Zenon DEF recover_stale_state
  <1>3. CASE ForgetStale BY <1>3, SMTT(60) DEF ForgetStale
  <1>4. CASE repair
    <2>1. CASE CleanedUp(TRUE) BY <1>4, <2>1 DEF repair, CleanedUp, cleanup
    <2>2. CASE CleanupFailed(TRUE) /\ UNCHANGED journal
      <3>1. PICK failed \in SUBSET Parts(TRUE) \ {{}} : cleanup(TRUE, failed) BY <2>2, Zenon DEF CleanupFailed
      <3>2. rules' => rules BY <3>1 DEF cleanup
      <3>3. Clean => Clean' BY <3>1 DEF cleanup
      <3> QED BY <1>4, <2>2, <3>2, <3>3 DEF repair, CleanupFailed
    <2> QED BY <1>4, <2>1, <2>2, Zenon DEF repair
  <1>5. CASE InstallBypass BY <1>5, SMTT(60) DEF InstallBypass
  <1>6. CASE WriteJournal BY <1>6, SMTT(60) DEF WriteJournal
  <1>7. CASE InstallFence
    <2>1. CASE InstallKillSwitch /\ UNCHANGED rules BY <1>7, <2>1, SMTT(60) DEF InstallFence, InstallKillSwitch
    <2>2. CASE InstallRules /\ UNCHANGED switch BY <1>7, <2>2, Zenon DEF InstallFence, InstallRules
    <2> QED BY <1>7, <2>1, <2>2 DEF InstallFence
  <1>8. CASE FallBack BY <1>8, Zenon DEF FallBack, InstallRules
  <1>9. CASE InstallRoutes
    <2>1. at = "routes" /\ UNCHANGED <<journal, rules, torn>> BY <1>9 DEF InstallRoutes
    <2>2. (at' = "rewrite" /\ switch' = switch) \/ (at' = "undo" /\ switch' = FALSE) BY <1>9 DEF InstallRoutes
    <2> QED BY <2>1, <2>2, SMTT(60)
  <1>10. CASE Undo BY <1>10, Zenon DEF Undo, CleanedUp, CleanupFailed, cleanup
  <1>11. CASE RemoveJournal BY <1>11 DEF RemoveJournal
  <1>12. CASE RenameJournal BY <1>12, SMTT(60) DEF RenameJournal
  <1>13. CASE Drop BY <1>13 DEF Drop, CleanedUp, CleanupFailed, cleanup
  <1>14. CASE Forget BY <1>14 DEF Forget
  <1>15. CASE RemoveAdapter BY <1>15 DEF RemoveAdapter
  <1>16. CASE Crashes BY <1>16 DEF Crashes
  <1>17. CASE Connect
    <2>1. CASE at' = "bypass" /\ UNCHANGED switch BY <1>17, <2>1, SMTT(30) DEF Connect
    <2>2. CASE Exits BY <1>17, <2>2, Ending DEF Connect
    <2> QED BY <1>17, <2>1, <2>2, Zenon DEF Connect
  <1> QED BY <1>1, <1>2, <1>3, <1>4, <1>5, <1>6, <1>7, <1>8, <1>9, <1>10, <1>11, <1>12, <1>13, <1>14, <1>15, <1>16, <1>17, Zenon

(* The steps of the packet loop and of the restarts around it are steps    *)
(* inside Established.                                                     *)
LEMMA LoopSteps ==
    ASSUME TypeOK, Journalled, Covered,
           \/ StartLoop \/ LeaveLoop \/ LoopFails \/ Reconnect \/ take_reconnect_request
           \/ ReconnectRefreshes \/ ReconnectDials \/ ReconnectApplies \/ ReconnectHands
           \/ Join \/ BackOff \/ Attempt \/ Restart
    PROVE  Journalled' /\ Covered'
  <1> USE DEF Established, machine, process
  <1>1. CASE StartLoop BY <1>1, Inside DEF StartLoop
  <1>2. CASE LeaveLoop BY <1>2, Inside DEF LeaveLoop, KeepPolicy
  <1>3. CASE LoopFails BY <1>3, Inside DEF LoopFails, Turn, KeepPolicy
  <1>4. CASE Reconnect BY <1>4, Inside DEF Reconnect, Turn, KeepPolicy
  <1>5. CASE take_reconnect_request BY <1>5, Inside DEF take_reconnect_request, Turn, KeepPolicy
  <1>6. CASE ReconnectRefreshes BY <1>6, Inside DEF ReconnectRefreshes, refresh, RefreshFails
  <1>7. CASE ReconnectDials BY <1>7, Inside DEF ReconnectDials, KeepPolicy
  <1>8. CASE ReconnectApplies BY <1>8, Inside DEF ReconnectApplies
  <1>9. CASE ReconnectHands BY <1>9, Inside DEF ReconnectHands, KeepPolicy
  <1>10. CASE Join BY <1>10, Inside DEF Join, KeepPolicy
  <1>11. CASE BackOff BY <1>11, Inside DEF BackOff, refresh, RefreshFails
  <1>12. CASE Attempt BY <1>12, Inside DEF Attempt, KeepPolicy
  <1>13. CASE Restart BY <1>13, Inside DEF Restart
  <1> QED BY <1>1, <1>2, <1>3, <1>4, <1>5, <1>6, <1>7, <1>8, <1>9, <1>10, <1>11, <1>12, <1>13

(* Cleaning up and refreshing keep the types of what they change, whatever *)
(* of it fails.                                                            *)
LEMMA CleanupTyped ==
    ASSUME TypeOK, NEW firewall_rules \in BOOLEAN, CleanedUp(firewall_rules) \/ CleanupFailed(firewall_rules)
    PROVE  /\ rules' \in BOOLEAN /\ torn' \in BOOLEAN /\ halves' \in 0 .. 2
           /\ server' \in Network \cup {None} /\ address' \in Param \cup {None}
  <1>1. PICK failed : cleanup(firewall_rules, failed) BY DEF CleanedUp, CleanupFailed
  <1>2. rules' \in BOOLEAN BY <1>1 DEF cleanup
  <1>3. torn' \in BOOLEAN BY Zenon DEF CleanedUp, CleanupFailed, TypeOK, PolicyTypeOK
  <1>4. halves' \in 0 .. 2 BY <1>1 DEF cleanup, TypeOK, PolicyTypeOK
  <1>5. server' \in Network \cup {None} /\ address' \in Param \cup {None}
    BY <1>1 DEF cleanup, TypeOK, PolicyTypeOK
  <1> QED BY <1>2, <1>3, <1>4, <1>5

LEMMA RefreshTyped ==
    ASSUME TypeOK, refresh \/ RefreshFails
    PROVE  /\ rules' \in BOOLEAN /\ halves' \in 0 .. 2
           /\ server' \in Network \cup {None} /\ bypass' \in Network \cup {None, "closed"}
  <1> USE DEF TypeOK, PolicyTypeOK, refresh, RefreshFails, repair_routes, HasDefaultRoute
  <1>1. rules' \in BOOLEAN BY Zenon
  <1>2. halves' \in 0 .. 2 OBVIOUS
  <1>3. server' \in Network \cup {None} OBVIOUS
  <1>4. bypass' \in Network \cup {None, "closed"} OBVIOUS
  <1> QED BY <1>1, <1>2, <1>3, <1>4

(* The end of the process resets its variables; another step of the policy *)
(* leaves them.                                                            *)
LEMMA LocalsTyped ==
    ASSUME TypeOK, Locals, PolicyTypeOK', at' \in Steps
    PROVE  TypeOK'
  BY Zenon DEF TypeOK, Locals, LoopLocals, runtime, loop

(* Every step of the policy keeps the types.                               *)
LEMMA PolicyTypesKept ==
    ASSUME TypeOK
    PROVE  \/ Launch \/ recover_stale_state \/ ForgetStale \/ repair \/ InstallBypass
           \/ WriteJournal \/ InstallFence \/ FallBack \/ InstallRoutes \/ Undo
           \/ RemoveJournal \/ RenameJournal \/ Drop \/ Forget \/ RemoveAdapter \/ Crashes
           => PolicyTypeOK' /\ at' \in Steps
  <1> DEFINE Flags == rules \in BOOLEAN /\ switch \in BOOLEAN /\ adapter \in BOOLEAN /\ torn \in BOOLEAN
  <1> DEFINE Places ==
        /\ journal \in {"absent", "garbled", "rules", "no_rules"} /\ at \in Steps
        /\ server \in Network \cup {None} /\ gateway \in Network \cup {None}
        /\ bypass \in Network \cup {None, "closed"}
        /\ halves \in 0 .. 2 /\ routing \in AppRouting \cup {None}
        /\ address \in Param \cup {None} /\ guarded \in Param \cup {None}
  <1> USE DEF TypeOK, PolicyTypeOK, Steps, machine, process, Exits
  <1>1. ASSUME Launch PROVE PolicyTypeOK' /\ at' \in Steps
    BY <1>1 DEF Launch
  <1>2. ASSUME recover_stale_state PROVE PolicyTypeOK' /\ at' \in Steps
    <2>1. CASE UNCHANGED <<machine, process, torn>> /\ at' = "connect"
      BY <1>2, <2>1, SMTT(90) DEF recover_stale_state
    <2>2. CASE CleanedUp(SweepsRules) \/ CleanupFailed(SweepsRules)
      <3>1. SweepsRules \in BOOLEAN BY DEF SweepsRules
      <3> HIDE DEF SweepsRules
      <3>2. /\ rules' \in BOOLEAN /\ torn' \in BOOLEAN /\ halves' \in 0 .. 2
            /\ server' \in Network \cup {None} /\ address' \in Param \cup {None}
        BY <2>2, <3>1, CleanupTyped
      <3>3. Flags' BY <1>2, <3>2, Zenon DEF recover_stale_state
      <3>4. Places' BY <1>2, <3>2 DEF recover_stale_state
      <3> QED BY <3>3, <3>4
    <2> QED BY <1>2, <2>1, <2>2 DEF recover_stale_state
  <1>3. ASSUME ForgetStale PROVE PolicyTypeOK' /\ at' \in Steps
    BY <1>3, ZenonT(60) DEF ForgetStale
  <1>4. ASSUME repair PROVE PolicyTypeOK' /\ at' \in Steps
    <2>1. Flags' BY <1>4, CleanupTyped, Zenon DEF repair
    <2>2. Places' BY <1>4, CleanupTyped, ZenonT(60) DEF repair
    <2> QED BY <2>1, <2>2
  <1>5. ASSUME InstallBypass PROVE PolicyTypeOK' /\ at' \in Steps
    <2>1. Flags' BY <1>5, Zenon DEF InstallBypass, open_engine, HasDefaultRoute
    <2>2. Places' BY <1>5 DEF InstallBypass, open_engine, HasDefaultRoute
    <2> QED BY <2>1, <2>2
  <1>6. ASSUME WriteJournal PROVE PolicyTypeOK' /\ at' \in Steps
    BY <1>6, ZenonT(60) DEF WriteJournal
  <1>7. ASSUME InstallFence PROVE PolicyTypeOK' /\ at' \in Steps
    <2>1. Flags' BY <1>7, Zenon DEF InstallFence, InstallKillSwitch, InstallRules
    <2>2. at' \in Steps BY <1>7, Zenon DEF InstallFence, InstallKillSwitch, InstallRules
    <2>3. Places' BY <1>7, <2>2 DEF InstallFence
    <2> QED BY <2>1, <2>3
  <1>8. ASSUME FallBack PROVE PolicyTypeOK' /\ at' \in Steps
    <2>1. Flags' BY <1>8, Zenon DEF FallBack, InstallRules
    <2>2. at' \in Steps BY <1>8, Zenon DEF FallBack, InstallRules
    <2>3. Places' BY <1>8, <2>2, SMTT(60) DEF FallBack
    <2> QED BY <2>1, <2>3
  <1>9. ASSUME InstallRoutes PROVE PolicyTypeOK' /\ at' \in Steps
    <2>1. Flags' BY <1>9, Zenon DEF InstallRoutes, Applied, PartlyApplied, RoutesAdded, RoutesPartlyAdded, HasDefaultRoute
    <2>2. Places' BY <1>9, SMTT(60) DEF InstallRoutes, Applied, PartlyApplied, RoutesAdded, RoutesPartlyAdded, HasDefaultRoute
    <2> QED BY <2>1, <2>2
  <1>10. ASSUME Undo PROVE PolicyTypeOK' /\ at' \in Steps
    BY <1>10, CleanupTyped, Zenon DEF Undo
  <1>11. ASSUME RemoveJournal PROVE PolicyTypeOK' /\ at' \in Steps
    BY <1>11, ZenonT(60) DEF RemoveJournal
  <1>12. ASSUME RenameJournal PROVE PolicyTypeOK' /\ at' \in Steps
    BY <1>12, ZenonT(60) DEF RenameJournal
  <1>13. ASSUME Drop PROVE PolicyTypeOK' /\ at' \in Steps
    BY <1>13, CleanupTyped, Zenon DEF Drop
  <1>14. ASSUME Forget PROVE PolicyTypeOK' /\ at' \in Steps
    <2>1. Flags' BY <1>14, Zenon DEF Forget
    <2>2. Places' BY <1>14, ZenonT(60) DEF Forget
    <2> QED BY <2>1, <2>2
  <1>15. ASSUME RemoveAdapter PROVE PolicyTypeOK' /\ at' \in Steps
    <2>1. Flags' BY <1>15, Zenon DEF RemoveAdapter
    <2>2. Places' BY <1>15 DEF RemoveAdapter
    <2> QED BY <2>1, <2>2
  <1>16. ASSUME Crashes PROVE PolicyTypeOK' /\ at' \in Steps
    BY <1>16, ZenonT(60) DEF Crashes
  <1> QED BY <1>1, <1>2, <1>3, <1>4, <1>5, <1>6, <1>7, <1>8, <1>9, <1>10, <1>11, <1>12, <1>13, <1>14, <1>15, <1>16, Zenon

(* So does every step of the threads.                                      *)
LEMMA ThreadTypesKept ==
    ASSUME TypeOK
    PROVE  \/ Connect \/ StartLoop \/ LeaveLoop \/ LoopFails \/ Reconnect \/ take_reconnect_request
           \/ ReconnectRefreshes \/ ReconnectDials \/ ReconnectApplies \/ ReconnectHands
           \/ Join \/ BackOff \/ Attempt \/ Restart
           \/ WorkerTop \/ WorkerSends \/ PolicyWorker
           \/ Stop \/ WindowsCalls \/ NetworkChanges \/ GraceEnds
           => TypeOK'
  <1> DEFINE Flags ==
        /\ rules \in BOOLEAN /\ switch \in BOOLEAN /\ adapter \in BOOLEAN /\ torn \in BOOLEAN
        /\ stopping \in BOOLEAN /\ requested \in BOOLEAN /\ channel \in BOOLEAN
  <1> DEFINE Places ==
        /\ journal \in {"absent", "garbled", "rules", "no_rules"} /\ at \in Steps
        /\ server \in Network \cup {None} /\ gateway \in Network \cup {None}
        /\ bypass \in Network \cup {None, "closed"}
        /\ halves \in 0 .. 2 /\ routing \in AppRouting \cup {None}
        /\ address \in Param \cup {None} /\ guarded \in Param \cup {None}
  <1> DEFINE Threads ==
        /\ parameters \in Param \cup {None} /\ session \in Param \cup {None}
        /\ dialled \in Param \cup {None}
        /\ worker \in {"none", "top", "wait", "ended"}
  <1> USE DEF TypeOK, PolicyTypeOK, Steps, policy, machine, process, runtime, loop, LoopLocals, KeepPolicy
  <1>1. ASSUME Connect PROVE TypeOK'
    <2>1. Flags' BY <1>1, Zenon DEF Connect, Exits, Locals
    <2>2. (Places /\ Threads)' BY <1>1, ZenonT(60) DEF Connect, Exits, Locals
    <2> QED BY <2>1, <2>2
  <1>2. ASSUME StartLoop PROVE TypeOK'
    BY <1>2 DEF StartLoop
  <1>3. ASSUME LeaveLoop PROVE TypeOK'
    <2>1. Flags' BY <1>3, Zenon DEF LeaveLoop
    <2>2. Places' BY <1>3, SMTT(60) DEF LeaveLoop
    <2>3. Threads' BY <1>3, Zenon DEF LeaveLoop
    <2> QED BY <2>1, <2>2, <2>3
  <1>4. ASSUME LoopFails PROVE TypeOK'
    BY <1>4, SMTT(90) DEF LoopFails, Turn
  <1>5. ASSUME Reconnect PROVE TypeOK'
    BY <1>5 DEF Reconnect, Turn
  <1>6. ASSUME take_reconnect_request PROVE TypeOK'
    <2>1. Flags' BY <1>6, Zenon DEF take_reconnect_request, Turn
    <2>2. (Places /\ Threads)' BY <1>6 DEF take_reconnect_request, Turn
    <2> QED BY <2>1, <2>2
  <1>7. ASSUME ReconnectRefreshes PROVE TypeOK'
    <2>1. /\ rules' \in BOOLEAN /\ halves' \in 0 .. 2
          /\ server' \in Network \cup {None} /\ bypass' \in Network \cup {None, "closed"}
      BY <1>7, RefreshTyped, Zenon DEF ReconnectRefreshes
    <2>2. Flags' BY <1>7, <2>1, Zenon DEF ReconnectRefreshes
    <2>3. Places' BY <1>7, <2>1, SMTT(60) DEF ReconnectRefreshes
    <2>4. Threads' BY <1>7, Zenon DEF ReconnectRefreshes
    <2> QED BY <2>2, <2>3, <2>4
  <1>8. ASSUME ReconnectDials PROVE TypeOK'
    BY <1>8 DEF ReconnectDials
  <1>9. ASSUME ReconnectApplies PROVE TypeOK'
    BY <1>9, SMTT(90) DEF ReconnectApplies, update_parameters, UpdateFails, Applied
  <1>10. ASSUME ReconnectHands PROVE TypeOK'
    <2>1. Flags' BY <1>10, Zenon DEF ReconnectHands
    <2>2. (Places /\ Threads)' BY <1>10 DEF ReconnectHands
    <2> QED BY <2>1, <2>2
  <1>11. ASSUME Join PROVE TypeOK'
    <2>1. Flags' BY <1>11, Zenon DEF Join
    <2>2. (Places /\ Threads)' BY <1>11, SMTT(60) DEF Join
    <2> QED BY <2>1, <2>2
  <1>12. ASSUME BackOff PROVE TypeOK'
    <2>1. /\ rules' \in BOOLEAN /\ halves' \in 0 .. 2
          /\ server' \in Network \cup {None} /\ bypass' \in Network \cup {None, "closed"}
      BY <1>12, RefreshTyped, Zenon DEF BackOff
    <2>2. Flags' BY <1>12, <2>1, Zenon DEF BackOff
    <2>3. Places' BY <1>12, <2>1, SMTT(60) DEF BackOff
    <2>4. Threads' BY <1>12, Zenon DEF BackOff
    <2> QED BY <2>2, <2>3, <2>4
  <1>13. ASSUME Attempt PROVE TypeOK'
    BY <1>13, SMTT(60) DEF Attempt
  <1>14. ASSUME Restart PROVE TypeOK'
    BY <1>14 DEF Restart, update_parameters, UpdateFails, Applied
  <1>15. ASSUME WorkerTop PROVE TypeOK'
    <2>1. Flags' BY <1>15, Zenon DEF WorkerTop, WorkerKeeps
    <2>2. (Places /\ Threads)' BY <1>15, SMTT(60) DEF WorkerTop, WorkerKeeps
    <2> QED BY <2>1, <2>2
  <1>16. ASSUME WorkerSends PROVE TypeOK'
    <2>1. Flags' BY <1>16, Zenon DEF WorkerSends, WorkerKeeps
    <2>2. (Places /\ Threads)' BY <1>16, SMTT(60) DEF WorkerSends, WorkerKeeps
    <2> QED BY <2>1, <2>2
  <1>17. ASSUME PolicyWorker PROVE TypeOK'
    <2>1. Flags' BY <1>17, RefreshTyped, Zenon DEF PolicyWorker
    <2>2. (Places /\ Threads)' BY <1>17, RefreshTyped, SMTT(60) DEF PolicyWorker
    <2> QED BY <2>1, <2>2
  <1>18. ASSUME Stop PROVE TypeOK'
    BY <1>18, SMTT(60) DEF Stop
  <1>19. ASSUME WindowsCalls PROVE TypeOK'
    BY <1>19, SMTT(60) DEF WindowsCalls
  <1>20. ASSUME NetworkChanges PROVE TypeOK'
    <2>1. Flags' BY <1>20, Zenon DEF NetworkChanges, Roams, InLoop
    <2>2. (Places /\ Threads)' BY <1>20 DEF NetworkChanges, Roams, InLoop
    <2> QED BY <2>1, <2>2
  <1>21. ASSUME GraceEnds PROVE TypeOK'
    BY <1>21 DEF GraceEnds
  <1> QED BY <1>1, <1>2, <1>3, <1>4, <1>5, <1>6, <1>7, <1>8, <1>9, <1>10, <1>11, <1>12, <1>13, <1>14, <1>15, <1>16, <1>17, <1>18, <1>19, <1>20, <1>21, Zenon

(* The locals of packet_loop::run exist only while it runs.                *)
LEMMA LoopScoped ==
    ASSUME Scoped, Next
    PROVE  Scoped'
  <1> USE DEF Scoped, InLoop, Locals, LoopLocals
  <1>1. CASE Locals /\ at \notin {"loop", "refresh", "dial", "apply", "hand", "join"}
    BY <1>1 DEF loop
  <1>2. CASE Crashes /\ Locals
    BY <1>2 DEF Crashes, Exits
  <1>3. CASE (RemoveAdapter \/ repair \/ Launch) /\ Locals
    BY <1>1, <1>3, Zenon DEF RemoveAdapter, repair, Launch
  <1>4. CASE Connect \/ StartLoop \/ LeaveLoop \/ LoopFails \/ Reconnect \/ take_reconnect_request
    BY <1>4, Zenon DEF Connect, Exits, StartLoop, LeaveLoop, LoopFails, Reconnect, take_reconnect_request, Turn, loop
  <1>5. CASE ReconnectRefreshes \/ ReconnectDials \/ ReconnectApplies \/ ReconnectHands
    BY <1>5 DEF ReconnectRefreshes, ReconnectDials, ReconnectApplies, ReconnectHands, loop
  <1>6. CASE Join \/ BackOff \/ Attempt \/ Restart
    BY <1>6 DEF Join, BackOff, Attempt, Restart, loop
  <1>7. CASE WorkerSteps \/ PolicyWorker \/ Stop \/ WindowsCalls \/ NetworkChanges
    BY <1>7 DEF WorkerSteps, WorkerTop, WorkerSends, WorkerKeeps, PolicyWorker, Stop, WindowsCalls,
       NetworkChanges, Roams, loop, policy
  <1>8. CASE GraceEnds
    BY <1>8 DEF GraceEnds, NoLoop, policy
  <1>9. CASE /\ \/ recover_stale_state \/ ForgetStale \/ InstallBypass \/ WriteJournal \/ InstallFence \/ FallBack
                \/ InstallRoutes \/ Undo \/ RemoveJournal \/ RenameJournal \/ Drop \/ Forget
             /\ Locals
    BY <1>1, <1>9, Zenon DEF recover_stale_state, ForgetStale, InstallBypass, WriteJournal, InstallFence, FallBack,
       InstallRoutes, Undo, RemoveJournal, RenameJournal, Drop, Forget
  <1> QED BY <1>2, <1>3, <1>4, <1>5, <1>6, <1>7, <1>8, <1>9, Zenon DEF Next, MainSteps, Surroundings

(* The types, Journalled, Covered and Scoped are an invariant of the       *)
(* helper, through every failure, crash and launch of network.rs.          *)
THEOREM PolicyInvariant == Spec => []IInv
  <1>1. Init => IInv
    <2> SUFFICES ASSUME Init PROVE IInv OBVIOUS
    <2> USE DEF Init, PolicyInit
    <2>a. /\ rules \in BOOLEAN /\ switch \in BOOLEAN /\ adapter \in BOOLEAN /\ torn \in BOOLEAN
          /\ stopping \in BOOLEAN /\ requested \in BOOLEAN /\ channel \in BOOLEAN
      BY Zenon
    <2>b. server \in Network \cup {None} /\ gateway \in Network \cup {None}
      BY PolicyAssumption
    <2>1. TypeOK BY <2>a, <2>b, SMTT(60) DEF TypeOK, PolicyTypeOK, Steps
    <2>2. Journalled BY DEF Journalled, Installing, Routed, Established
    <2>3. Covered BY DEF Covered, Clean, Routed
    <2>4. Scoped BY DEF Scoped, InLoop
    <2> QED BY <2>1, <2>2, <2>3, <2>4 DEF IInv
  <1>2. IInv /\ [Next]_vars => IInv'
    <2> SUFFICES ASSUME IInv, [Next]_vars PROVE IInv' OBVIOUS
    <2>0. TypeOK /\ Journalled /\ Covered /\ Scoped BY DEF IInv
    <2>1. CASE UNCHANGED vars
      <3>a. UNCHANGED <<policy, machine, process, runtime, loop, stopping, worker>>
        BY <2>1 DEF vars, policy
      <3>b. UNCHANGED <<at, journal, rules, server, halves, address, adapter, gateway, switch, bypass, guarded, routing, torn>>
        BY <3>a DEF policy, machine, process
      <3>c. UNCHANGED <<parameters, session, dialled, incoming, requested, channel, stopping, worker>>
        BY <3>a DEF runtime, loop
      <3>d. PolicyTypeOK'
        <4>1. /\ rules' \in BOOLEAN /\ switch' \in BOOLEAN /\ adapter' \in BOOLEAN /\ torn' \in BOOLEAN
          BY <2>0, <3>b, Zenon DEF TypeOK, PolicyTypeOK
        <4> QED BY <2>0, <3>b, <4>1, SMTT(90) DEF TypeOK, PolicyTypeOK
      <3>1. TypeOK' BY <2>0, <3>b, <3>c, <3>d, SMTT(60) DEF TypeOK
      <3>2. Journalled' BY <2>0, <3>b, ZenonT(60) DEF Journalled
      <3>3. Covered' BY <2>0, <3>b, ZenonT(60) DEF Covered, Clean
      <3>4. Scoped' BY <2>0, <3>b, <3>c, ZenonT(60) DEF Scoped, InLoop
      <3> QED BY <3>1, <3>2, <3>3, <3>4 DEF IInv
    <2>2. CASE Next
      <3>1. TypeOK' BY <2>0, <2>2, PolicyTypesKept, LocalsTyped, ThreadTypesKept
        DEF Next, MainSteps, WorkerSteps, Surroundings
      <3>2. UNCHANGED <<at, journal, rules, server, halves, address, switch, torn>> => Journalled' /\ Covered'
        BY <2>0 DEF Journalled, Covered, Clean
      <3>3. PolicyWorker => Journalled' /\ Covered'
        <4> SUFFICES ASSUME PolicyWorker PROVE Journalled' /\ Covered' OBVIOUS
        <4>1. at \in Established BY <2>0 DEF PolicyWorker, Scoped, Established
        <4> QED BY <2>0, <4>1, Inside DEF PolicyWorker, refresh, RefreshFails
      <3>4. WorkerSteps \/ Stop \/ WindowsCalls \/ NetworkChanges \/ GraceEnds => Journalled' /\ Covered'
        BY <3>2, SMTT(30) DEF WorkerSteps, WorkerTop, WorkerSends, WorkerKeeps, KeepPolicy, Stop, WindowsCalls,
           NetworkChanges, Roams, GraceEnds, policy, machine, process
      <3>5. Journalled' /\ Covered'
        BY <2>0, <2>2, <3>3, <3>4, PolicySteps, LoopSteps DEF Next, MainSteps, Surroundings
      <3>6. Scoped' BY <2>0, <2>2, LoopScoped
      <3> QED BY <3>1, <3>5, <3>6 DEF IInv
    <2> QED BY <2>1, <2>2
  <1> QED BY <1>1, <1>2, PTL DEF Spec

(* The machine is fenced from the first route into the tunnel to the end   *)
(* of NetworkGuard::drop, and the journal names the fence that was used.   *)
THEOREM AlwaysFenced == Spec => []FencedWhileRouted
  <1>1. IInv => FencedWhileRouted
    BY DEF IInv, Journalled, FencedWhileRouted, Routed
  <1> QED BY <1>1, PolicyInvariant, PTL

(* Without a helper and without a journal nothing of the policy is left,   *)
(* unless a helper ended between remove_file and rename of write_state.    *)
THEOREM JournalAlwaysCovers == Spec => []JournalCovers
  <1>1. IInv => JournalCovers
    BY DEF IInv, Covered, JournalCovers
  <1> QED BY <1>1, PolicyInvariant, PTL
=============================================================================
