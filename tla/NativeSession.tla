----------------------------- MODULE NativeSession -----------------------------
(***************************************************************************)
(* What the status of a native Android session promises the service that   *)
(* polls it (android-native/src/registry.rs, status): a session runs,      *)
(* reconnects and runs again; new parameters are announced once and for    *)
(* good, and only by a reconnect; a stopped session never comes back.      *)
(***************************************************************************)
VARIABLE status

Init == status = "running"

Lost == status = "running" /\ status' = "reconnecting"

Recovered == status = "reconnecting" /\ status' = "running"

ParametersChanged == status = "reconnecting" /\ status' = "parameters-changed"

\* The threads ended, or the session was taken out of the registry.
Ended == status # "stopped" /\ status' = "stopped"

Next == Lost \/ Recovered \/ ParametersChanged \/ Ended

Spec == Init /\ [][Next]_status
===============================================================================
