------------------------------ MODULE TunnelFence ------------------------------
(***************************************************************************)
(* What a desktop client promises about the machine it runs on: traffic    *)
(* is led into the tunnel only behind a fence that blocks every other way  *)
(* out, and both stand for as long as the client calls itself connected.   *)
(* LinuxDesktop and WindowsClient implement it.                            *)
(***************************************************************************)
VARIABLES
    up,      \* a client relies on its policy
    fenced,  \* traffic outside the tunnel is blocked
    routed   \* traffic is led into the tunnel

vars == <<up, fenced, routed>>

(* A dead client may have left anything behind.                            *)
Init == ~up /\ fenced \in BOOLEAN /\ routed \in BOOLEAN

(* Nobody relies on the policy: it is installed, removed or repaired, but  *)
(* traffic is never led into a tunnel without a fence.                     *)
Prepare ==
    /\ ~up /\ ~up'
    /\ fenced' \in BOOLEAN
    /\ routed' \in (IF routed \/ fenced THEN BOOLEAN ELSE {FALSE})

Rise == ~up /\ up' /\ fenced /\ routed /\ UNCHANGED <<fenced, routed>>

(* The client lets go of its policy, or dies with it.                      *)
Fall == up /\ ~up' /\ fenced' \in BOOLEAN /\ routed' \in BOOLEAN

Next == Prepare \/ Rise \/ Fall

Spec == Init /\ [][Next]_vars
================================================================================
