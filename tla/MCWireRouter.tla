----------------------------- MODULE MCWireRouter ------------------------------
(* Three devices, the third with a key that is of no use.  Of the others' tags
   two pairs are equal, one between MouseMorph profiles and one with Speedy. *)
EXTENDS WireRouter
CONSTANTS k1, k2, k3
MCEpochSeconds == [Quiet |-> 4, Balanced |-> 3, Paranoid |-> 1, Speedy |-> 3]
MCRoutingTag(k, p, e) ==
    CASE k = k2 /\ p = "Balanced" /\ e = 2 -> <<k1, "Quiet", 1>>
      [] k = k1 /\ p = "Speedy" /\ e = 3 -> <<k2, "Quiet", 2>>
      [] OTHER -> <<k, p, e>>
MCLegacyTag == <<"Legacy">>

(* The router follows the registry and the clock: a frame made within an   *)
(* epoch of the server's is accepted, also while the tables and epochs     *)
(* change, and a frame of a device that was revoked before the second it   *)
(* came in is not routed (daemon.rs).                                      *)
RoutesCurrent == FreshFrameAccepted /\ RevokedNotRouted
===============================================================================
