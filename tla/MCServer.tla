---------------------------------- MODULE MCServer ----------------------------------
(***************************************************************************)
(* The server, one of three parts of which is chosen: the daemon with its  *)
(* registry, the limit on handshakes, and the in-process state.            *)
(***************************************************************************)
EXTENDS ServerDaemon, TLC

CONSTANTS k1, k2, k3, s1, s2, p1, p2, a, b, c

VARIABLES
    which,
    clients, operations, last_cleanup, hl_now, granted,
    next_user_id, users, ss_devices, keys, sessions, authorized, stale, ss_now

\* Two configured clients, and a third key that reuses an address.
MCSeeds == [k \in PublicKey |-> CASE k = k1 -> 1 [] k = k2 -> 2 [] OTHER -> NoAddress]

\* Two requests of one client with two session IDs, a second client whose ID
\* collides with the first one's, and the client provisioned later.
MCInitMsg == {[key |-> k1, id |-> s1], [key |-> k1, id |-> s2],
              [key |-> k2, id |-> s1], [key |-> k3, id |-> s2]}

\* The limiter's sources are interchangeable, and the daemon's endpoints.
Symmetry == Permutations(Peer) \cup Permutations({a, b, c})

Limiter == INSTANCE HandshakeLimiter WITH
    Source <- {a, b, c}, MaxAttempts <- 2, Window <- 3, MaxClients <- 2, CleanupInterval <- 4,
    MaxTime <- 5, now <- hl_now

Table == INSTANCE ServerState WITH
    Id <- {1, 2, 3}, Peer <- {"x"}, Maximum <- 2, Limit <- {0, 1, 2}, MaxUsers <- 2, MaxKeys <- 2,
    MaxTime <- 1, devices <- ss_devices, now <- ss_now

limiterVars == <<clients, operations, last_cleanup, hl_now, granted>>
tableVars == <<next_user_id, users, ss_devices, keys, sessions, authorized, stale, ss_now>>

One == which \in {"daemon", "limiter", "table"}

allVars == <<which, vars, limiterVars, tableVars>>

(* One of the components is chosen and runs; the others stay in one of     *)
(* their initial states.                                                   *)
SumInit ==
    /\ One
    /\ Init
    /\ Limiter!Init
    /\ Table!Init

SumNext ==
    \/ which = "daemon" /\ Next /\ UNCHANGED <<which, limiterVars, tableVars>>
    \/ which = "limiter" /\ Limiter!Next /\ UNCHANGED <<which, vars, tableVars>>
    \/ which = "table" /\ Table!Next /\ UNCHANGED <<which, vars, limiterVars>>

SumSpec == SumInit /\ [][SumNext]_allVars

ASSUME Limiter!LimiterAssumption /\ Table!StateAssumption

-------------------------------------------------------------------------------
(* In one window a source gets at most two windows' worth of handshakes    *)
(* through, and neither table nor counter outgrows its limit               *)
(* (rate_limit.rs).                                                        *)
GrantsBounded == which = "limiter" => Limiter!GrantsBounded

(* "Never evict a live counter" (rate_limit.rs).                           *)
LiveCounterKept == Limiter!LiveCounterKept

(* A revoked user or device keeps no session and no key, and no limit is   *)
(* passed (state.rs, users.rs, sessions.rs).                               *)
RevokedKeepsNothing == which = "table" => Table!RevokedKeepsNothing
===============================================================================
