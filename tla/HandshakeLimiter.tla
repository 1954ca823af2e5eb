--------------------------- MODULE HandshakeLimiter ---------------------------
(***************************************************************************)
(* The per-source limit on handshakes of server/src/rate_limit.rs, called  *)
(* by the UDP loop for every HandshakeInit.  Time advances in ticks        *)
(* between calls; `operations' is kept modulo the cleanup interval, the    *)
(* only way the code uses it.                                              *)
(***************************************************************************)
EXTENDS Integers, FiniteSets, FiniteSetsExt

CONSTANTS
    Source,          \* IP addresses handshakes come from
    MaxAttempts,     \* maximum_attempts
    Window,          \* window, in ticks
    MaxClients,      \* maximum_clients
    CleanupInterval, \* CLEANUP_INTERVAL
    MaxTime          \* bound: the clock

LimiterAssumption ==
    /\ MaxAttempts \in Nat \ {0} /\ Window \in Nat \ {0}
    /\ MaxClients \in Nat \ {0} /\ CleanupInterval \in Nat \ {0}
    /\ MaxTime \in Nat /\ IsFiniteSet(Source)

VARIABLES
    clients,         \* HandshakeLimiter::clients; attempts = -1 means no entry
    operations,      \* HandshakeLimiter::operations % CLEANUP_INTERVAL
    last_cleanup,    \* HandshakeLimiter::last_cleanup, or Never
    now,             \* the Instant the next call reads
    granted          \* history: how many calls each source was allowed, by time

vars == <<clients, operations, last_cleanup, now, granted>>

Time == 0..MaxTime
Never == -1
Absent == [started |-> 0, attempts |-> -1]
Present(cs) == {s \in Source : cs[s] # Absent}
Expired(counter) == now - counter.started >= Window

Init ==
    /\ clients = [s \in Source |-> Absent]
    /\ operations = 0
    /\ last_cleanup = Never
    /\ now = 0
    /\ granted = [s \in Source |-> [t \in Time |-> 0]]

Tick ==
    /\ now < MaxTime
    /\ now' = now + 1
    /\ UNCHANGED <<clients, operations, last_cleanup, granted>>

cleanup_due ==
    \/ last_cleanup = Never
    \/ now - last_cleanup >= Window
    \/ (operations + 1) % CleanupInterval = 0

\* The counters after the retain of allow_at.
Retained_drops_live ==
    [s \in Source |-> IF cleanup_due THEN Absent ELSE clients[s]]

Retained ==
    [s \in Source |-> IF cleanup_due /\ clients[s] # Absent /\ Expired(clients[s])
                      THEN Absent ELSE clients[s]]

RefusesNewcomer(s) ==
    Retained[s] = Absent /\ Cardinality(Present(Retained)) >= MaxClients

\* The counter allow_at consults: a fresh one for a newcomer or an old window.
Current(s) ==
    IF Retained[s] = Absent \/ Expired(Retained[s])
    THEN [started |-> now, attempts |-> 0]
    ELSE Retained[s]

Counted ==
    /\ operations' = (operations + 1) % CleanupInterval
    /\ last_cleanup' = IF cleanup_due THEN now ELSE last_cleanup
    /\ UNCHANGED now

AllowRefusesNewcomer(s) ==
    /\ Counted
    /\ RefusesNewcomer(s)
    /\ clients' = Retained
    /\ UNCHANGED granted

AllowLimits(s) ==
    /\ Counted
    /\ ~RefusesNewcomer(s)
    /\ Current(s).attempts >= MaxAttempts
    /\ clients' = [Retained EXCEPT ![s] = Current(s)]
    /\ UNCHANGED granted

AllowGrants_uncounted(s) ==
    /\ Counted
    /\ ~RefusesNewcomer(s)
    /\ Current(s).attempts < MaxAttempts
    /\ clients' = [Retained EXCEPT ![s] =
                     [started |-> now, attempts |-> Current(s).attempts + 1]]
    /\ granted' = [granted EXCEPT ![s][now] = @ + 1]

AllowGrants(s) ==
    /\ Counted
    /\ ~RefusesNewcomer(s)
    /\ Current(s).attempts < MaxAttempts
    /\ clients' = [Retained EXCEPT ![s] =
                     [Current(s) EXCEPT !.attempts = @ + 1]]
    /\ granted' = [granted EXCEPT ![s][now] = @ + 1]

Next ==
    \/ Tick
    \/ \E s \in Source : AllowRefusesNewcomer(s) \/ AllowLimits(s) \/ AllowGrants(s)

Spec == Init /\ [][Next]_vars

-------------------------------------------------------------------------------

Counter == [started : Time, attempts : -1..MaxAttempts]

\* Counters stay within their limits: no count passes maximum_attempts, no
\* table passes maximum_clients.
TypeOK ==
    /\ clients \in [Source -> Counter]
    /\ Cardinality(Present(clients)) <= MaxClients
    /\ operations \in 0..(CleanupInterval - 1)
    /\ last_cleanup \in Time \cup {Never}
    /\ now \in Time
    /\ granted \in [Source -> [Time -> Nat]]

\* "Never evict a live counter": while the window of a source's counter is
\* open the counter is neither removed nor restarted, and never counts down,
\* whatever the other sources do and whenever the cleanup runs.
LiveCounterKept ==
    [][\A s \in Source :
          clients[s] # Absent /\ now' - clients[s].started < Window
              => /\ clients'[s].started = clients[s].started
                 /\ clients'[s].attempts >= clients[s].attempts]_vars

\* What the limit means for the daemon: in any stretch of one window's length
\* a source gets at most two windows' worth of handshakes through, even when
\* its counter was removed and made anew in between; and neither the table nor
\* a counter outgrows its limit.
GrantsBounded ==
    /\ TypeOK
    /\ \A s \in Source, from \in Time :
          MapThenSumSet(LAMBDA t : granted[s][t],
                        {t \in Time : from <= t /\ t < from + Window})
              <= 2 * MaxAttempts
===============================================================================
