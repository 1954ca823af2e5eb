------------------------------- MODULE ServerState -------------------------------
(***************************************************************************)
(* The in-process server state: users and device keys (server/src/users.rs)*)
(* and the bounded table of sessions (sessions.rs) behind the calls of     *)
(* state.rs.  A call has the state to itself, but a user taken from        *)
(* authorize is a copy, and the handshake that leads to insert_session     *)
(* comes after it.                                                         *)
(***************************************************************************)
EXTENDS Naturals, FiniteSets

CONSTANTS
    Id,           \* session IDs
    Peer,         \* socket addresses
    Maximum,      \* SessionTable::maximum
    Limit,        \* limits a user may be created with, 0 among them
    MaxUsers,     \* bound: IDs given to users
    MaxKeys,      \* bound: device keys generated
    MaxTime       \* bound: the clock

StateAssumption == Maximum \in Nat /\ Limit \subseteq Nat /\ MaxUsers \in Nat /\ MaxKeys \in Nat

User == 1 .. MaxUsers
Key == 1 .. MaxKeys

VARIABLES
    next_user_id,
    users,        \* the limit of every registered user, by ID
    devices,      \* the user of every authorized key
    keys,         \* keys generated so far
    sessions,     \* by session ID: user, key, peer and last_seen
    authorized,   \* handshakes under way: <<key, user, limit>> from authorize
    stale,        \* history: the ones among them revoked since
    now

vars == <<next_user_id, users, devices, keys, sessions, authorized, stale, now>>

Removed(f, gone) == [x \in DOMAIN f \ gone |-> f[x]]
Added(f, x, v) == [y \in DOMAIN f \cup {x} |-> IF y = x THEN v ELSE f[y]]

Init ==
    /\ next_user_id = 1 /\ users = <<>> /\ devices = <<>> /\ keys = 0
    /\ sessions = <<>> /\ authorized = {} /\ stale = {} /\ now = 0

-----------------------------------------------------------------------------
(* A blank name, a limit of zero and an ID in use are refused.             *)
add_user(id, limit, blank) ==
    IF blank \/ limit = 0 \/ id \in DOMAIN users THEN users ELSE Added(users, id, limit)

add_device(k, u) == IF u \in DOMAIN users THEN Added(devices, k, u) ELSE devices

(* create_user takes an ID before add_user looks at the attributes.        *)
create_user(limit, blank) ==
    /\ next_user_id <= MaxUsers
    /\ next_user_id' = next_user_id + 1
    /\ users' = add_user(next_user_id, limit, blank)
    /\ UNCHANGED <<devices, keys, sessions, authorized, stale, now>>

provision_device(u) ==
    /\ keys < MaxKeys /\ keys' = keys + 1
    /\ devices' = add_device(keys + 1, u)
    /\ UNCHANGED <<next_user_id, users, sessions, authorized, stale, now>>

SessionsOf(test(_)) == {i \in DOMAIN sessions : test(sessions[i])}

remove_device(k) == LET has(s) == s.key = k IN SessionsOf(has)

remove_user(u) == LET has(s) == s.user = u IN SessionsOf(has)

revoke_device(k) ==
    /\ k \in DOMAIN devices
    /\ devices' = Removed(devices, {k}) /\ sessions' = Removed(sessions, remove_device(k))
    /\ stale' = stale \cup {a \in authorized : a[1] = k}
    /\ UNCHANGED <<next_user_id, users, keys, authorized, now>>

revoke_user(u) ==
    /\ u \in DOMAIN users
    /\ users' = Removed(users, {u})
    /\ devices' = Removed(devices, {k \in DOMAIN devices : devices[k] = u})
    /\ sessions' = Removed(sessions, remove_user(u))
    /\ stale' = stale \cup {a \in authorized : a[2] = u}
    /\ UNCHANGED <<next_user_id, keys, authorized, now>>

(* The handshake's first half: who has this key.                           *)
authorize(k) ==
    /\ k \in DOMAIN devices /\ devices[k] \in DOMAIN users
    /\ authorized' = authorized \cup {<<k, devices[k], users[devices[k]]>>}
    /\ UNCHANGED <<next_user_id, users, devices, keys, sessions, stale, now>>

Full_one_later(u, limit) ==
    Cardinality(DOMAIN sessions) > Maximum \/ Cardinality(remove_user(u)) >= limit

Full(u, limit) ==
    Cardinality(DOMAIN sessions) >= Maximum \/ Cardinality(remove_user(u)) >= limit

(* Its second half: the table has its own limits and takes the user as it  *)
(* was.                                                                    *)
insert_session(i, a, peer) ==
    /\ a \in authorized /\ authorized' = authorized \ {a}
    /\ sessions' = IF i \in DOMAIN sessions \/ Full(a[2], a[3]) THEN sessions
                   ELSE Added(sessions, i, [user |-> a[2], key |-> a[1], peer |-> peer, last_seen |-> now,
                                            stale |-> a \in stale])
    /\ stale' = stale \ {a}
    /\ UNCHANGED <<next_user_id, users, devices, keys, now>>

session_mut(i, peer) ==
    /\ i \in DOMAIN sessions /\ sessions[i].peer = peer
    /\ sessions' = [sessions EXCEPT ![i].last_seen = now]
    /\ UNCHANGED <<next_user_id, users, devices, keys, authorized, stale, now>>

remove_expired(idle) ==
    /\ sessions' = Removed(sessions, {i \in DOMAIN sessions : now - sessions[i].last_seen > idle})
    /\ UNCHANGED <<next_user_id, users, devices, keys, authorized, stale, now>>

Tick ==
    /\ now < MaxTime /\ now' = now + 1
    /\ UNCHANGED <<next_user_id, users, devices, keys, sessions, authorized, stale>>

Next ==
    \/ Tick \/ remove_expired(0)
    \/ \E limit \in Limit, blank \in BOOLEAN : create_user(limit, blank)
    \/ \E u \in User : provision_device(u) \/ revoke_user(u)
    \/ \E k \in Key : revoke_device(k) \/ authorize(k)
    \/ \E i \in Id, peer \in Peer : session_mut(i, peer) \/ \E a \in authorized : insert_session(i, a, peer)

Spec == Init /\ [][Next]_vars

-----------------------------------------------------------------------------
TypeOK ==
    /\ DOMAIN users \subseteq User /\ DOMAIN devices \subseteq Key /\ DOMAIN sessions \subseteq Id
    /\ next_user_id \in 1 .. MaxUsers + 1 /\ stale \subseteq authorized

(* A revoked user or device keeps no session and no key, except for a      *)
(* handshake that was past authorize when it was revoked; nobody gets an   *)
(* earlier user's ID, and neither the table nor a user goes over its       *)
(* limit.                                                                  *)
RevokedKeepsNothing ==
    /\ TypeOK
    /\ \A k \in DOMAIN devices : devices[k] \in DOMAIN users
    /\ \A i \in DOMAIN sessions :
         sessions[i].stale
         \/ (sessions[i].key \in DOMAIN devices /\ devices[sessions[i].key] = sessions[i].user)
    /\ Cardinality(DOMAIN sessions) <= Maximum
    /\ \A u \in DOMAIN users : u < next_user_id /\ Cardinality(remove_user(u)) <= users[u]
===============================================================================
