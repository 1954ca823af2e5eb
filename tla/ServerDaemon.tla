----------------------------- MODULE ServerDaemon -----------------------------
(***************************************************************************)
(* The server process of server/src/daemon.rs: the UDP loop, the TUN       *)
(* worker and the admin thread over the device registry and the two        *)
(* session indexes.                                                        *)
(*                                                                         *)
(* The UDP loop handles one datagram at a time.  A handler is cut where    *)
(* another thread can run in between: after it has read a lease or a       *)
(* session and checked the authorization, before it acts on what it read.  *)
(* A handshake message is a value of InitMsg that names the client's key   *)
(* and the session ID the client chose; the network may lose, repeat,      *)
(* delay and reorder messages, so any message can arrive at any time.      *)
(* Whether a datagram passes the wire codec, decrypts, passes the replay   *)
(* window and carries the client's source address is a choice (modelled    *)
(* in ReplayWindow for the window).                                        *)
(***************************************************************************)
EXTENDS DeviceRegistry, Sequences

CONSTANTS
    SessionId,       \* the session IDs clients choose
    InitMsg,         \* handshake requests: [key, id, nonce]
    Peer,            \* UDP endpoints clients send from
    MaxSerial,       \* bound: sessions created in one run of the daemon
    MaxBatch         \* UDP_BATCH_SIZE

NoSession == [serial |-> 0]
NoHandshake == [serial |-> 0]
NoPeer == "none"

ASSUME DaemonAssumption ==
    /\ \A m \in InitMsg : m.key \in PublicKey /\ m.id \in SessionId
    /\ MaxSerial \in Nat /\ MaxBatch \in Nat
    /\ NoPeer \notin Peer

Serial == 1..MaxSerial

VARIABLES
    by_id,           \* Sessions::by_id
    by_address,      \* Sessions::by_address
    peer,            \* RuntimeSession::peer, by the session's serial
    cache,           \* handshake_cache: the request and whose response it holds
    serial,          \* how many RuntimeSessions this run has built
    udp,             \* what the UDP loop has read and not yet acted on
    batch,           \* the datagrams the TUN worker has encoded for sendmmsg
    answered,        \* history: the sessions whose response was sent
    heard            \* history: the endpoints a session's client was heard from

daemonVars == <<by_id, by_address, peer, cache, serial, udp, batch,
                answered, heard>>
vars == <<registryVars, daemonVars>>

Idle == [at |-> "receive"]

NoIds == [i \in SessionId |-> NoSession]
NoAddresses == [a \in Address |-> NoSession]
NoPeers == [n \in Serial |-> NoPeer]
NoCache == [k \in PublicKey |-> NoHandshake]
NoneHeard == [n \in Serial |-> {}]

Init ==
    /\ RegistryInit
    /\ by_id = NoIds /\ by_address = NoAddresses /\ peer = NoPeers
    /\ cache = NoCache /\ serial = 0
    /\ udp = Idle /\ batch = <<>>
    /\ answered = {} /\ heard = NoneHeard

-------------------------------------------------------------------------------

is_active(session) == session.key \in active

\* replace_client refuses a session ID that another address uses.
Collides(id, address) ==
    by_id[id] # NoSession /\ by_id[id].address # address

replace_client_leaks(s) ==
    /\ by_address' = [by_address EXCEPT ![s.address] = s]
    /\ by_id' = [by_id EXCEPT ![s.id] = s]

replace_client(s) ==
    /\ by_address' = [by_address EXCEPT ![s.address] = s]
    /\ by_id' = [i \in SessionId |->
                   IF i = s.id THEN s
                   ELSE IF by_id[i] # NoSession /\ by_id[i] = by_address[s.address]
                        THEN NoSession
                   ELSE by_id[i]]

\* handle_handshake up to the lookup in the cache.  authorize waits for the
\* read lock, so it never sees the middle of provision or revoke.
Authorized(m) ==
    /\ up /\ udp = Idle
    /\ admin = Unlocked
    /\ leases[m.key] # NoAddress

Repeats(m) == cache[m.key] # NoHandshake /\ cache[m.key].init = m

\* An exact repeat of the last request gets the cached response again.
HandshakeRepeated(m) ==
    /\ Authorized(m)
    /\ Repeats(m)
    /\ UNCHANGED vars

HandshakeAuthorized(m, p) ==
    /\ Authorized(m)
    /\ ~Repeats(m)
    /\ udp' = [at |-> "install", init |-> m, address |-> leases[m.key], from |-> p]
    /\ UNCHANGED <<registryVars, by_id, by_address, peer, cache, serial, batch,
                   answered, heard>>

\* The new session is built and both indexes are switched under one write lock.
HandshakeInstalled ==
    /\ udp.at = "install"
    /\ serial < MaxSerial
    /\ ~Collides(udp.init.id, udp.address)
    /\ serial' = serial + 1
    /\ LET s == [serial |-> serial + 1, id |-> udp.init.id, key |-> udp.init.key,
                 address |-> udp.address, init |-> udp.init]
       IN /\ replace_client(s)
          /\ udp' = [at |-> "respond", session |-> s]
    /\ peer' = [peer EXCEPT ![serial + 1] = udp.from]
    /\ heard' = [heard EXCEPT ![serial + 1] = {udp.from}]
    /\ UNCHANGED <<registryVars, cache, batch, answered>>

HandshakeCollided ==
    /\ udp.at = "install"
    /\ Collides(udp.init.id, udp.address)
    /\ udp' = Idle
    /\ UNCHANGED <<registryVars, by_id, by_address, peer, cache, serial, batch,
                   answered, heard>>

HandshakeAnswered ==
    /\ udp.at = "respond"
    /\ cache' = [cache EXCEPT ![udp.session.key] =
                   [serial |-> udp.session.serial, init |-> udp.session.init]]
    /\ answered' = answered \cup {udp.session.serial}
    /\ udp' = Idle
    /\ UNCHANGED <<registryVars, by_id, by_address, peer, serial, batch, heard>>

\* encode_server failed: the session stays, without an answer or a cache entry.
HandshakeUnanswered ==
    /\ udp.at = "respond"
    /\ udp' = Idle
    /\ UNCHANGED <<registryVars, by_id, by_address, peer, cache, serial, batch,
                   answered, heard>>

\* handle_client_data and handle_keepalive up to the authorization check.
ClientPacketChecked(i, p) ==
    /\ up /\ udp = Idle
    /\ by_id[i] # NoSession
    /\ is_active(by_id[i])
    /\ udp' = [at |-> "client", session |-> by_id[i], from |-> p]
    /\ UNCHANGED <<registryVars, by_id, by_address, peer, cache, serial, batch,
                   answered, heard>>

\* The packet is authentic: it goes to the TUN device, or is a keepalive that
\* is answered, and the session adopts the endpoint it came from.
ClientPacketAccepted ==
    /\ udp.at = "client"
    /\ peer' = [peer EXCEPT ![udp.session.serial] = udp.from]
    /\ heard' = [heard EXCEPT ![udp.session.serial] = @ \cup {udp.from}]
    /\ udp' = Idle
    /\ UNCHANGED <<registryVars, by_id, by_address, cache, serial, batch,
                   answered>>

\* decode_into or a later check refuses the packet.
ClientPacketDropped ==
    /\ udp.at = "client"
    /\ udp' = Idle
    /\ UNCHANGED <<registryVars, by_id, by_address, peer, cache, serial, batch,
                   answered, heard>>

\* run_tun_worker takes an IP packet for address a and encodes it.  Whether the
\* session is active, its peer and the datagram are one step: a revocation that
\* comes between them finds the packet taken, as one that comes after them does.
TunPacketEncoded_unchecked(a) ==
    /\ up
    /\ Len(batch) < MaxBatch
    /\ by_address[a] # NoSession
    /\ batch' = Append(batch, [session |-> by_address[a],
                               to |-> peer[by_address[a].serial]])
    /\ UNCHANGED <<registryVars, by_id, by_address, peer, cache, serial, udp,
                   answered, heard>>

TunPacketEncoded(a) ==
    /\ up
    /\ Len(batch) < MaxBatch
    /\ by_address[a] # NoSession
    /\ is_active(by_address[a])
    /\ batch' = Append(batch, [session |-> by_address[a],
                               to |-> peer[by_address[a].serial]])
    /\ UNCHANGED <<registryVars, by_id, by_address, peer, cache, serial, udp,
                   answered, heard>>

\* sendmmsg takes some prefix of the batch; the rest is dropped.
TunBatchSent ==
    /\ batch # <<>>
    /\ batch' = <<>>
    /\ UNCHANGED <<registryVars, by_id, by_address, peer, cache, serial, udp,
                   answered, heard>>

\* Sessions and the handshake cache live in memory only.
DaemonCrash ==
    /\ Crash
    /\ by_id' = NoIds /\ by_address' = NoAddresses /\ peer' = NoPeers
    /\ cache' = NoCache /\ serial' = 0
    /\ udp' = Idle /\ batch' = <<>>
    /\ answered' = {} /\ heard' = NoneHeard

UdpNext ==
    \/ \E m \in InitMsg : HandshakeRepeated(m) \/ \E p \in Peer : HandshakeAuthorized(m, p)
    \/ HandshakeInstalled \/ HandshakeCollided
    \/ HandshakeAnswered \/ HandshakeUnanswered
    \/ \E i \in SessionId, p \in Peer : ClientPacketChecked(i, p)
    \/ ClientPacketAccepted \/ ClientPacketDropped

TunNext == (\E a \in Address : TunPacketEncoded(a)) \/ TunBatchSent

Next ==
    \/ (open \/ AdminNext) /\ UNCHANGED daemonVars
    \/ DaemonCrash
    \/ UdpNext
    \/ TunNext

Spec == Init /\ [][Next]_vars

-------------------------------------------------------------------------------

Session == [serial : Serial, id : SessionId, key : PublicKey,
            address : Address, init : InitMsg]

DaemonTypeOK ==
    /\ by_id \in [SessionId -> Session \cup {NoSession}]
    /\ by_address \in [Address -> Session \cup {NoSession}]
    /\ peer \in [Serial -> Peer \cup {NoPeer}]
    /\ cache \in [PublicKey -> [serial : Serial, init : InitMsg] \cup {NoHandshake}]
    /\ serial \in 0..MaxSerial
    /\ udp \in [at : {"receive"}]
           \cup [at : {"install"}, init : InitMsg, address : Address, from : Peer]
           \cup [at : {"respond"}, session : Session]
           \cup [at : {"client"}, session : Session, from : Peer]
    /\ batch \in Seq([session : Session, to : Peer])
    /\ Len(batch) <= MaxBatch
    /\ answered \subseteq Serial
    /\ heard \in [Serial -> SUBSET Peer]

\* The tables, the threads' local state and the histories stay well formed.
TypeOK == RegistryTypeOK /\ DaemonTypeOK

\* The two indexes of Sessions name the same sessions: a session the UDP loop
\* finds by its ID is the one the TUN worker finds by its address, and back,
\* and each is filed under its own ID and address; the registry's views of the
\* devices agree as well, and all of it is well formed.
IndexesAgree ==
    /\ TypeOK
    /\ ViewsAgree
    /\ \A i \in SessionId : by_id[i] # NoSession =>
          by_id[i].id = i /\ by_address[by_id[i].address] = by_id[i]
    /\ \A a \in Address : by_address[a] # NoSession =>
          by_address[a].address = a /\ by_id[by_address[a].id] = by_address[a]

\* An active session belongs to the device that holds the lease of its address
\* now: an address that revoke freed and provision gave to another device
\* never routes that device's traffic to the old one.
ActiveHoldsLease ==
    \A a \in Address :
        by_address[a] # NoSession /\ is_active(by_address[a])
            => leases[by_address[a].key] = a

\* The response kept for a device is that of the session it has, so a repeated
\* request never brings the client keys the server does not hold; except
\* after a session whose response could not be encoded.
CacheMatchesSession ==
    \A a \in Address :
        by_address[a] # NoSession /\ by_address[a].serial \in answered
            => cache[by_address[a].key] =
                 [serial |-> by_address[a].serial, init |-> by_address[a].init]

\* "Current client endpoint, replaced only after a packet authenticates": the
\* TUN worker sends a session's traffic only where its client was heard.
SentOnlyWhereHeard ==
    \A n \in 1..Len(batch) : batch[n].to \in heard[batch[n].session.serial]

\* The three threads agree on the sessions, on who holds an address, on the
\* response a repeated request gets and on where a session's traffic goes.
ThreadsAgree == IndexesAgree /\ ActiveHoldsLease /\ CacheMatchesSession /\ SentOnlyWhereHeard

\* Once revoke returned, no thread picks up another packet for that device,
\* whatever handshake was in flight and however often the daemon restarted.
RevokedNotServed ==
    [][/\ \A a \in Address : TunPacketEncoded(a) => by_address[a].key \notin revoked
       /\ \A i \in SessionId, p \in Peer :
             ClientPacketChecked(i, p) => by_id[i].key \notin revoked]_vars
===============================================================================
