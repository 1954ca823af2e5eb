-------------------------- MODULE ServerDaemonProofs --------------------------
(***************************************************************************)
(* The three threads of the daemon agree for any devices, addresses,       *)
(* requests, endpoints, number of starts and size of the batch.            *)
(***************************************************************************)
EXTENDS ServerDaemon, DeviceRegistryProofs

\* Key k is or was authorized for address x and for no other, and is not the
\* one provision is about to hand out.
Known(k, x) ==
    /\ k \in issued
    /\ k \in active => leases[k] = x
    /\ admin.op = "provision" => k # admin.key

\* The sessions the TUN worker finds, which are those the UDP loop finds.
Live == {x \in Address : by_address[x] # NoSession}

\* Both indexes name the same sessions.
Indexed ==
    /\ \A i \in SessionId : by_id[i] # NoSession =>
          by_id[i].id = i /\ by_address[by_id[i].address] = by_id[i]
    /\ \A x \in Live : by_address[x].address = x /\ by_id[by_address[x].id] = by_address[x]

\* A device has one session, and a session a serial number of its own.
Apart ==
    \A x, y \in Live :
        \/ by_address[x].key = by_address[y].key
        \/ by_address[x].serial = by_address[y].serial
        => x = y

\* The handler in progress: only the UDP loop changes the indexes, so a session
\* that is to be answered is still the one of its address.
Handler ==
    /\ udp.at = "install" =>
         /\ Known(udp.init.key, udp.address)
         /\ \A x \in Live : by_address[x].key = udp.init.key => x = udp.address
    /\ udp.at = "respond" => by_address[udp.session.address] = udp.session
    /\ udp.at \in {"respond", "client"} => udp.session.serial <= serial

\* What belongs to serial numbers: none is used before it is given out.
Serials ==
    /\ \A x \in Live : by_address[x].serial <= serial /\ Known(by_address[x].key, x)
    /\ \A n \in answered : n <= serial
    /\ \A n \in Serial : n <= serial => peer[n] \in Peer /\ peer[n] \in heard[n]
    /\ \A n \in 1..Len(batch) : batch[n].session.serial <= serial

\* A daemon that does not run has no sessions.
Down == ~up => Live = {} /\ by_id = NoIds /\ udp = Idle

Threads ==
    /\ DaemonTypeOK /\ Indexed /\ Apart /\ Handler /\ Serials /\ Down
    /\ CacheMatchesSession /\ SentOnlyWhereHeard

DInv == IInv /\ RegistryTypeOK /\ Threads

-------------------------------------------------------------------------------

\* Crash is also a step of the registry, and a step of the UDP loop or of the
\* TUN worker leaves the registry alone.
LEMMA DaemonSteps ==
    ASSUME [Next]_vars
    PROVE  /\ [RegistryNext]_registryVars
           /\ \/ open /\ UNCHANGED daemonVars
              \/ AdminNext /\ UNCHANGED daemonVars
              \/ DaemonCrash
              \/ UNCHANGED registryVars /\ UdpNext
              \/ UNCHANGED registryVars /\ TunNext
              \/ UNCHANGED vars
<1>1. UdpNext => UNCHANGED registryVars
  BY DEF UdpNext, HandshakeRepeated, HandshakeAuthorized, HandshakeInstalled, HandshakeCollided,
         HandshakeAnswered, HandshakeUnanswered, ClientPacketChecked, ClientPacketAccepted,
         ClientPacketDropped, vars
<1>2. TunNext => UNCHANGED registryVars
  BY Zenon DEF TunNext, TunPacketEncoded, TunBatchSent
<1>3. DaemonCrash => Crash
  BY DEF DaemonCrash
<1>4. UNCHANGED vars => UNCHANGED registryVars
  BY DEF vars
<1> QED
  BY <1>1, <1>2, <1>3, <1>4 DEF Next, RegistryNext

\* A call of the admin thread changes no one else's authorization.
LEMMA KnownKept ==
    ASSUME IInv, AdminNext, NEW k \in PublicKey, NEW x, Known(k, x)
    PROVE  Known(k, x)'
<1>1. ASSUME NEW j \in PublicKey, ProvisionPersisted(j) PROVE Known(k, x)'
  BY <1>1 DEF ProvisionPersisted, Known
<1>2. ASSUME NEW j \in PublicKey, ProvisionFailed(j) PROVE Known(k, x)'
  BY <1>2 DEF ProvisionFailed, Known
<1>3. ASSUME NEW j \in PublicKey, RevokePersisted(j) PROVE Known(k, x)'
  BY <1>3 DEF RevokePersisted, Known
<1>4. CASE ProvisionReturned
  <2>1. k # admin.key
    BY <1>4 DEF ProvisionReturned, Known
  <2>2. leases'[k] = leases[k]
    BY <1>4, <2>1 DEF ProvisionReturned, IInv, Fields, Devices
  <2> QED
    BY <1>4, <2>1, <2>2 DEF ProvisionReturned, Known, Unlocked
<1>5. CASE RevokeReturned
  <2>1. k # admin.key => leases'[k] = leases[k]
    BY <1>5 DEF RevokeReturned, IInv, Fields, Devices
  <2> QED
    BY <1>5, <2>1 DEF RevokeReturned, Known, Unlocked
<1> QED
  BY <1>1, <1>2, <1>3, <1>4, <1>5 DEF AdminNext

\* A session found by its ID is the one of its address.
LEMMA SessionTypes ==
    ASSUME DaemonTypeOK
    PROVE  /\ \A x \in Live : by_address[x] \in Session
           /\ \A i \in SessionId : by_id[i] # NoSession => by_id[i] \in Session
           /\ \A s \in Session : /\ s # NoSession /\ s.serial \in Serial /\ s.serial \in Nat
                                 /\ s.serial <= MaxSerial /\ s.serial # 0
                                 /\ s.key \in PublicKey /\ s.address \in Address /\ s.id \in SessionId
                                 /\ s.init \in InitMsg
           /\ serial \in Nat /\ Serial \subseteq Nat
<1>1. Serial \subseteq Nat /\ 0 \notin Serial /\ serial \in Nat /\ \A n \in Serial : n <= MaxSerial
  BY DaemonAssumption DEF Serial, DaemonTypeOK
<1>2. \A s \in Session : s.serial \in Serial /\ s.serial # 0 /\ s # NoSession
  BY <1>1 DEF Session, NoSession
<1>3. \A x \in Live : by_address[x] \in Session
  BY DEF DaemonTypeOK, Live
<1>4. \A i \in SessionId : by_id[i] # NoSession => by_id[i] \in Session
  BY DEF DaemonTypeOK
<1>5. \A s \in Session : s.key \in PublicKey /\ s.address \in Address /\ s.id \in SessionId /\ s.init \in InitMsg
  BY DEF Session
<1> QED
  BY <1>1, <1>2, <1>3, <1>4, <1>5, Zenon

\* What the batch holds was encoded for sessions.
LEMMA BatchTypes == ASSUME DaemonTypeOK PROVE \A j \in 1..Len(batch) : batch[j].session \in Session
<1> DEFINE Entry == [session : Session, to : Peer]
<1>1. batch \in Seq(Entry)
  BY DEF DaemonTypeOK
<1>2. \A e \in Entry : e.session \in Session
  OBVIOUS
<1> HIDE DEF Entry
<1>3. \A j \in 1..Len(batch) : batch[j] \in Entry
  BY <1>1
<1> QED
  BY <1>2, <1>3

-------------------------------------------------------------------------------
(* The threads, one lemma per handler.                                     *)

\* A start finds no sessions, so what it authorizes does not matter to any.
LEMMA OpenThreads == ASSUME IInv, Threads, open, UNCHANGED daemonVars PROVE Threads'
<1>1. Live = {} /\ udp = Idle /\ up' = TRUE
  BY DEF Threads, Down, open
<1>2. Live' = {} /\ udp' = Idle
  BY <1>1 DEF Live, daemonVars
<1>3. Handler' /\ Apart' /\ Down'
  BY <1>1, <1>2 DEF Handler, Idle, Apart, Down
<1>4. DaemonTypeOK' /\ Indexed' /\ SentOnlyWhereHeard'
  BY DEF Threads, DaemonTypeOK, Indexed, Live, SentOnlyWhereHeard, daemonVars
<1>5. Serials' /\ CacheMatchesSession'
  BY <1>2 DEF Threads, Serials, CacheMatchesSession, Live, daemonVars
<1> QED
  BY <1>3, <1>4, <1>5 DEF Threads

\* A call of the admin thread changes the registry under the sessions.
LEMMA AdminThreads == ASSUME IInv, Threads, AdminNext, UNCHANGED daemonVars PROVE Threads'
<1>1. Live' = Live /\ up' = up
  BY Zenon DEF Live, daemonVars, AdminNext, ProvisionPersisted, ProvisionFailed, ProvisionReturned,
         RevokePersisted, RevokeReturned
<1>2. \A x \in Live : Known(by_address[x].key, x)'
  <2> SUFFICES ASSUME NEW x \in Live PROVE Known(by_address[x].key, x)'
    OBVIOUS
  <2>1. by_address[x].key \in PublicKey /\ Known(by_address[x].key, x)
    BY SessionTypes DEF Threads, Serials
  <2> DEFINE k == by_address[x].key
  <2>2. Known(k, x) /\ k \in PublicKey
    BY <2>1
  <2>3. k' = k
    BY DEF daemonVars
  <2> HIDE DEF k
  <2>4. \A j \in PublicKey : Known(j, x) => (j \in issued' /\ (j \in active' => leases'[j] = x) /\ (admin'.op = "provision" => j # admin'.key))
    BY KnownKept DEF Known
  <2> QED
    BY <2>2, <2>3, <2>4 DEF Known, k
<1>3. udp.at = "install" => Known(udp.init.key, udp.address)'
  <2> SUFFICES ASSUME udp.at = "install" PROVE Known(udp.init.key, udp.address)'
    OBVIOUS
  <2>1. udp.init.key \in PublicKey /\ Known(udp.init.key, udp.address)
    BY DaemonAssumption DEF Threads, Handler, DaemonTypeOK
  <2>2. \A j \in PublicKey : Known(j, udp.address) =>
            (j \in issued' /\ (j \in active' => leases'[j] = udp.address) /\ (admin'.op = "provision" => j # admin'.key))
    BY KnownKept DEF Known
  <2> QED
    BY <2>1, <2>2 DEF Known, daemonVars
<1>4. Handler' /\ Serials'
  BY <1>1, <1>2, <1>3 DEF Threads, Handler, Serials, daemonVars
<1>5. Apart' /\ Down' /\ DaemonTypeOK' /\ Indexed'
  BY <1>1, SMTT(60) DEF Threads, Apart, Down, DaemonTypeOK, Indexed, daemonVars
<1>6. CacheMatchesSession' /\ SentOnlyWhereHeard'
  BY DEF Threads, CacheMatchesSession, SentOnlyWhereHeard, daemonVars
<1> QED
  BY <1>4, <1>5, <1>6 DEF Threads

\* The daemon starts, and restarts, without sessions.
LEMMA InitThreads == Init => Threads
<1> SUFFICES ASSUME Init PROVE Threads
  OBVIOUS
<1>1. Live = {} /\ udp.at = "receive" /\ serial = 0 /\ batch = <<>>
  BY DEF Init, Live, NoAddresses, Idle
<1>2. DaemonTypeOK
  BY DaemonAssumption, SMTT(60) DEF Init, DaemonTypeOK, NoIds, NoAddresses, NoPeers, NoCache, NoneHeard, Idle
<1>3. Indexed /\ Apart /\ Handler /\ Down /\ CacheMatchesSession /\ SentOnlyWhereHeard
  BY <1>1, SMTT(60) DEF Init, Indexed, Live, Apart, Handler, Down, NoIds, CacheMatchesSession, SentOnlyWhereHeard
<1>4. Serials
  BY <1>1, DaemonAssumption DEF Init, Serials, Serial
<1> QED
  BY <1>2, <1>3, <1>4 DEF Threads

LEMMA CrashThreads == ASSUME DaemonCrash PROVE Threads'
<1>1. Live' = {} /\ udp'.at = "receive" /\ serial' = 0 /\ batch' = <<>>
  BY DEF DaemonCrash, Live, NoAddresses, Idle
<1>2. DaemonTypeOK'
  BY DaemonAssumption, SMTT(60) DEF DaemonCrash, DaemonTypeOK, NoIds, NoAddresses, NoPeers, NoCache, NoneHeard, Idle
<1>3. Indexed' /\ Apart' /\ Handler' /\ Down' /\ CacheMatchesSession' /\ SentOnlyWhereHeard'
  BY <1>1, SMTT(60) DEF DaemonCrash, Indexed, Live, Apart, Handler, Down, NoIds, CacheMatchesSession, SentOnlyWhereHeard
<1>4. Serials'
  BY <1>1, DaemonAssumption DEF DaemonCrash, Serials, Serial
<1> QED
  BY <1>2, <1>3, <1>4 DEF Threads

\* A step that changes only what the UDP loop has read.
LEMMA UdpOnly ==
    ASSUME Threads, Handler',
           UNCHANGED <<registryVars, by_id, by_address, peer, cache, serial, batch, answered, heard>>,
           up \/ udp' = Idle,
           udp' \in [at : {"receive"}]
                \cup [at : {"install"}, init : InitMsg, address : Address, from : Peer]
                \cup [at : {"respond"}, session : Session]
                \cup [at : {"client"}, session : Session, from : Peer]
    PROVE  Threads'
<1>1. DaemonTypeOK'
  BY DEF Threads, DaemonTypeOK
<1>2. Indexed' /\ Apart' /\ CacheMatchesSession' /\ SentOnlyWhereHeard'
  BY SMTT(60) DEF Threads, Indexed, Live, Apart, CacheMatchesSession, SentOnlyWhereHeard
<1>3. Serials' /\ Down'
  BY SMTT(30) DEF Threads, Serials, Live, Known, Down, registryVars
<1> QED
  BY <1>1, <1>2, <1>3 DEF Threads

\* A handler that gives up.
LEMMA IdleThreads ==
    ASSUME Threads, HandshakeCollided \/ HandshakeUnanswered \/ ClientPacketDropped
    PROVE  Threads'
<1>1. udp' = Idle
  BY DEF HandshakeCollided, HandshakeUnanswered, ClientPacketDropped
<1>2. Handler'
  BY <1>1 DEF Handler, Idle
<1>3. udp' \in [at : {"receive"}]
  BY <1>1 DEF Idle
<1> QED
  BY <1>1, <1>2, <1>3, UdpOnly DEF HandshakeCollided, HandshakeUnanswered, ClientPacketDropped

\* authorize answers with the address the device holds, and every session of
\* this device has that address.
LEMMA AuthorizedThreads ==
    ASSUME IInv, Threads, NEW m \in InitMsg, NEW p \in Peer, HandshakeAuthorized(m, p)
    PROVE  Threads'
<1> DEFINE k == m.key
           x == leases[k]
<1>1. /\ up /\ admin = Unlocked /\ k \in PublicKey /\ x # NoAddress
      /\ udp' = [at |-> "install", init |-> m, address |-> x, from |-> p]
      /\ UNCHANGED <<registryVars, by_id, by_address, peer, cache, serial, batch, answered, heard>>
  BY DaemonAssumption DEF HandshakeAuthorized, Authorized
<1>2. k \in active /\ k \in issued /\ x \in Address
  BY <1>1 DEF IInv, Fields, ViewsAgree, Keys, Devices
<1>3. \A y \in Live : by_address[y].key = k => y = x
  BY <1>2 DEF Threads, Serials, Known
<1> HIDE DEF k, x
<1>4. Handler'
  <2>1. udp'.at = "install" /\ udp'.init.key = k /\ udp'.address = x
    BY <1>1 DEF k
  <2>2. Known(k, x)
    BY <1>1, <1>2 DEF Known, Unlocked, x
  <2>3. Known(udp.init.key, udp.address)'
    BY <1>1, <2>1, <2>2 DEF Known, registryVars
  <2>4. \A y \in Live' : by_address'[y].key = udp'.init.key => y = udp'.address
    BY <1>1, <1>3, <2>1 DEF Live
  <2> QED
    BY <2>1, <2>3, <2>4 DEF Handler
<1>5. udp' \in [at : {"install"}, init : InitMsg, address : Address, from : Peer]
  BY <1>1, <1>2
<1> QED
  BY <1>1, <1>4, <1>5, UdpOnly

\* A packet of a session the UDP loop found by its ID.
LEMMA CheckedThreads ==
    ASSUME IInv, Threads, NEW i \in SessionId, NEW p \in Peer, ClientPacketChecked(i, p)
    PROVE  Threads'
<1>1. by_id[i] \in Session /\ by_id[i].address \in Live /\ by_address[by_id[i].address] = by_id[i]
  BY SessionTypes DEF ClientPacketChecked, Threads, Indexed, Live
<1>2. by_id[i].serial <= serial
  BY <1>1 DEF Threads, Serials
<1>3. udp' = [at |-> "client", session |-> by_id[i], from |-> p] /\ serial' = serial
  BY DEF ClientPacketChecked
<1>4. Handler'
  BY <1>2, <1>3 DEF Handler
<1>5. udp' \in [at : {"client"}, session : Session, from : Peer]
  BY <1>1, <1>3
<1> QED
  BY <1>4, <1>5, UdpOnly, SMTT(30) DEF ClientPacketChecked

\* The session adopts the endpoint its packet came from.
LEMMA AcceptedThreads == ASSUME IInv, Threads, ClientPacketAccepted PROVE Threads'
<1> DEFINE n == udp.session.serial
           p == udp.from
<1>1. /\ peer' = [peer EXCEPT ![n] = p] /\ heard' = [heard EXCEPT ![n] = heard[n] \cup {p}]
      /\ udp' = Idle
      /\ UNCHANGED <<registryVars, by_id, by_address, cache, serial, batch, answered>>
  BY DEF ClientPacketAccepted
<1>2. n \in Serial /\ p \in Peer
  BY SessionTypes DEF ClientPacketAccepted, Threads, DaemonTypeOK
<1> HIDE DEF n, p
<1>3. /\ \A j \in Serial : j # n => peer'[j] = peer[j] /\ heard'[j] = heard[j]
      /\ peer'[n] = p /\ heard'[n] = heard[n] \cup {p}
      /\ peer' \in [Serial -> Peer \cup {NoPeer}] /\ heard' \in [Serial -> SUBSET Peer]
  BY <1>1, <1>2, SMTT(30) DEF Threads, DaemonTypeOK
<1>4. DaemonTypeOK'
  BY <1>1, <1>3, SMTT(30) DEF Threads, DaemonTypeOK, Idle
<1>5. Indexed' /\ Apart' /\ CacheMatchesSession' /\ Down' /\ Handler'
  BY <1>1 DEF Threads, Indexed, Live, Apart, CacheMatchesSession, Down, Handler, registryVars, Idle
<1>6. Serials'
  <2>1. \A x \in Live' : by_address'[x].serial <= serial' /\ Known(by_address[x].key, x)'
    BY <1>1 DEF Threads, Serials, Live, Known, registryVars
  <2>2. \A j \in Serial : j <= serial' => peer'[j] \in Peer /\ peer'[j] \in heard'[j]
    BY <1>1, <1>2, <1>3 DEF Threads, Serials
  <2> QED
    BY <1>1, <2>1, <2>2, SMTT(30) DEF Threads, Serials
<1>7. SentOnlyWhereHeard'
  <2>1. \A j \in Serial : heard[j] \subseteq heard'[j]
    BY <1>3
  <2>2. \A j \in 1..Len(batch) : batch[j].session.serial \in Serial
    BY BatchTypes, SessionTypes DEF Threads
  <2> QED
    BY <1>1, <2>1, <2>2 DEF Threads, SentOnlyWhereHeard
<1> QED
  BY <1>4, <1>5, <1>6, <1>7 DEF Threads

\* The response goes into the cache: the session of the device is still the
\* one that is answered, and no other session has its serial number.
LEMMA AnsweredThreads == ASSUME IInv, Threads, HandshakeAnswered PROVE Threads'
<1> DEFINE s == udp.session
           entry == [serial |-> s.serial, init |-> s.init]
<1>1. /\ cache' = [cache EXCEPT ![s.key] = entry] /\ answered' = answered \cup {s.serial}
      /\ udp' = Idle
      /\ UNCHANGED <<registryVars, by_id, by_address, peer, serial, batch, heard>>
  BY DEF HandshakeAnswered
<1>2. s \in Session /\ by_address[s.address] = s /\ s.serial <= serial
  BY DEF HandshakeAnswered, Threads, Handler, DaemonTypeOK
<1>3. s.key \in PublicKey /\ s.address \in Live /\ s.serial \in Serial /\ s.init \in InitMsg
  BY <1>2, SessionTypes, SMTT(30) DEF Threads, Live
<1> HIDE DEF s
<1>4. /\ cache' \in [PublicKey -> [serial : Serial, init : InitMsg] \cup {NoHandshake}]
      /\ cache'[s.key] = entry
      /\ \A k \in PublicKey : k # s.key => cache'[k] = cache[k]
  BY <1>1, <1>3, SMTT(30) DEF Threads, DaemonTypeOK
<1>5. DaemonTypeOK'
  BY <1>1, <1>3, <1>4 DEF Threads, DaemonTypeOK, Idle
<1>6. Indexed' /\ Apart' /\ SentOnlyWhereHeard' /\ Down' /\ Handler'
  BY <1>1, ZenonT(60) DEF Threads, Indexed, Live, Apart, SentOnlyWhereHeard, Down, Handler, registryVars, Idle
<1>7. Serials'
  BY <1>1, <1>2, SMTT(30) DEF Threads, Serials, Live, Known, registryVars
<1>8. CacheMatchesSession'
  <2> SUFFICES ASSUME NEW x \in Live, by_address[x].serial \in answered \cup {s.serial}
               PROVE  cache'[by_address[x].key] =
                        [serial |-> by_address[x].serial, init |-> by_address[x].init]
    BY <1>1 DEF CacheMatchesSession, Live
  <2>1. CASE x = s.address
    BY <1>2, <1>4, <2>1, SMTT(30)
  <2>2. CASE x # s.address
    <3>1. by_address[x].key # s.key /\ by_address[x].serial # s.serial
      BY <1>2, <1>3, <2>2 DEF Threads, Apart
    <3>2. by_address[x].key \in PublicKey
      BY SessionTypes DEF Threads
    <3> QED
      BY <1>4, <3>1, <3>2 DEF Threads, CacheMatchesSession, Live
  <2> QED
    BY <2>1, <2>2
<1> QED
  BY <1>5, <1>6, <1>7, <1>8 DEF Threads

\* The TUN worker encodes for the endpoint of a session, or empties its batch.
LEMMA TunThreads == ASSUME IInv, Threads, TunNext PROVE Threads'
<1>1. UNCHANGED <<registryVars, by_id, by_address, peer, cache, serial, udp, answered, heard>>
  BY Zenon DEF TunNext, TunPacketEncoded, TunBatchSent
<1>2. \/ batch' = <<>>
      \/ \E x \in Live : /\ Len(batch) < MaxBatch
                         /\ batch' = Append(batch, [session |-> by_address[x],
                                                    to |-> peer[by_address[x].serial]])
  BY DEF TunNext, TunPacketEncoded, TunBatchSent, Live
<1> DEFINE Entry == [session : Session, to : Peer]
           Good(b) == /\ b \in Seq(Entry) /\ Len(b) <= MaxBatch
                      /\ \A n \in 1..Len(b) : /\ b[n].session.serial <= serial
                                              /\ b[n].to \in heard[b[n].session.serial]
<1>3. Good(batch')
  <2>1. CASE batch' = <<>>
    BY <2>1, DaemonAssumption
  <2>2. ASSUME NEW x \in Live, Len(batch) < MaxBatch,
               batch' = Append(batch, [session |-> by_address[x], to |-> peer[by_address[x].serial]])
        PROVE  Good(batch')
    <3> DEFINE e == [session |-> by_address[x], to |-> peer[by_address[x].serial]]
    <3>1. /\ by_address[x] \in Session /\ by_address[x].serial \in Serial
          /\ by_address[x].serial <= serial
      BY SessionTypes DEF Threads, Serials
    <3>2. e \in Entry /\ e.session.serial <= serial /\ e.to \in heard[e.session.serial]
      BY <3>1, SMTT(30) DEF Threads, Serials
    <3>3. Good(batch)
      BY DEF Threads, Serials, SentOnlyWhereHeard, DaemonTypeOK
    <3> HIDE DEF e, Entry
    <3>4. batch' = Append(batch, e) /\ batch \in Seq(Entry)
      BY <2>2, <3>3 DEF e
    <3>5. /\ batch' \in Seq(Entry) /\ Len(batch') = Len(batch) + 1
          /\ \A n \in 1..Len(batch') : batch'[n] = e \/ (n \in 1..Len(batch) /\ batch'[n] = batch[n])
      BY <3>2, <3>4
    <3>6. Len(batch') <= MaxBatch
      BY <2>2, <3>4, <3>5, DaemonAssumption, SMTT(30)
    <3> QED
      BY <3>2, <3>3, <3>5, <3>6
  <2> QED
    BY <1>2, <2>1, <2>2, Zenon
<1>4. DaemonTypeOK'
  BY <1>1, <1>3, SMTT(30) DEF Threads, DaemonTypeOK
<1>5. Indexed' /\ Apart' /\ CacheMatchesSession' /\ Down' /\ Handler'
  BY <1>1 DEF Threads, Indexed, Live, Apart, CacheMatchesSession, Down, Handler, Known, registryVars
<1>6. Serials' /\ SentOnlyWhereHeard'
  BY <1>1, <1>3, Zenon DEF Threads, Serials, SentOnlyWhereHeard, Live, Known, registryVars
<1> QED
  BY <1>4, <1>5, <1>6 DEF Threads

\* The new session takes the place of the one its address had, under both
\* indexes; its serial number is new and its device has no other session.
LEMMA InstalledThreads == ASSUME IInv, Threads, HandshakeInstalled PROVE Threads'
<1> DEFINE n == serial + 1
           x == udp.address
           p == udp.from
           s == [serial |-> n, id |-> udp.init.id, key |-> udp.init.key, address |-> x, init |-> udp.init]
<1>1. /\ udp.at = "install" /\ serial < MaxSerial /\ ~Collides(udp.init.id, x) /\ serial' = n
      /\ replace_client(s) /\ udp' = [at |-> "respond", session |-> s]
      /\ peer' = [peer EXCEPT ![n] = p] /\ heard' = [heard EXCEPT ![n] = {p}]
      /\ UNCHANGED <<registryVars, cache, batch, answered>>
  BY SMTT(30) DEF HandshakeInstalled
<1>2. x \in Address /\ p \in Peer /\ udp.init \in InitMsg /\ up
  BY <1>1, SMTT(60) DEF Threads, DaemonTypeOK, Down, Idle
<1>3. udp.init.id \in SessionId /\ udp.init.key \in PublicKey
  BY <1>2, DaemonAssumption, SMTT(30)
<1>4. n \in Serial /\ n \in Nat /\ serial \in Nat /\ serial < n
  BY <1>1, SessionTypes, DaemonAssumption, SMTT(60) DEF Threads, Serial
<1>5. s \in Session
  BY <1>2, <1>3, <1>4, SMTT(30) DEF Session
<1>6. /\ s.serial = n /\ s.id = udp.init.id /\ s.key = udp.init.key /\ s.address = x
      /\ s # NoSession
  BY <1>5, SessionTypes, SMTT(30) DEF Threads
<1>7. Known(s.key, x) /\ \A y \in Live : by_address[y].key = s.key => y = x
  BY <1>1, <1>6, SMTT(30) DEF Threads, Handler
<1> HIDE DEF n, x, p, s
<1>8. /\ by_address' = [by_address EXCEPT ![x] = s]
      /\ by_id' = [i \in SessionId |->
                     IF i = s.id THEN s
                     ELSE IF by_id[i] # NoSession /\ by_id[i] = by_address[x] THEN NoSession
                     ELSE by_id[i]]
  BY <1>1, <1>6 DEF replace_client
<1>9. /\ by_address' \in [Address -> Session \cup {NoSession}]
      /\ by_id' \in [SessionId -> Session \cup {NoSession}]
      /\ by_address'[x] = s /\ by_id'[s.id] = s
      /\ \A y \in Address : y # x => by_address'[y] = by_address[y]
      /\ Live' = Live \cup {x}
  BY <1>2, <1>3, <1>5, <1>6, <1>8, SMTT(60) DEF Threads, DaemonTypeOK, Live
<1>10. /\ peer' \in [Serial -> Peer \cup {NoPeer}] /\ heard' \in [Serial -> SUBSET Peer]
       /\ peer'[n] = p /\ heard'[n] = {p}
       /\ \A j \in Serial : j # n => peer'[j] = peer[j] /\ heard'[j] = heard[j]
  BY <1>1, <1>2, <1>4, SMTT(30) DEF Threads, DaemonTypeOK
<1>11. DaemonTypeOK'
  <2>1. serial' \in 0..MaxSerial
    BY <1>1, <1>4, DaemonAssumption DEF n
  <2>2. udp' \in [at : {"respond"}, session : Session]
    BY <1>1, <1>5
  <2> QED
    BY <1>1, <1>9, <1>10, <2>1, <2>2 DEF Threads, DaemonTypeOK
<1>12. Indexed'
  <2>1. ASSUME NEW i \in SessionId, by_id'[i] # NoSession
        PROVE  by_id'[i].id = i /\ by_address'[by_id'[i].address] = by_id'[i]
    <3>1. CASE i = s.id
      BY <3>1, <1>6, <1>9
    <3>2. CASE i # s.id
      <4>1. by_id'[i] = by_id[i] /\ by_id[i] # by_address[x]
        BY <2>1, <3>2, <1>8
      <4>2. by_id[i].id = i /\ by_address[by_id[i].address] = by_id[i] /\ by_id[i].address \in Address
        BY <2>1, <4>1, SessionTypes DEF Threads, Indexed
      <4> QED
        BY <4>1, <4>2, <1>9
    <3> QED
      BY <3>1, <3>2
  <2>2. ASSUME NEW y \in Live'
        PROVE  by_address'[y].address = y /\ by_id'[by_address'[y].id] = by_address'[y]
    <3>1. CASE y = x
      BY <3>1, <1>6, <1>9
    <3>2. CASE y # x
      <4> DEFINE t == by_address[y]
      <4>1. y \in Live /\ y \in Address /\ by_address'[y] = t
        BY <2>2, <3>2, <1>9 DEF Live
      <4>2. t \in Session /\ t.address = y /\ by_id[t.id] = t /\ t # NoSession /\ t.id \in SessionId
        BY <4>1, SessionTypes, SMTT(30) DEF Threads, Indexed
      <4>3. t.id # s.id
        BY <4>2, <3>2, <1>1, <1>6 DEF Collides
      <4>4. t # by_address[x]
        BY <4>2, <3>2, <1>2 DEF Threads, Indexed, Live
      <4> HIDE DEF t
      <4>5. by_id'[t.id] = t
        BY <4>2, <4>3, <4>4, <1>8, SMTT(30)
      <4> QED
        BY <4>1, <4>2, <4>5
    <3> QED
      BY <3>1, <3>2
  <2> QED
    BY <2>1, <2>2 DEF Indexed
<1>13. \A y \in Live : by_address[y].serial <= serial /\ by_address[y].serial # n
  BY <1>4, SessionTypes, SMTT(60) DEF Threads, Serials
<1>14. Apart'
  <2> SUFFICES ASSUME NEW y \in Live', NEW z \in Live',
                      \/ by_address'[y].key = by_address'[z].key
                      \/ by_address'[y].serial = by_address'[z].serial
               PROVE  y = z
    BY DEF Apart
  <2>1. CASE y # x /\ z # x
    BY <2>1, <1>9, SMTT(30) DEF Threads, Apart, Live
  <2>2. CASE y = x /\ z # x
    BY <2>2, <1>6, <1>7, <1>9, <1>13, SMTT(30) DEF Live
  <2>3. CASE y # x /\ z = x
    BY <2>3, <1>6, <1>7, <1>9, <1>13 DEF Live
  <2> QED
    BY <2>1, <2>2, <2>3
<1>15. Handler'
  <2>1. udp'.at = "respond" /\ udp'.session = s
    BY <1>1
  <2>2. s.serial <= serial'
    BY <1>1, <1>4, <1>6, SMTT(60)
  <2> QED
    BY <2>1, <2>2, <1>6, <1>9 DEF Handler
<1>16. Serials'
  <2>1. \A y \in Live' : by_address'[y].serial <= serial'
    BY <1>1, <1>4, <1>6, <1>9, <1>13, SessionTypes, SMTT(60) DEF Threads, Live
  <2>2. \A y \in Live' : Known(by_address[y].key, y)'
    <3>1. \A y \in Live' : Known(by_address'[y].key, y)
      BY <1>7, <1>9, SMTT(30) DEF Threads, Serials, Live
    <3> QED
      BY <1>1, <3>1, ZenonT(60) DEF Known, registryVars
  <2>3. \A j \in answered' : j <= serial'
    <3>1. answered \subseteq Nat
      BY SessionTypes, SMTT(30) DEF Threads, DaemonTypeOK
    <3> QED
      BY <1>1, <1>4, <3>1, SMTT(60) DEF Threads, Serials
  <2>4. \A j \in Serial : j <= serial' => peer'[j] \in Peer /\ peer'[j] \in heard'[j]
    <3>1. \A j \in Serial : j # n /\ j <= n => j <= serial
      BY <1>4, SessionTypes, SMTT(30) DEF Threads, n
    <3> QED
      BY <1>1, <1>2, <1>10, <3>1 DEF Threads, Serials
  <2>5. \A j \in 1..Len(batch') : batch'[j].session.serial <= serial'
    <3>1. \A j \in 1..Len(batch) : batch[j].session.serial \in Nat
      BY BatchTypes, SessionTypes, SMTT(30) DEF Threads
    <3> QED
      BY <1>1, <1>4, <3>1, SMTT(60) DEF Threads, Serials
  <2> QED
    BY <2>1, <2>2, <2>3, <2>4, <2>5, SMTT(30) DEF Serials
<1>17. CacheMatchesSession'
  <2>1. n \notin answered
    BY <1>4, SMTT(30) DEF Threads, Serials
  <2> QED
    BY <1>1, <1>6, <1>9, <2>1 DEF Threads, CacheMatchesSession
<1>18. SentOnlyWhereHeard'
  <2>1. \A j \in 1..Len(batch) : batch[j].session.serial \in Serial /\ batch[j].session.serial # n
    BY <1>4, BatchTypes, SessionTypes, SMTT(60) DEF Threads, Serials
  <2> QED
    BY <1>1, <1>10, <2>1, SMTT(30) DEF Threads, SentOnlyWhereHeard
<1>19. Down'
  BY <1>1, <1>2 DEF Down, registryVars
<1> QED
  BY <1>11, <1>12, <1>14, <1>15, <1>16, <1>17, <1>18, <1>19 DEF Threads

-------------------------------------------------------------------------------

\* DInv is inductive.
LEMMA DaemonInit == Init => DInv
<1> SUFFICES ASSUME Init PROVE DInv
  OBVIOUS
<1>1. IInv
  BY InitDurable DEF Init
<1>2. RegistryTypeOK
  BY <1>1, Zenon DEF Init, RegistryInit, RegistryTypeOK, IInv, Fields, Unlocked
<1> QED
  BY <1>1, <1>2, InitThreads DEF DInv

LEMMA DaemonStep == DInv /\ [Next]_vars => DInv'
<1> SUFFICES ASSUME DInv, [Next]_vars PROVE DInv'
  OBVIOUS
<1>1. IInv' /\ RegistryTypeOK'
  BY DaemonSteps, StepDurable, RegistryTypes DEF DInv
<1>2. IInv /\ Threads
  BY DEF DInv
<1>3. CASE open /\ UNCHANGED daemonVars
  BY <1>1, <1>2, <1>3, OpenThreads DEF DInv
<1>4. CASE AdminNext /\ UNCHANGED daemonVars
  BY <1>1, <1>2, <1>4, AdminThreads DEF DInv
<1>5. CASE DaemonCrash
  BY <1>1, <1>5, CrashThreads DEF DInv
<1>6. CASE UNCHANGED vars
  <2>1. Threads'
    BY <1>2, <1>6, ZenonT(60) DEF vars, daemonVars, registryVars, Threads, DaemonTypeOK, Indexed, Apart, Handler,
                      Serials, Known, Live, Down, CacheMatchesSession, SentOnlyWhereHeard
  <2> QED
    BY <1>1, <2>1 DEF DInv
<1>7. CASE UdpNext
  <2>1. CASE \E m \in InitMsg : HandshakeRepeated(m)
    BY <1>6, <2>1 DEF HandshakeRepeated
  <2>2. CASE \E m \in InitMsg, p \in Peer : HandshakeAuthorized(m, p)
    BY <1>1, <1>2, <2>2, AuthorizedThreads DEF DInv
  <2>3. CASE HandshakeInstalled \/ HandshakeAnswered \/ ClientPacketAccepted
    BY <1>1, <1>2, <2>3, InstalledThreads, AnsweredThreads, AcceptedThreads DEF DInv
  <2>4. CASE HandshakeCollided \/ HandshakeUnanswered \/ ClientPacketDropped
    BY <1>1, <1>2, <2>4, IdleThreads DEF DInv
  <2>5. CASE \E i \in SessionId, p \in Peer : ClientPacketChecked(i, p)
    BY <1>1, <1>2, <2>5, CheckedThreads DEF DInv
  <2> QED
    BY <1>7, <2>1, <2>2, <2>3, <2>4, <2>5 DEF UdpNext
<1>8. CASE TunNext
  BY <1>1, <1>2, <1>8, TunThreads DEF DInv
<1> QED
  BY DaemonSteps, <1>3, <1>4, <1>5, <1>6, <1>7, <1>8

\* DInv holds at every moment, whatever the network, the clients, the
\* administrator and crashes do.
THEOREM DaemonInvariant == Spec => []DInv
<1> QED
  BY DaemonInit, DaemonStep, PTL DEF Spec

\* The UDP loop, the TUN worker and the admin thread agree at every moment: on
\* the sessions, on who holds an address, on the response of a repeated request
\* and on the endpoint of a session.
THEOREM ThreadsAlwaysAgree == Spec => []ThreadsAgree
<1>1. DInv => ThreadsAgree
  <2> SUFFICES ASSUME DInv PROVE ThreadsAgree
    OBVIOUS
  <2>1. IndexesAgree
    BY DEF DInv, IInv, Threads, Indexed, Live, IndexesAgree, TypeOK
  <2>2. ActiveHoldsLease
    BY DEF DInv, Threads, Serials, Known, Live, ActiveHoldsLease, is_active
  <2> QED
    BY <2>1, <2>2 DEF DInv, Threads, ThreadsAgree
<1> QED
  BY DaemonInvariant, <1>1, PTL

\* After revoke returned no thread picks up a packet of that device, in this
\* run of the daemon or in a later one.
THEOREM RevokedNeverServed == Spec => RevokedNotServed
<1>1. ASSUME DInv, NEW a \in Address, TunPacketEncoded(a) PROVE by_address[a].key \notin revoked
  BY <1>1 DEF DInv, IInv, RevokedForGood, TunPacketEncoded, is_active
<1>2. ASSUME DInv, NEW i \in SessionId, NEW p \in Peer, ClientPacketChecked(i, p)
      PROVE  by_id[i].key \notin revoked
  BY <1>2 DEF DInv, IInv, RevokedForGood, ClientPacketChecked, is_active
<1>3. DInv =>
        [/\ \A a \in Address : TunPacketEncoded(a) => by_address[a].key \notin revoked
         /\ \A i \in SessionId, p \in Peer :
               ClientPacketChecked(i, p) => by_id[i].key \notin revoked]_vars
  BY <1>1, <1>2
<1> QED
  BY DaemonInvariant, <1>3, PTL DEF RevokedNotServed

\* The registry is as durable in the daemon as it is alone.
THEOREM DaemonDurable == Spec => []RegistryDurable
<1>1. DInv => RegistryDurable
  BY DEF DInv, IInv, RegistryDurable
<1> QED
  BY DaemonInvariant, <1>1, PTL
===============================================================================
