------------------------------- MODULE FlowWatch --------------------------------
(***************************************************************************)
(* Which packets the Windows split tunnel takes: windivert/flow.rs,        *)
(* prepare_outbound and prepare_inbound of windivert/divert.rs and what    *)
(* they ask of windivert/packet.rs.  Two watchers read the events of two   *)
(* WinDivert layers, each layer in its own order and both behind what the  *)
(* machine does; a process ID may belong to another program by the time it *)
(* is looked up.  The machine moves to another network, and with it to     *)
(* another local address, before the tunnel learns of it.                  *)
(***************************************************************************)
EXTENDS Naturals, Sequences, FiniteSets

CONSTANTS
    Program,    \* processes in the history of the machine
    Pid,        \* the process ID of each
    Listed,     \* those whose executable the policy names
    Protected,  \* those that cannot be opened
    Family,     \* the address family of the server, 4 or 6
    Key,        \* five-tuples
    Address,    \* the physical addresses the machine may have
    Local,      \* the local address of each key
    Capacity,   \* CLASSIFICATION_CAPACITY
    MaxFlows,   \* bound: flows
    MaxQueue    \* bound: events a layer has ready

FlowAssumption == Local \in [Key -> Address] /\ Listed \cap Protected = {} /\ Capacity > 0 /\ Family \in {4, 6}

None == "none"
Layer == {"socket", "flow"}
Verdict(mode, listed) == IF (mode = "exclude") # listed THEN "tunnel" ELSE "direct"

VARIABLES
    mode,        \* the policy's mode
    alive,       \* running processes, one for a process ID
    owner,       \* the process of each live flow, or None
    established, \* the flows among them that got through
    queue,       \* events of each layer that is watched: <<event, key, process ID>>
    watching,    \* the layers whose watcher runs
    table,       \* FlowTable: "tunnel", "direct" or None
    cache,       \* Classifier.cache: <<process, whether listed>>
    address,     \* the machine's address
    physical,    \* the address of the tunnel's translation
    found,       \* the address a reconnect on its way has read, or None
    flows,       \* history: flows so far
    reused,      \* history: keys opened while events of a former flow were waiting
    forgotten    \* history: keys whose flow was open when the table was cleared

machine == <<alive, owner, established, address>>
session == <<physical, found>>
history == <<flows, reused, forgotten>>
vars == <<mode, machine, queue, watching, table, cache, session, history>>

Init ==
    /\ mode \in {"include", "exclude"}
    /\ alive = {} /\ owner = [k \in Key |-> None] /\ established = {}
    /\ queue = [l \in Layer |-> <<>>] /\ watching = Layer
    /\ table = [k \in Key |-> None] /\ cache = {}
    /\ address \in Address /\ physical = address /\ found = None
    /\ flows = 0 /\ reused = {} /\ forgotten = {}

-----------------------------------------------------------------------------
(* The machine and the events it makes.                                    *)

Starts(p) ==
    /\ p \notin alive /\ \A q \in alive : Pid[q] # Pid[p]
    /\ alive' = alive \cup {p}
    /\ UNCHANGED <<mode, owner, established, address, queue, watching, table, cache, session, history>>

Reports(l, event, k, p) ==
    queue' = IF l \in watching THEN [queue EXCEPT ![l] = Append(@, <<event, k, Pid[p]>>)] ELSE queue
Room(l) == Len(queue[l]) < MaxQueue

(* A connection is reported to the socket layer before its first packet    *)
(* and to the flow layer when it is established, a socket without one to   *)
(* the flow layer only.                                                    *)
Opens(p, k) ==
    /\ p \in alive /\ owner[k] = None /\ Local[k] = address /\ flows < MaxFlows
    /\ owner' = [owner EXCEPT ![k] = p] /\ flows' = flows + 1 /\ forgotten' = forgotten \ {k}
    /\ reused' = IF \E l \in Layer : \E i \in 1 .. Len(queue[l]) : queue[l][i][2] = k
                 THEN reused \cup {k} ELSE reused \ {k}
    /\ \/ Room("socket") /\ Reports("socket", "connect", k, p) /\ UNCHANGED established
       \/ Room("flow") /\ Reports("flow", "established", k, p) /\ established' = established \cup {k}
    /\ UNCHANGED <<mode, alive, address, watching, table, cache, session>>

Establishes(k) ==
    /\ owner[k] # None /\ k \notin established /\ Room("flow")
    /\ established' = established \cup {k} /\ Reports("flow", "established", k, owner[k])
    /\ UNCHANGED <<mode, alive, owner, address, watching, table, cache, session, history>>

(* The flow layer reports some flows a second time, for a process that     *)
(* cannot be opened.                                                       *)
Crosses(k, p) ==
    /\ k \in established /\ p \in Protected \cap alive /\ Room("flow")
    /\ Reports("flow", "established", k, p)
    /\ UNCHANGED <<mode, machine, watching, table, cache, session, history>>

Closes(k) ==
    /\ owner[k] # None /\ \A l \in Layer : Room(l)
    /\ queue' = [l \in Layer |->
         IF l \in watching /\ (l = "socket" \/ k \in established)
         THEN Append(queue[l], <<"closed", k, Pid[owner[k]]>>) ELSE queue[l]]
    /\ owner' = [owner EXCEPT ![k] = None] /\ established' = established \ {k}
    /\ UNCHANGED <<mode, alive, address, watching, table, cache, session, history>>

Exits(p) ==
    /\ p \in alive /\ \A k \in Key : owner[k] # p
    /\ alive' = alive \ {p}
    /\ UNCHANGED <<mode, owner, established, address, queue, watching, table, cache, session, history>>

(* The flows of the old address stay until they are closed.                *)
Moves ==
    /\ address' \in Address \ {address}
    /\ UNCHANGED <<mode, alive, owner, established, queue, watching, table, cache, session, history>>

-----------------------------------------------------------------------------
(* Classifier.                                                             *)

(* The process that has the ID now, if it can be opened.                   *)
open(pid) == {p \in alive \ Protected : Pid[p] = pid}

(* An answer is remembered for a process ID together with the time its     *)
(* process was created, that is for a process.                             *)
cached(p) == {c \in cache : c[1] = p}

is_listed(p) == IF cached(p) # {} THEN (CHOOSE c \in cached(p) : TRUE)[2] ELSE p \in Listed

remember(p) ==
    cache' = IF cached(p) # {} THEN cache
             ELSE (IF Cardinality(cache) >= Capacity THEN {} ELSE cache) \cup {<<p, p \in Listed>>}

(* FlowWatcher's run: one event.                                           *)
insert_unattributed_over(k) == [table EXCEPT ![k] = Verdict(mode, FALSE)]

insert_unattributed(k) == [table EXCEPT ![k] = IF @ = None THEN Verdict(mode, FALSE) ELSE @]

run(l) ==
    /\ l \in watching /\ queue[l] # <<>>
    /\ queue' = [queue EXCEPT ![l] = Tail(@)]
    /\ LET event == Head(queue[l])[1]
           k == Head(queue[l])[2]
           process == open(Head(queue[l])[3])
       IN  CASE event = "closed" -> table' = [table EXCEPT ![k] = None] /\ UNCHANGED cache
             [] event # "closed" /\ process = {} -> table' = insert_unattributed(k) /\ UNCHANGED cache
             [] event # "closed" /\ process # {} ->
                  \E p \in process :
                    /\ table' = [table EXCEPT ![k] = Verdict(mode, is_listed(p))] /\ remember(p)
    /\ UNCHANGED <<mode, machine, watching, session, history>>

(* A watcher whose handle fails ends, and nobody reads its events any      *)
(* more; the last one says so.                                             *)
WatcherEnds(l) ==
    /\ l \in watching /\ watching' = watching \ {l}
    /\ queue' = [queue EXCEPT ![l] = <<>>]
    /\ UNCHANGED <<mode, machine, table, cache, session, history>>

(* establish reads the address before its handshake, which may fail, and   *)
(* compares it with the translation's after it.  On another address the    *)
(* whole table is cleared, the flows opened there since the move included; *)
(* a reconnect that has read the same address leaves the table alone.      *)
ReadsAddress ==
    /\ found = None /\ address # physical /\ found' = address
    /\ UNCHANGED <<mode, machine, queue, watching, table, cache, physical, history>>

clear ==
    /\ found # None /\ found' = None
    /\ \/ UNCHANGED <<table, physical, forgotten>>
       \/ /\ physical' = found
          /\ table' = [k \in Key |-> None] /\ forgotten' = {k \in Key : owner[k] # None}
    /\ UNCHANGED <<mode, machine, queue, watching, cache, flows, reused>>

Next ==
    \/ ReadsAddress \/ clear \/ Moves
    \/ \E p \in Program : Starts(p) \/ Exits(p) \/ \E k \in Key : Opens(p, k) \/ Crosses(k, p)
    \/ \E k \in Key : Establishes(k) \/ Closes(k)
    \/ \E l \in Layer : run(l) \/ WatcherEnds(l)

Spec == Init /\ [][Next]_vars

-----------------------------------------------------------------------------
(* The packets.  One carries its ports unless it is a later fragment; it   *)
(* has a segment size when it opens a TCP connection.                      *)

Segment == {0, 1, 2, 3}     \* 0: no segment size; 2 is the tunnel's largest
Packet == [key : Key, family : {4, 6}, source : {"physical", "tunnel"}, ports : BOOLEAN,
           resolver : BOOLEAN, segment : Segment]

(* What the capture filter lets through: one family, the server's.         *)
filter(packet) == packet.family = Family

clamp_mss(packet) == [packet EXCEPT !.segment = IF @ > 2 THEN 2 ELSE @]

(* The session assigns an IPv4 address, which no other packet can carry.   *)
set_source(packet) == IF packet.family = 4 THEN {[packet EXCEPT !.source = "tunnel"]} ELSE {}

routed(packet, entry) == packet.ports /\ (packet.resolver \/ entry = "tunnel")

(* entry is what the table has for the packet's key.                       *)
prepare_outbound(packet, entry) ==
    IF ~routed(packet, entry) THEN <<"pass", packet>>
    ELSE IF set_source(packet) = {} THEN <<"discard", packet>>
    ELSE <<"tunnel", clamp_mss(CHOOSE translated \in set_source(packet) : TRUE)>>

(* The reply to a packet that went out: its destination is our source.     *)
prepare_inbound(packet) ==
    IF packet.source # "tunnel" THEN {}
    ELSE {clamp_mss([packet EXCEPT !.source = "physical"])}

-----------------------------------------------------------------------------
TypeOK ==
    /\ alive \subseteq Program /\ owner \in [Key -> Program \cup {None}] /\ established \subseteq Key
    /\ table \in [Key -> {"tunnel", "direct", None}] /\ watching \subseteq Layer
    /\ \A l \in Layer : Len(queue[l]) <= MaxQueue

Pending(k) == {l \in Layer : \E i \in 1 .. Len(queue[l]) : queue[l][i][2] = k}
Right(k) == Verdict(mode, owner[k] \in Listed)

(* Once a watcher has seen a live flow its entry is the policy's verdict   *)
(* for the program that owns it: whatever process ID was used before,      *)
(* however the two layers overtake each other, whatever the cache forgot.  *)
(* A flow nobody watches and one of a program that cannot be opened have   *)
(* no such claim.  A flow that took over a key whose former events were    *)
(* still in a queue, and one that was open when the machine's new address  *)
(* had the table cleared, may be left without an entry, or with the one of *)
(* an unlisted program: never with the verdict for another program.        *)
VerdictRight ==
    /\ TypeOK
    /\ Cardinality(cache) <= Capacity
    /\ watching = Layer =>
         \A k \in Key : owner[k] # None /\ Pending(k) = {} /\ owner[k] \notin Protected =>
           \/ table[k] = Right(k)
           \/ k \in reused \cup forgotten /\ table[k] \in {None, Verdict(mode, FALSE)}

(* A captured packet of a routed program is handed back to the physical    *)
(* link only when its flow has no right entry yet or it is a later         *)
(* fragment; what the session cannot carry is dropped.  A packet of        *)
(* another program is handed back as it was, unless it asks the resolver.  *)
(* What went through the tunnel comes back to the address it was sent      *)
(* from, and neither direction leaves a segment size the tunnel cannot     *)
(* carry.                                                                  *)
RoutedStaysInside ==
    \A packet \in Packet :
      LET k == packet.key
          out == prepare_outbound(packet, table[k])
      IN  owner[k] # None /\ filter(packet) /\ packet.source = "physical" /\ table[k] = Right(k) =>
            /\ Right(k) = "tunnel" /\ packet.ports => out[1] # "pass"
            /\ Right(k) = "direct" /\ ~packet.resolver => out = <<"pass", packet>>
            /\ out[1] = "tunnel" =>
                 /\ out[2].source = "tunnel" /\ out[2].segment <= 2
                 /\ packet.segment # 0 <=> out[2].segment # 0
                 /\ \E reply \in prepare_inbound([out[2] EXCEPT !.segment = packet.segment]) :
                      reply.source = packet.source /\ reply.segment <= 2
===============================================================================
