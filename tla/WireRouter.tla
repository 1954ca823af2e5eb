------------------------------ MODULE WireRouter -------------------------------
(***************************************************************************)
(* How the server finds out which device sent a datagram and in which wire *)
(* profile: MorphRouter and decode_wire_into of server/src/daemon.rs over  *)
(* the routing tags of morph/src/lib.rs and speedy/src/lib.rs, and the     *)
(* frames the clients make (client-wire/src/lib.rs).                       *)
(*                                                                         *)
(* Time is counted in seconds of the system clock; it may advance between  *)
(* any two readings a handler makes.  A routing tag is an opaque value of  *)
(* a device, a profile and an epoch; two of them may be equal.  A frame    *)
(* passes the authentication of the codec whose key made it and no other.  *)
(***************************************************************************)
EXTENDS Integers, Sequences, FiniteSets

CONSTANTS
    PublicKey,               \* the devices' keys
    Registered,              \* those registered at the start
    WeakKey,                 \* those derive_morph_key refuses
    EpochSeconds,            \* epoch_seconds and EPOCH_SECONDS, by profile
    RoutingTag(_, _, _),     \* routing_tag_at: key, profile, epoch -> tag
    LegacyTag,               \* the first eight bytes of an unmasked datagram
    StartTime, MaxTime       \* bounds: the clock

MorphProfile == {"Quiet", "Balanced", "Paranoid"}
Profile == MorphProfile \cup {"Speedy"}
ProfileOrder == <<"Quiet", "Balanced", "Paranoid", "Speedy">>
Time == StartTime..MaxTime

\* The clock is past the first epoch of every profile.
ASSUME RouterAssumption ==
    /\ WeakKey \subseteq PublicKey /\ Registered \subseteq PublicKey
    /\ EpochSeconds \in [Profile -> Nat \ {0}]
    /\ StartTime \in Nat /\ MaxTime \in Nat
    /\ \A p \in Profile : EpochSeconds[p] <= StartTime

VARIABLES
    now,             \* SystemTime::now(), in seconds
    devices,         \* the keys SharedDeviceRegistry::list returns
    revoked,         \* the keys that were among them
    changed,         \* history: when a device was last provisioned or revoked,
                     \* Never if that was before the second of the datagram
    epoch,           \* MorphRouter::epoch, Never for None
    routes,          \* MorphRouter::routes and speedy_routes
    ambiguous,       \* MorphRouter::ambiguous
    built,           \* history: the tags' owners the last refresh went through
    udp              \* the datagram in the UDP loop and how far it got

registry == <<devices, revoked, changed>>
router == <<epoch, routes, ambiguous, built>>
vars == <<now, registry, router, udp>>

Never == -1

current_epoch(p) == now \div EpochSeconds[p]
Previous(e) == IF e = 0 THEN 0 ELSE e - 1
accepted_epochs_no_next(e) == {Previous(e), e}
accepted_epochs(e) == {Previous(e), e, e + 1}

\* What a client's encode and encode_cover make at its time; Legacy is not masked.
Frame == {f \in [key : PublicKey \ WeakKey, profile : Profile \cup {"Legacy"},
                 time : Time, cover : BOOLEAN] : f.cover => f.profile \in MorphProfile}
EpochOf(f) == f.time \div EpochSeconds[f.profile]
TagOf(f) ==
    IF f.profile = "Legacy" THEN LegacyTag
    ELSE RoutingTag(f.key, f.profile, EpochOf(f))

Init ==
    /\ now = StartTime
    /\ devices = Registered /\ revoked = {}
    /\ changed = [k \in PublicKey |-> Never]
    /\ epoch = Never /\ routes = {} /\ ambiguous = {} /\ built = {}
    /\ udp = [at |-> "receive"]

Idle == udp.at \in {"receive", "done"}

\* Between two datagrams the history is dropped.
Tick ==
    /\ now < MaxTime
    /\ now' = now + 1
    /\ changed' = IF Idle THEN [k \in PublicKey |-> Never] ELSE changed
    /\ udp' = IF Idle THEN [at |-> "receive"] ELSE udp
    /\ UNCHANGED <<devices, revoked, router>>

\* The admin thread: a new device has a new key, and one device remains.
provision(k) ==
    /\ k \notin devices \cup revoked
    /\ devices' = devices \cup {k} /\ changed' = [changed EXCEPT ![k] = now]
    /\ UNCHANGED <<now, revoked, router, udp>>

revoke(k) ==
    /\ k \in devices /\ devices # {k}
    /\ devices' = devices \ {k} /\ revoked' = revoked \cup {k}
    /\ changed' = [changed EXCEPT ![k] = now]
    /\ UNCHANGED <<now, router, udp>>

-------------------------------------------------------------------------------
(* The router's tables.  An owner is a device, a profile and an epoch. *)

Owner == [key : PublicKey, profile : Profile, epoch : Nat]
At(k, p, e) == [key |-> k, profile |-> p, epoch |-> e]
OwnTag(o) == RoutingTag(o.key, o.profile, o.epoch)

Table == [routes |-> routes, ambiguous |-> ambiguous]

\* One tag goes in: a tag that is taken by either kind of profile is taken out
\* and stays out.
Entered_overwrites(table, o) ==
    [table EXCEPT !.routes = {r \in @ : OwnTag(r) # OwnTag(o)} \cup {o}]

Entered(table, o) ==
    IF OwnTag(o) \in table.ambiguous THEN table
    ELSE IF \E r \in table.routes : OwnTag(r) = OwnTag(o)
    THEN [routes |-> {r \in table.routes : OwnTag(r) # OwnTag(o)},
          ambiguous |-> table.ambiguous \cup {OwnTag(o)}]
    ELSE [routes |-> table.routes \cup {o}, ambiguous |-> table.ambiguous]

\* The three tags of one profile of one device, in the order of its codec.
AllEntered(k, p, e) ==
    IF p = "Speedy"
    THEN Entered(Entered(Entered(Table, At(k, p, e)), At(k, p, Previous(e))),
                 At(k, p, e + 1))
    ELSE Entered(Entered(Entered(Table, At(k, p, Previous(e))), At(k, p, e)),
                 At(k, p, e + 1))

-------------------------------------------------------------------------------
(* The UDP loop: decode_wire_into for one datagram. *)

\* A datagram arrives; which one it is matters, and is chosen, in Lookup.
Receive ==
    /\ Idle
    /\ udp' = [at |-> "resolve", arrived |-> now]
    /\ changed' = [k \in PublicKey |-> IF changed[k] < now THEN Never ELSE now]
    /\ UNCHANGED <<now, devices, revoked, router>>

\* resolve: the tables are made anew in every epoch of the shortest profile.
ResolveCurrent == epoch = current_epoch("Paranoid")

Resolve ==
    /\ udp.at = "resolve"
    /\ \/ /\ ResolveCurrent
          /\ udp' = [udp EXCEPT !.at = "lookup"]
          /\ UNCHANGED router
       \/ /\ ~ResolveCurrent
          /\ udp' = [at |-> "refresh", arrived |-> udp.arrived,
                     epoch |-> current_epoch("Paranoid"), todo |-> devices]
          /\ routes' = {} /\ ambiguous' = {} /\ built' = {}
          /\ UNCHANGED epoch
    /\ UNCHANGED <<now, registry>>

\* refresh takes the devices in the order of a HashSet and skips a key it
\* cannot use; of each it takes the profiles in turn.  Its other errors have no
\* step: a clock before 1970, and a key derive_speedy_key refuses, which
\* derive_morph_key has refused already.
RefreshDevice(k) ==
    /\ udp.at = "refresh" /\ k \in udp.todo
    /\ udp' = IF k \in WeakKey THEN [udp EXCEPT !.todo = @ \ {k}]
              ELSE [at |-> "device", arrived |-> udp.arrived, epoch |-> udp.epoch,
                    todo |-> udp.todo \ {k}, key |-> k, turn |-> 1]
    /\ UNCHANGED <<now, registry, router>>

RefreshProfile ==
    /\ udp.at = "device"
    /\ LET p == ProfileOrder[udp.turn]
           e == current_epoch(p)
           table == AllEntered(udp.key, p, e)
       IN /\ routes' = table.routes /\ ambiguous' = table.ambiguous
          /\ built' = built \cup {At(udp.key, p, x) : x \in accepted_epochs(e)}
    /\ udp' = IF udp.turn < 4 THEN [udp EXCEPT !.turn = @ + 1]
              ELSE [at |-> "refresh", arrived |-> udp.arrived, epoch |-> udp.epoch,
                    todo |-> udp.todo]
    /\ UNCHANGED <<now, registry, epoch>>

Refreshed ==
    /\ udp.at = "refresh" /\ udp.todo = {}
    /\ epoch' = udp.epoch
    /\ udp' = [at |-> "lookup", arrived |-> udp.arrived]
    /\ UNCHANGED <<now, registry, routes, ambiguous, built>>

Done(f, outcome) ==
    udp' = [at |-> "done", frame |-> f, arrived |-> udp.arrived, outcome |-> outcome]

\* What decode_wire_into returns.
Refused == [profile |-> "none"]
Legacy == [profile |-> "Legacy"]

Lookup(f) ==
    /\ udp.at = "lookup"
    /\ \/ \E r \in routes :
             /\ OwnTag(r) = TagOf(f)
             /\ udp' = [at |-> "decode", frame |-> f, arrived |-> udp.arrived, route |-> r]
       \/ /\ \A r \in routes : OwnTag(r) # TagOf(f)
          /\ Done(f, IF TagOf(f) \in ambiguous THEN Refused ELSE Legacy)
    /\ UNCHANGED <<now, registry, router>>

\* The codecs read the clock again; the tag is looked for in its three epochs.
matches_routing_tag(r, f) ==
    \E e \in accepted_epochs(current_epoch(r.profile)) :
        RoutingTag(r.key, r.profile, e) = TagOf(f)

\* A frame of another key or codec is not authentic; cover is decoded and dropped.
decode_frame(r, f) ==
    matches_routing_tag(r, f) /\ f.key = r.key /\ f.profile = r.profile /\ ~f.cover

decode_at(r, f) ==
    matches_routing_tag(r, f) /\ f.key = r.key /\ f.profile = "Speedy"

Decodes(r, f) == IF r.profile = "Speedy" THEN decode_at(r, f) ELSE decode_frame(r, f)

Decode ==
    /\ udp.at = "decode"
    /\ Done(udp.frame, IF Decodes(udp.route, udp.frame)
                       THEN [profile |-> udp.route.profile, key |-> udp.route.key]
                       ELSE Refused)
    /\ UNCHANGED <<now, registry, router>>

Next ==
    \/ Tick
    \/ \E k \in PublicKey : provision(k) \/ revoke(k) \/ RefreshDevice(k)
    \/ \E f \in Frame : Lookup(f)
    \/ Receive \/ Resolve \/ RefreshProfile \/ Refreshed \/ Decode

Spec == Init /\ [][Next]_vars

-------------------------------------------------------------------------------

\* The owners whose tag another one has too.
Shared(owners) == {o \in owners : \E x \in owners : x # o /\ OwnTag(x) = OwnTag(o)}

Exact(table, owners) ==
    /\ table.routes = owners \ Shared(owners)
    /\ table.ambiguous = {OwnTag(o) : o \in Shared(owners)}

\* While refresh fills the tables and when they are looked up they hold what
\* they must, whatever order the devices come in and however their tags collide:
\* a tag with one owner leads to that owner, and a tag with several nowhere.
TablesExact == udp.at \in {"refresh", "device", "lookup"} => Exact(Table, built)

\* The tag of a frame belongs to no other device, profile or epoch.
Unmistakable(f) ==
    \A k \in PublicKey, p \in Profile :
        \A e \in 0..(MaxTime \div EpochSeconds[p] + 1) :
            RoutingTag(k, p, e) = TagOf(f) => At(k, p, e) = At(f.key, f.profile, EpochOf(f))

Near(f, t) == EpochOf(f) - t \div EpochSeconds[f.profile] \in {-1, 0, 1}

\* A frame of a device that was provisioned before the second it arrives in is
\* accepted if its clock is at most one epoch off, however the server's clock
\* advances between its readings, when the tables were last made, and who else
\* was provisioned or revoked since.
FreshFrameAccepted ==
    LET f == udp.frame
    IN  (/\ udp.at = "done"
         /\ f.profile # "Legacy" /\ ~f.cover
         /\ f.key \in devices /\ changed[f.key] < udp.arrived
         /\ Near(f, udp.arrived) /\ Near(f, now) /\ Unmistakable(f))
            => udp.outcome = [profile |-> f.profile, key |-> f.key]

\* A device that was revoked before the second its frame arrives in is not
\* found any more, and what is found is the device that made the frame.
RevokedNotRouted ==
    udp.at = "done" /\ udp.outcome.profile \in Profile
        => /\ udp.outcome.key = udp.frame.key
           /\ udp.frame.key \in devices \/ changed[udp.frame.key] >= udp.arrived
===============================================================================
