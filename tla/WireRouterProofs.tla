---------------------------- MODULE WireRouterProofs ---------------------------
(***************************************************************************)
(* The server's routing tables are exact: for every set of devices, every  *)
(* length of the epochs, every collision of routing tags, every order in   *)
(* which refresh takes the devices and every advance of the clock.         *)
(***************************************************************************)
EXTENDS WireRouter, TLAPS

\* The clock is past the first epoch, so the three accepted epochs differ.
LEMMA EpochPositive ==
    ASSUME NEW n \in Nat \ {0}, NEW t \in Nat, n <= t
    PROVE  t \div n \in Nat /\ t \div n >= 1
<1> DEFINE q == t \div n
           r == t % n
<1>1. q \in Int /\ r \in Int /\ t = n * q + r /\ 0 <= r /\ r < n
  BY Z3
<1>2. q >= 1
  <2> SUFFICES ASSUME q <= 0 PROVE FALSE
    BY <1>1
  <2>1. n * q <= 0
    BY <1>1, Z3
  <2> QED
    BY <2>1, <1>1
<1> QED
  BY <1>1, <1>2

\* One more owner enters exact tables and they stay exact: daemon.rs takes a tag
\* that is taken already out of the tables and remembers it.
LEMMA EnteredExact ==
    ASSUME NEW table, NEW owners, NEW o, o \notin owners, Exact(table, owners)
    PROVE  Exact(Entered(table, o), owners \cup {o})
<1> DEFINE more == owners \cup {o}
           tag == OwnTag(o)
<1>1. /\ table.routes = owners \ Shared(owners)
      /\ table.ambiguous = {OwnTag(x) : x \in Shared(owners)}
  BY DEF Exact
<1>2. CASE tag \in table.ambiguous
  <2>1. PICK s \in Shared(owners) : OwnTag(s) = tag
    BY <1>1, <1>2
  <2>2. Shared(more) = Shared(owners) \cup {o}
    BY <2>1 DEF Shared
  <2>3. Entered(table, o) = table
    BY <1>2 DEF Entered
  <2>4. more \ Shared(more) = owners \ Shared(owners)
    BY <2>2 DEF Shared
  <2>5. {OwnTag(x) : x \in Shared(more)} = {OwnTag(x) : x \in Shared(owners)}
    BY <2>2, <2>1
  <2> QED
    BY <1>1, <2>3, <2>4, <2>5 DEF Exact
<1>3. CASE tag \notin table.ambiguous /\ \E r \in table.routes : OwnTag(r) = tag
  <2>1. PICK r \in table.routes : OwnTag(r) = tag
    BY <1>3
  <2>2. Shared(more) = Shared(owners) \cup {o, r}
    BY <1>1, <2>1 DEF Shared
  <2>3. {x \in table.routes : OwnTag(x) # tag} = more \ Shared(more)
    BY <1>1, <2>1, <2>2 DEF Shared
  <2>4. table.ambiguous \cup {tag} = {OwnTag(x) : x \in Shared(more)}
    BY <1>1, <2>1, <2>2
  <2>5. Entered(table, o) = [routes |-> {x \in table.routes : OwnTag(x) # tag},
                             ambiguous |-> table.ambiguous \cup {tag}]
    BY <1>3 DEF Entered
  <2> QED
    BY <2>3, <2>4, <2>5, SMTT(60) DEF Exact
<1>4. CASE tag \notin table.ambiguous /\ ~ \E r \in table.routes : OwnTag(r) = tag
  <2>1. \A x \in owners : OwnTag(x) # tag
    BY <1>1, <1>4
  <2>2. Shared(more) = Shared(owners)
    BY <2>1 DEF Shared
  <2>3. Entered(table, o) = [routes |-> table.routes \cup {o},
                             ambiguous |-> table.ambiguous]
    BY <1>4 DEF Entered
  <2>4. o \notin Shared(owners)
    BY DEF Shared
  <2> QED
    BY <1>1, <2>2, <2>3, <2>4 DEF Exact
<1> QED
  BY <1>2, <1>3, <1>4

\* Three different owners that are not in the tables yet.
LEMMA ThreeEnteredExact ==
    ASSUME NEW table, NEW owners, NEW a, NEW b, NEW c,
           a \notin owners, b \notin owners, c \notin owners,
           a # b, a # c, b # c, Exact(table, owners)
    PROVE  Exact(Entered(Entered(Entered(table, a), b), c), owners \cup {a, b, c})
<1>1. Exact(Entered(table, a), owners \cup {a})
  BY EnteredExact
<1>2. Exact(Entered(Entered(table, a), b), (owners \cup {a}) \cup {b})
  BY <1>1, EnteredExact
<1>3. Exact(Entered(Entered(Entered(table, a), b), c), ((owners \cup {a}) \cup {b}) \cup {c})
  BY <1>2, EnteredExact
<1>4. ((owners \cup {a}) \cup {b}) \cup {c} = owners \cup {a, b, c}
  OBVIOUS
<1> QED
  BY <1>3, <1>4
-------------------------------------------------------------------------------

\* The tables are exact in every state, and while they are filled they hold no
\* owner that is still to come: a device not yet taken, or the profiles of the
\* present device from its turn on.
Inductive ==
    /\ now \in Nat /\ StartTime <= now
    /\ Exact(Table, built)
    /\ udp.at = "resolve" => udp = [at |-> "resolve", arrived |-> udp.arrived]
    /\ udp.at = "refresh" =>
          /\ udp = [at |-> "refresh", arrived |-> udp.arrived, epoch |-> udp.epoch,
                    todo |-> udp.todo]
          /\ \A o \in built : o.key \notin udp.todo
    /\ udp.at = "device" =>
          /\ udp = [at |-> "device", arrived |-> udp.arrived, epoch |-> udp.epoch,
                    todo |-> udp.todo, key |-> udp.key, turn |-> udp.turn]
          /\ udp.turn \in 1..4 /\ udp.key \notin udp.todo
          /\ \A o \in built :
                /\ o.key \notin udp.todo
                /\ o.key = udp.key => \A i \in udp.turn..4 : o.profile # ProfileOrder[i]

LEMMA InitInductive == Init => Inductive
<1> SUFFICES ASSUME Init PROVE Inductive
  OBVIOUS
<1>1. Exact(Table, built)
  BY DEF Init, Exact, Table, Shared
<1> QED
  BY <1>1, RouterAssumption DEF Init, Inductive

\* One profile of one device: the three tags are new owners.
LEMMA RefreshProfileInductive == Inductive /\ RefreshProfile => Inductive'
<1> SUFFICES ASSUME Inductive, RefreshProfile PROVE Inductive'
  OBVIOUS
<1> DEFINE k == udp.key
           p == ProfileOrder[udp.turn]
           e == current_epoch(p)
           new == {At(k, p, Previous(e)), At(k, p, e), At(k, p, e + 1)}
<1>1. udp.at = "device" /\ udp.turn \in 1..4 /\ now \in Nat /\ StartTime <= now
  BY DEF Inductive, RefreshProfile
<1>2. p \in Profile
  BY <1>1 DEF ProfileOrder, Profile, MorphProfile
<1>3. e \in Nat /\ e >= 1
  <2>1. EpochSeconds[p] \in Nat \ {0} /\ EpochSeconds[p] <= now
    BY <1>1, <1>2, RouterAssumption
  <2> HIDE DEF p
  <2> QED
    BY <2>1, <1>1, EpochPositive DEF current_epoch
<1>4. Previous(e) = e - 1
  <2> HIDE DEF e
  <2> QED
    BY <1>3 DEF Previous
<1>5. built' = built \cup new
  BY DEF RefreshProfile, accepted_epochs
<1>6. \A o \in new : o \notin built
  <2> SUFFICES ASSUME NEW o \in new, o \in built PROVE FALSE
    OBVIOUS
  <2>1. o.key = udp.key /\ o.profile = ProfileOrder[udp.turn]
    BY DEF At
  <2>2. udp.turn \in udp.turn..4
    BY <1>1
  <2> QED
    BY <2>1, <2>2, <1>1 DEF Inductive
<1>7. Exact(AllEntered(k, p, e), built \cup new)
  <2> HIDE DEF e, p, k
  <2>1. /\ At(k, p, e - 1) # At(k, p, e)
        /\ At(k, p, e - 1) # At(k, p, e + 1)
        /\ At(k, p, e) # At(k, p, e + 1)
    BY <1>3 DEF At
  <2>2. Exact(Table, built)
    BY DEF Inductive
  <2>3. Exact(Entered(Entered(Entered(Table, At(k, p, e)), At(k, p, e - 1)), At(k, p, e + 1)),
              built \cup {At(k, p, e), At(k, p, e - 1), At(k, p, e + 1)})
    BY <2>1, <2>2, <1>4, <1>6, ThreeEnteredExact
  <2>4. Exact(Entered(Entered(Entered(Table, At(k, p, e - 1)), At(k, p, e)), At(k, p, e + 1)),
              built \cup {At(k, p, e - 1), At(k, p, e), At(k, p, e + 1)})
    BY <2>1, <2>2, <1>4, <1>6, ThreeEnteredExact
  <2>5. {At(k, p, e), At(k, p, e - 1), At(k, p, e + 1)} = new
    BY <1>4
  <2> QED
    BY <2>3, <2>4, <2>5, <1>4 DEF AllEntered
<1>8. Exact(Table', built')
  <2>1. /\ Table'.routes = AllEntered(k, p, e).routes
        /\ Table'.ambiguous = AllEntered(k, p, e).ambiguous
    BY DEF RefreshProfile, Table
  <2> QED
    BY <2>1, <1>5, <1>7 DEF Exact
<1>9. \A o \in built' : o.key \notin udp.todo
  BY <1>1, <1>5, SMTT(60) DEF Inductive, At
<1>10. CASE udp.turn < 4
  <2>1. udp' = [udp EXCEPT !.turn = @ + 1]
    BY <1>10 DEF RefreshProfile
  <2>2. udp' = [at |-> "device", arrived |-> udp.arrived, epoch |-> udp.epoch,
                todo |-> udp.todo, key |-> udp.key, turn |-> udp.turn + 1]
    BY <2>1, <1>1 DEF Inductive
  <2>3. \A o \in built' : o.key = udp.key => \A i \in (udp.turn + 1)..4 : o.profile # ProfileOrder[i]
    <3> SUFFICES ASSUME NEW o \in built', o.key = udp.key, NEW i \in (udp.turn + 1)..4
                 PROVE  o.profile # ProfileOrder[i]
      OBVIOUS
    <3>1. CASE o \in built
      BY <3>1, <1>1 DEF Inductive
    <3>2. CASE o \in new
      <4>1. o.profile = ProfileOrder[udp.turn]
        BY <3>2 DEF At
      <4>2. ProfileOrder[i] # ProfileOrder[udp.turn]
        BY <1>1, <1>10 DEF ProfileOrder
      <4> QED
        BY <4>1, <4>2
    <3> QED
      BY <3>1, <3>2, <1>5
  <2>4. now' = now
    BY DEF RefreshProfile
  <2>5. udp.key \notin udp.todo
    BY <1>1 DEF Inductive
  <2> QED
    BY <2>2, <2>3, <2>4, <2>5, <1>1, <1>8, <1>9, <1>10, SMTT(60) DEF Inductive
<1>11. CASE ~(udp.turn < 4)
  <2>1. udp' = [at |-> "refresh", arrived |-> udp.arrived, epoch |-> udp.epoch,
                todo |-> udp.todo]
    BY <1>11 DEF RefreshProfile
  <2>2. now' = now
    BY DEF RefreshProfile
  <2> QED
    BY <2>1, <2>2, <1>1, <1>8, <1>9 DEF Inductive
<1> QED
  BY <1>10, <1>11

LEMMA NextInductive == Inductive /\ [Next]_vars => Inductive'
<1> SUFFICES ASSUME Inductive, [Next]_vars PROVE Inductive'
  OBVIOUS
<1> USE DEF registry, router
<1>0. ASSUME UNCHANGED <<routes, ambiguous, built>> PROVE Exact(Table, built)'
  BY <1>0 DEF Inductive, Exact, Table, Shared
<1>1. CASE Tick
  <2>1. now' \in Nat /\ StartTime <= now'
    BY <1>1, RouterAssumption, SMTT(60) DEF Tick, Inductive
  <2>2. Exact(Table, built)'
    BY <1>1, <1>0 DEF Tick
  <2>3. udp' = udp \/ udp' = [at |-> "receive"]
    BY <1>1 DEF Tick
  <2> QED
    BY <1>1, <2>1, <2>2, <2>3 DEF Tick, Inductive
<1>2. ASSUME NEW k \in PublicKey, provision(k) \/ revoke(k) PROVE Inductive'
  BY <1>2, <1>0 DEF provision, revoke, Inductive
<1>3. CASE Receive
  BY <1>3, <1>0 DEF Receive, Inductive
<1>4. CASE Resolve
  <2>1. udp.at = "resolve" /\ udp = [at |-> "resolve", arrived |-> udp.arrived]
    BY <1>4 DEF Resolve, Inductive
  <2>2. CASE ResolveCurrent
    <3>1. udp' = [udp EXCEPT !.at = "lookup"] /\ UNCHANGED router
      BY <1>4, <2>2 DEF Resolve
    <3>2. udp'.at = "lookup"
      BY <2>1, <3>1
    <3> QED
      BY <3>1, <3>2, <1>4, <1>0 DEF Resolve, Inductive
  <2>3. CASE ~ResolveCurrent
    <3>1. /\ udp' = [at |-> "refresh", arrived |-> udp.arrived,
                     epoch |-> current_epoch("Paranoid"), todo |-> devices]
          /\ routes' = {} /\ ambiguous' = {} /\ built' = {} /\ now' = now
      BY <1>4, <2>3 DEF Resolve
    <3>2. Exact(Table, built)'
      BY <3>1 DEF Exact, Table, Shared
    <3> QED
      BY <3>1, <3>2 DEF Inductive
  <2> QED
    BY <2>2, <2>3
<1>5. ASSUME NEW k \in PublicKey, RefreshDevice(k) PROVE Inductive'
  <2>1. /\ udp.at = "refresh" /\ k \in udp.todo
        /\ udp = [at |-> "refresh", arrived |-> udp.arrived, epoch |-> udp.epoch,
                  todo |-> udp.todo]
        /\ \A o \in built : o.key \notin udp.todo
        /\ UNCHANGED <<now, routes, ambiguous, built>>
    BY <1>5 DEF RefreshDevice, Inductive
  <2>2. Exact(Table, built)'
    BY <2>1, <1>0
  <2>3. CASE k \in WeakKey
    <3>1. udp' = [at |-> "refresh", arrived |-> udp.arrived, epoch |-> udp.epoch,
                  todo |-> udp.todo \ {k}]
      BY <1>5, <2>1, <2>3 DEF RefreshDevice
    <3> QED
      BY <3>1, <2>1, <2>2 DEF Inductive
  <2>4. CASE k \notin WeakKey
    <3>1. udp' = [at |-> "device", arrived |-> udp.arrived, epoch |-> udp.epoch,
                  todo |-> udp.todo \ {k}, key |-> k, turn |-> 1]
      BY <1>5, <2>4 DEF RefreshDevice
    <3> QED
      BY <3>1, <2>1, <2>2, SMTT(60) DEF Inductive
  <2> QED
    BY <2>3, <2>4
<1>6. CASE RefreshProfile
  BY <1>6, RefreshProfileInductive
<1>7. CASE Refreshed
  BY <1>7, <1>0 DEF Refreshed, Inductive
<1>8. ASSUME NEW f \in Frame, Lookup(f) PROVE Inductive'
  <2>1. udp'.at \in {"decode", "done"}
    BY <1>8, SMTT(60) DEF Lookup, Done
  <2> QED
    BY <1>8, <2>1, <1>0 DEF Lookup, Inductive
<1>9. CASE Decode
  <2>1. udp'.at = "done"
    BY <1>9 DEF Decode, Done
  <2> QED
    BY <1>9, <2>1, <1>0 DEF Decode, Inductive
<1>10. CASE UNCHANGED vars
  BY <1>10, <1>0 DEF vars, Inductive
<1> QED
  BY <1>1, <1>2, <1>3, <1>4, <1>5, <1>6, <1>7, <1>8, <1>9, <1>10 DEF Next

\* The tables of MorphRouter are exact whenever refresh fills them and whenever a
\* datagram's tag is looked up, in every execution.
THEOREM TablesAlwaysExact == Spec => []TablesExact
<1>1. Inductive => TablesExact
  BY DEF Inductive, TablesExact
<1> QED
  BY <1>1, InitInductive, NextInductive, PTL DEF Spec
===============================================================================
