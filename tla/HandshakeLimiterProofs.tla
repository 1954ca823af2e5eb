------------------------ MODULE HandshakeLimiterProofs ------------------------
(***************************************************************************)
(* The limiter keeps its limits and every open counter, for any sources,   *)
(* window, limits and interval of the cleanup.                             *)
(***************************************************************************)
EXTENDS HandshakeLimiter, FiniteSetTheorems, TLAPS

\* A counter that is in the table has counted from zero.
Entry == [started : Time, attempts : 0..MaxAttempts]

IInv == TypeOK /\ clients \in [Source -> Entry \cup {Absent}]

\* While its window is open the counter of a source survives the retain, and
\* allow_at goes on with it.
LEMMA OpenCounterUsed ==
    ASSUME NEW s \in Source, clients[s] # Absent, ~Expired(clients[s])
    PROVE  Retained[s] = clients[s] /\ Current(s) = clients[s]
<1>1. Retained[s] = clients[s]
  BY DEF Retained
<1> QED
  BY <1>1 DEF Current

\* What the retain of allow_at leaves, and the counter it goes on with.
LEMMA CountersTyped ==
    ASSUME LimiterAssumption, IInv
    PROVE  /\ Retained \in [Source -> Entry \cup {Absent}]
           /\ \A s \in Source : Current(s) \in Entry
           /\ Present(Retained) \subseteq Present(clients)
<1>1. clients \in [Source -> Entry \cup {Absent}] /\ now \in Time /\ MaxAttempts \in Nat
  BY DEF LimiterAssumption, IInv, TypeOK
<1>2. Retained \in [Source -> Entry \cup {Absent}]
  BY <1>1 DEF Retained
<1>3. Present(Retained) \subseteq Present(clients)
  BY DEF Retained, Present
<1>4. ASSUME NEW s \in Source PROVE Current(s) \in Entry
  <2>1. [started |-> now, attempts |-> 0] \in Entry
    BY <1>1 DEF Entry
  <2> QED
    BY <1>2, <2>1 DEF Current
<1> QED
  BY <1>2, <1>3, <1>4

\* allow_at puts one counter into a table that has room for it.
LEMMA RoomForOne ==
    ASSUME LimiterAssumption, IInv, NEW s \in Source, ~RefusesNewcomer(s), NEW c \in Entry,
           clients' = [Retained EXCEPT ![s] = c]
    PROVE  clients' \in [Source -> Entry \cup {Absent}] /\ Cardinality(Present(clients')) <= MaxClients
<1> DEFINE before == Present(Retained)
           after == Present(clients')
<1>1. clients' \in [Source -> Entry \cup {Absent}]
  BY CountersTyped
<1>2. after \subseteq before \cup {s}
  BY CountersTyped DEF Present
<1>3. IsFiniteSet(Source) /\ before \subseteq Source /\ Present(clients) \subseteq Source
  BY DEF LimiterAssumption, Present
<1>4. /\ IsFiniteSet(before) /\ IsFiniteSet(Present(clients)) /\ IsFiniteSet(before \cup {s})
      /\ Cardinality(before) \in Nat /\ Cardinality(Present(clients)) \in Nat
  BY <1>3, FS_Subset, FS_AddElement, FS_CardinalityType
<1>5. Cardinality(before) <= Cardinality(Present(clients)) /\ Cardinality(Present(clients)) <= MaxClients
  BY <1>4, CountersTyped, FS_Subset DEF IInv, TypeOK
<1>6. MaxClients \in Nat
  BY DEF LimiterAssumption
<1>7. Cardinality(before \cup {s}) <= MaxClients
  <2> HIDE DEF before
  <2>1. CASE s \in before
    <3>1. before \cup {s} = before
      BY <2>1
    <3> QED
      BY <1>4, <1>5, <1>6, <3>1
  <2>2. CASE s \notin before
    <3>1. Cardinality(before) < MaxClients
      BY <2>2, <1>4, <1>6 DEF RefusesNewcomer, Present, before
    <3>2. Cardinality(before \cup {s}) = Cardinality(before) + 1
      BY <2>2, <1>4, FS_AddElement
    <3> QED
      BY <3>1, <3>2, <1>4, <1>6
  <2> QED
    BY <2>1, <2>2
<1>8. Cardinality(after) <= Cardinality(before \cup {s}) /\ Cardinality(after) \in Nat
      /\ Cardinality(before \cup {s}) \in Nat
  BY <1>2, <1>4, FS_Subset, FS_CardinalityType, Zenon
<1> HIDE DEF after, before
<1>9. Cardinality(after) <= MaxClients
  BY <1>6, <1>7, <1>8
<1> QED
  BY <1>1, <1>9 DEF after

-------------------------------------------------------------------------------

LEMMA LimiterInit == ASSUME LimiterAssumption PROVE Init => IInv
<1> SUFFICES ASSUME Init PROVE IInv
  OBVIOUS
<1>1. /\ MaxAttempts \in Nat /\ MaxTime \in Nat /\ MaxClients \in Nat
      /\ CleanupInterval \in Nat /\ CleanupInterval # 0
  BY DEF LimiterAssumption
<1>2. Absent \in Counter /\ 0 \in Time
  BY <1>1 DEF Absent, Counter, Time
<1>3. clients \in [Source -> Counter] /\ clients \in [Source -> Entry \cup {Absent}]
  BY <1>2 DEF Init
<1>4. Present(clients) = {}
  BY DEF Init, Present
<1>5. Cardinality(Present(clients)) <= MaxClients
  BY <1>1, <1>4, FS_EmptySet
<1>6. granted \in [Source -> [Time -> Nat]]
  BY DEF Init
<1> QED
  BY <1>1, <1>2, <1>3, <1>5, <1>6 DEF Init, IInv, TypeOK

\* What every call of allow_at does besides the table.
LEMMA CountedTyped ==
    ASSUME LimiterAssumption, TypeOK, Counted
    PROVE  /\ operations' \in 0..(CleanupInterval - 1)
           /\ last_cleanup' \in Time \cup {Never} /\ now' \in Time
<1>1. CleanupInterval \in Nat \ {0} /\ operations \in Nat
  BY DEF LimiterAssumption, TypeOK
<1>2. (operations + 1) % CleanupInterval \in 0..(CleanupInterval - 1)
  BY <1>1, Z3
<1> QED
  BY <1>2 DEF Counted, TypeOK

LEMMA LimiterStep == ASSUME LimiterAssumption, IInv, [Next]_vars PROVE IInv'
<1> USE DEF IInv
<1>1. CASE UNCHANGED vars
  BY <1>1 DEF vars, TypeOK, Present
<1>2. CASE Tick
  <2>1. now' \in Time
    BY <1>2 DEF Tick, TypeOK, Time, LimiterAssumption
  <2>2. Present(clients') = Present(clients)
    BY <1>2 DEF Tick, Present
  <2> QED
    BY <1>2, <2>1, <2>2 DEF Tick, TypeOK
<1>3. Entry \cup {Absent} \subseteq Counter
  BY DEF Entry, Absent, Counter, Time, LimiterAssumption
<1>4. ASSUME NEW s \in Source, AllowRefusesNewcomer(s) PROVE IInv'
  <2>1. clients' = Retained /\ granted' = granted
    BY <1>4 DEF AllowRefusesNewcomer
  <2>2. clients' \in [Source -> Entry \cup {Absent}] /\ Present(clients') \subseteq Present(clients)
    BY <2>1, CountersTyped
  <2>3. IsFiniteSet(Present(clients)) /\ Present(clients) \subseteq Source
    BY FS_Subset DEF LimiterAssumption, Present
  <2>4. /\ Cardinality(Present(clients')) <= Cardinality(Present(clients))
        /\ Cardinality(Present(clients')) \in Nat /\ Cardinality(Present(clients)) \in Nat
    BY <2>2, <2>3, FS_Subset, FS_CardinalityType
  <2>5. Cardinality(Present(clients')) <= MaxClients
    BY <2>4 DEF TypeOK, LimiterAssumption
  <2>6. clients' \in [Source -> Counter]
    BY <2>2, <1>3
  <2> QED
    BY <1>4, <2>1, <2>2, <2>5, <2>6, CountedTyped DEF AllowRefusesNewcomer, TypeOK
<1>5. ASSUME NEW s \in Source, NEW c \in Entry, Counted, ~RefusesNewcomer(s),
             clients' = [Retained EXCEPT ![s] = c], granted' \in [Source -> [Time -> Nat]]
      PROVE  IInv'
  <2>1. clients' \in [Source -> Entry \cup {Absent}] /\ Cardinality(Present(clients')) <= MaxClients
    BY <1>5, RoomForOne, Zenon
  <2>2. clients' \in [Source -> Counter]
    BY <2>1, <1>3
  <2> QED
    BY <1>5, <2>1, <2>2, CountedTyped DEF TypeOK
<1>6. ASSUME NEW s \in Source, AllowLimits(s) PROVE IInv'
  <2>1. Current(s) \in Entry
    BY CountersTyped
  <2> QED
    BY <1>5, <1>6, <2>1, Zenon DEF AllowLimits, TypeOK
<1>7. ASSUME NEW s \in Source, AllowGrants(s) PROVE IInv'
  <2> DEFINE c == [Current(s) EXCEPT !.attempts = @ + 1]
  <2>1. Current(s) \in Entry /\ Current(s).attempts < MaxAttempts
    BY <1>7, CountersTyped DEF AllowGrants
  <2>2. c \in Entry
    BY <2>1 DEF Entry, LimiterAssumption
  <2>3. granted' \in [Source -> [Time -> Nat]]
    BY <1>7 DEF AllowGrants, TypeOK
  <2> QED
    BY <1>5, <1>7, <2>2, <2>3, Zenon DEF AllowGrants
<1> QED
  BY <1>1, <1>2, <1>4, <1>6, <1>7 DEF Next

\* No count passes maximum_attempts and no table maximum_clients, however many
\* sources call and whenever the cleanup runs.
THEOREM LimitsHeld == ASSUME LimiterAssumption PROVE Spec => []TypeOK
<1>1. Init => IInv
  BY LimiterInit
<1>2. IInv /\ [Next]_vars => IInv'
  BY LimiterStep
<1>3. IInv => TypeOK
  BY DEF IInv
<1> QED
  BY <1>1, <1>2, <1>3, PTL DEF Spec

\* "Never evict a live counter": no call of allow_at, of this source or another,
\* removes or restarts a counter whose window is open.
THEOREM LiveAlwaysKept == ASSUME LimiterAssumption PROVE Spec => LiveCounterKept
<1>1. ASSUME IInv, Next, NEW s \in Source,
             clients[s] # Absent, now' - clients[s].started < Window
      PROVE  /\ clients'[s].started = clients[s].started
             /\ clients'[s].attempts >= clients[s].attempts
  <2>1. clients[s] \in Entry /\ clients[s].attempts \in Int
    BY <1>1 DEF IInv, Entry
  <2>2. CASE Tick
    BY <2>1, <2>2 DEF Tick
  <2>3. ASSUME NEW r \in Source, AllowRefusesNewcomer(r) \/ AllowLimits(r) \/ AllowGrants(r)
        PROVE  /\ clients'[s].started = clients[s].started
               /\ clients'[s].attempts >= clients[s].attempts
    <3>1. now' = now
      BY <2>3 DEF AllowRefusesNewcomer, AllowLimits, AllowGrants, Counted
    <3>2. ~Expired(clients[s])
      BY <1>1, <2>1, <3>1 DEF Expired, Entry, Time, IInv, TypeOK, LimiterAssumption
    <3>3. Retained[s] = clients[s] /\ Current(s) = clients[s]
      BY <1>1, <3>2, OpenCounterUsed
    <3>4. Retained \in [Source -> Entry \cup {Absent}]
      BY <1>1, CountersTyped
    <3>5. CASE AllowRefusesNewcomer(r)
      BY <2>1, <3>3, <3>5 DEF AllowRefusesNewcomer
    <3>6. CASE AllowLimits(r)
      BY <2>1, <3>3, <3>4, <3>6 DEF AllowLimits
    <3>7. CASE AllowGrants(r)
      <4>1. clients' = [Retained EXCEPT ![r] = [Current(r) EXCEPT !.attempts = @ + 1]]
        BY <3>7 DEF AllowGrants
      <4>2. CASE r = s
        BY <2>1, <3>3, <3>4, <4>1, <4>2 DEF Entry
      <4>3. CASE r # s
        BY <2>1, <3>3, <3>4, <4>1, <4>3
      <4> QED
        BY <4>2, <4>3
    <3> QED
      BY <2>3, <3>5, <3>6, <3>7
  <2> QED
    BY <1>1, <2>2, <2>3 DEF Next
<1>2. IInv /\ [Next]_vars =>
        [\A s \in Source :
            clients[s] # Absent /\ now' - clients[s].started < Window
                => /\ clients'[s].started = clients[s].started
                   /\ clients'[s].attempts >= clients[s].attempts]_vars
  BY <1>1
<1>3. Init => IInv
  BY LimiterInit
<1>4. IInv /\ [Next]_vars => IInv'
  BY LimiterStep
<1> QED
  BY <1>2, <1>3, <1>4, PTL DEF Spec, LiveCounterKept
===============================================================================
