------------------------- MODULE DeviceRegistryProofs -------------------------
(***************************************************************************)
(* The device registry is durable for any keys, addresses, seeds and       *)
(* number of starts: whatever call a crash interrupts, the file can be     *)
(* opened, a revoked key stays revoked and a provisioned one authorized.   *)
(***************************************************************************)
EXTENDS DeviceRegistry, WellFoundedInduction, TLAPS

\* The values of the fields, and that every key in use was issued.
Fields ==
    /\ disk \in Devices /\ devices \in Devices /\ leases \in Devices
    /\ active \subseteq PublicKey /\ issued \subseteq PublicKey
    /\ Keys(Seeds) \subseteq issued /\ Keys(disk) \subseteq issued /\ Keys(devices) \subseteq issued
    /\ provisioned \subseteq issued /\ revoking \subseteq issued /\ revoked \subseteq revoking

\* Before the first start nothing has happened; a daemon that runs has a file,
\* and one that does not run has nothing in memory.
Phases ==
    /\ ~stored => provisioned = {} /\ revoking = {} /\ revoked = {}
    /\ up => stored
    /\ ~up => admin = Unlocked /\ leases = NoDevices /\ active = {}

\* The call that holds the lock changes one record.
Pending ==
    admin # Unlocked =>
      /\ admin.op \in {"provision", "revoke"}
      /\ admin.key \in PublicKey /\ admin.key \in issued
      /\ admin.next \in Devices
      /\ \A j \in PublicKey : j # admin.key => admin.next[j] = devices[j]
      /\ admin.op = "provision" => admin.next[admin.key] # NoAddress /\ admin.key \notin revoking
      /\ admin.op = "revoke" => admin.next[admin.key] = NoAddress /\ admin.key \in revoking

IInv == Fields /\ Phases /\ Pending /\ ViewsAgree /\ Restartable /\ RevokedForGood /\ ProvisionedKept

\* next_address of provision returns an address of the subnet that no record
\* has: a set of addresses that is not empty has a lowest one.
LEMMA NextAddressFree ==
    ASSUME NEW ds \in Devices, next_address(ds) # NoAddress
    PROVE  /\ next_address(ds) \in Address
           /\ \A k \in PublicKey : ds[k] # next_address(ds)
<1> DEFINE free == {a \in Address : \A k \in PublicKey : ds[k] # a}
           R == OpToRel(<, Nat)
<1>1. free # {} /\ free \subseteq Nat
  BY RegistryAssumption, Zenon DEF next_address
<1>2. \E a \in free : \A b \in free : ~(<<b, a>> \in R)
  <2> HIDE DEF free, R
  <2>1. IsWellFoundedOn(R, Nat)
    BY NatLessThanWellFounded, Zenon DEF R
  <2> QED
    BY <1>1, <2>1, WFMin, Zenon
<1>3. \A a, b \in Nat : ~(<<b, a>> \in R) => a <= b
  BY DEF OpToRel
<1>4. \E a \in free : \A b \in free : a <= b
  BY <1>1, <1>2, <1>3, Zenon
<1>5. next_address(ds) = CHOOSE a \in free : \A b \in free : a <= b
  BY <1>1 DEF next_address
<1>6. next_address(ds) \in free
  BY <1>4, <1>5
<1> QED
  BY <1>6

\* The registry starts as the invariant says.
LEMMA InitDurable == RegistryInit => IInv
BY RegistryAssumption DEF RegistryInit, IInv, Fields, Phases, Pending, ViewsAgree, Restartable,
     RevokedForGood, ProvisionedKept, Devices, NoDevices, Keys, Unlocked

\* open takes the file, or the seeds when there is none.
LEMMA OpenKeeps == ASSUME IInv, open PROVE IInv'
<1> DEFINE ds == IF stored THEN disk ELSE Seeds
<1>1. /\ ~up /\ validate_devices(ds)
      /\ devices' = ds /\ leases' = ds /\ active' = Keys(ds) /\ disk' = ds
      /\ stored' = TRUE /\ up' = TRUE
      /\ UNCHANGED <<admin, issued, provisioned, revoking, revoked>>
  BY DEF open
<1>2. ds \in Devices /\ Keys(ds) \subseteq issued
  BY RegistryAssumption DEF IInv, Fields, Devices
<1>3. Fields'
  BY <1>1, <1>2 DEF IInv, Fields, Keys
<1>4. Phases' /\ Pending' /\ ViewsAgree'
  BY <1>1 DEF IInv, Phases, Pending, ViewsAgree, Keys
<1>5. Restartable'
  BY <1>1 DEF Restartable, validate_devices, Keys
<1>6. RevokedForGood' /\ ProvisionedKept'
  <2>1. CASE stored
    BY <1>1, <2>1 DEF IInv, Fields, RevokedForGood, ProvisionedKept, Keys
  <2>2. CASE ~stored
    BY <1>1, <2>2 DEF IInv, Phases, RevokedForGood, ProvisionedKept
  <2> QED
    BY <2>1, <2>2
<1> QED
  BY <1>3, <1>4, <1>5, <1>6 DEF IInv

\* A crash takes the memory and leaves the file.
LEMMA CrashKeeps == ASSUME IInv, Crash PROVE IInv'
<1>1. Fields'
  BY RegistryAssumption DEF Crash, IInv, Fields, Devices, NoDevices, Keys
<1>2. Phases' /\ Pending' /\ ViewsAgree'
  BY DEF Crash, IInv, Phases, Pending, ViewsAgree
<1>3. Restartable'
  BY DEF Crash, IInv, Restartable, validate_devices, Keys
<1>4. RevokedForGood' /\ ProvisionedKept'
  BY DEF Crash, IInv, Fields, RevokedForGood, ProvisionedKept, NoDevices
<1> QED
  BY <1>1, <1>2, <1>3, <1>4 DEF IInv

\* provision has written a file with one more record.
LEMMA ProvisionPersistedKeeps ==
    ASSUME NEW k \in PublicKey, IInv, ProvisionPersisted(k) PROVE IInv'
<1> DEFINE next == [devices EXCEPT ![k] = next_address(devices)]
<1>1. /\ up /\ admin = Unlocked /\ k \notin issued
      /\ next_address(devices) # NoAddress
      /\ disk' = next /\ admin' = [op |-> "provision", key |-> k, next |-> next]
      /\ issued' = issued \cup {k}
      /\ UNCHANGED <<stored, up, devices, leases, active, provisioned, revoking, revoked>>
  BY DEF ProvisionPersisted
<1>2. devices \in Devices /\ disk = devices /\ leases = devices /\ active = Keys(devices)
  BY <1>1 DEF IInv, Fields, ViewsAgree
<1>3. /\ next_address(devices) \in Address
      /\ \A j \in PublicKey : devices[j] # next_address(devices)
  BY <1>1, <1>2, NextAddressFree
<1>4. /\ next \in Devices /\ next[k] = next_address(devices)
      /\ \A j \in PublicKey : j # k => next[j] = devices[j]
  BY <1>2, <1>3 DEF Devices
<1>5. Keys(next) = Keys(devices) \cup {k}
  BY <1>1, <1>4 DEF Keys
<1> HIDE DEF next
<1>6. Fields'
  BY <1>1, <1>4, <1>5 DEF IInv, Fields, Keys
<1>7. Phases' /\ Pending' /\ ViewsAgree'
  BY <1>1, <1>2, <1>4 DEF IInv, Fields, Phases, Pending, ViewsAgree, Unlocked, Keys
<1>8. Restartable'
  <2>1. validate_devices(devices)
    BY <1>1, <1>2 DEF IInv, Phases, Restartable
  <2>2. validate_devices(next)
    BY <2>1, <1>3, <1>4, <1>5 DEF validate_devices, Keys
  <2> QED
    BY <2>2, <1>1 DEF Restartable, validate_devices, Keys
<1>9. RevokedForGood' /\ ProvisionedKept'
  BY <1>1, <1>2, <1>4 DEF IInv, Fields, RevokedForGood, ProvisionedKept
<1> QED
  BY <1>6, <1>7, <1>8, <1>9 DEF IInv

\* A provision that fails has used up a key.
LEMMA ProvisionFailedKeeps ==
    ASSUME NEW k \in PublicKey, IInv, ProvisionFailed(k) PROVE IInv'
<1>1. Fields'
  BY DEF ProvisionFailed, IInv, Fields, Keys
<1>2. Phases' /\ Pending' /\ ViewsAgree' /\ Restartable' /\ RevokedForGood' /\ ProvisionedKept'
  BY SMTT(60) DEF ProvisionFailed, IInv, Phases, Pending, ViewsAgree, Restartable, validate_devices, Keys,
         RevokedForGood, ProvisionedKept
<1> QED
  BY <1>1, <1>2 DEF IInv

\* provision returns: the memory follows the file.
LEMMA ProvisionReturnedKeeps == ASSUME IInv, ProvisionReturned PROVE IInv'
<1> DEFINE k == admin.key
<1>1. /\ admin.op = "provision"
      /\ devices' = admin.next /\ leases' = [leases EXCEPT ![k] = admin.next[k]]
      /\ active' = active \cup {k} /\ provisioned' = provisioned \cup {k}
      /\ admin' = Unlocked
      /\ UNCHANGED <<stored, disk, up, issued, revoking, revoked>>
  BY DEF ProvisionReturned
<1>2. admin # Unlocked
  BY <1>1 DEF Unlocked
<1>3. /\ up /\ stored /\ devices \in Devices
      /\ leases = devices /\ active = Keys(devices) /\ disk = admin.next
  BY <1>2 DEF IInv, Fields, Phases, ViewsAgree
<1>4. /\ k \in PublicKey /\ k \in issued /\ k \notin revoking /\ admin.next \in Devices
      /\ admin.next[k] # NoAddress
      /\ \A j \in PublicKey : j # k => admin.next[j] = devices[j]
  BY <1>1, <1>2 DEF IInv, Pending
<1>5. leases' = admin.next /\ Keys(admin.next) = Keys(devices) \cup {k}
  <2> HIDE DEF k
  <2>1. leases' = [devices EXCEPT ![k] = admin.next[k]]
    BY <1>1, <1>3 DEF k
  <2>2. leases' = admin.next
    BY <2>1, <1>3, <1>4, Zenon DEF Devices
  <2>3. Keys(admin.next) = Keys(devices) \cup {k}
    BY <1>4 DEF Keys
  <2> QED
    BY <2>2, <2>3
<1>6. Fields'
  BY <1>1, <1>3, <1>4, <1>5, Zenon DEF IInv, Fields, Keys
<1>7. Phases' /\ Pending' /\ ViewsAgree'
  BY <1>1, <1>3, <1>5, Zenon DEF IInv, Phases, Pending, ViewsAgree, Keys
<1>8. Restartable'
  BY <1>1 DEF IInv, Restartable, validate_devices, Keys
<1>9. RevokedForGood' /\ ProvisionedKept'
  BY <1>1, <1>3, <1>4, <1>5 DEF IInv, Fields, RevokedForGood, ProvisionedKept, Keys
<1> QED
  BY <1>6, <1>7, <1>8, <1>9 DEF IInv

\* revoke has written a file with one record less, and not the last.
LEMMA RevokePersistedKeeps ==
    ASSUME NEW k \in PublicKey, IInv, RevokePersisted(k) PROVE IInv'
<1> DEFINE next == [devices EXCEPT ![k] = NoAddress]
<1>1. /\ up /\ admin = Unlocked /\ k \in Keys(devices) /\ Keys(next) # {}
      /\ disk' = next /\ admin' = [op |-> "revoke", key |-> k, next |-> next]
      /\ revoking' = revoking \cup {k}
      /\ UNCHANGED <<stored, up, devices, leases, active, issued, provisioned, revoked>>
  BY Zenon DEF RevokePersisted
<1>2. devices \in Devices /\ disk = devices /\ leases = devices /\ active = Keys(devices)
  BY <1>1 DEF IInv, Fields, ViewsAgree
<1>3. /\ next \in Devices /\ next[k] = NoAddress
      /\ \A j \in PublicKey : j # k => next[j] = devices[j]
  BY <1>2 DEF Devices
<1>4. Keys(next) = Keys(devices) \ {k}
  BY <1>3 DEF Keys
<1> HIDE DEF next
<1>5. Fields'
  BY <1>1, <1>3, <1>4 DEF IInv, Fields, Keys
<1>6. Phases' /\ Pending' /\ ViewsAgree'
  BY <1>1, <1>2, <1>3 DEF IInv, Fields, Phases, Pending, ViewsAgree, Unlocked, Keys
<1>7. Restartable'
  <2>1. validate_devices(devices)
    BY <1>1, <1>2 DEF IInv, Phases, Restartable
  <2>2. validate_devices(next)
    BY <2>1, <1>1, <1>3, <1>4 DEF validate_devices, Keys
  <2> QED
    BY <2>2, <1>1 DEF Restartable, validate_devices, Keys
<1>8. RevokedForGood' /\ ProvisionedKept'
  BY <1>1, <1>2, <1>3 DEF IInv, Fields, RevokedForGood, ProvisionedKept
<1> QED
  BY <1>5, <1>6, <1>7, <1>8 DEF IInv

\* revoke returns: the memory follows the file and the token is off.
LEMMA RevokeReturnedKeeps == ASSUME IInv, RevokeReturned PROVE IInv'
<1> DEFINE k == admin.key
<1>1. /\ admin.op = "revoke"
      /\ devices' = admin.next /\ leases' = [leases EXCEPT ![k] = NoAddress]
      /\ active' = active \ {k} /\ revoked' = revoked \cup {k}
      /\ admin' = Unlocked
      /\ UNCHANGED <<stored, disk, up, issued, provisioned, revoking>>
  BY DEF RevokeReturned
<1>2. admin # Unlocked
  BY <1>1 DEF Unlocked
<1>3. /\ up /\ stored /\ devices \in Devices
      /\ leases = devices /\ active = Keys(devices) /\ disk = admin.next
  BY <1>2 DEF IInv, Fields, Phases, ViewsAgree
<1>4. /\ k \in PublicKey /\ k \in revoking /\ admin.next \in Devices
      /\ admin.next[k] = NoAddress
      /\ \A j \in PublicKey : j # k => admin.next[j] = devices[j]
  BY <1>1, <1>2 DEF IInv, Pending
<1>5. leases' = admin.next /\ Keys(admin.next) = Keys(devices) \ {k}
  <2> HIDE DEF k
  <2>1. leases' = [devices EXCEPT ![k] = NoAddress]
    BY <1>1, <1>3 DEF k
  <2>2. leases' = admin.next
    BY <2>1, <1>3, <1>4, Zenon DEF Devices
  <2>3. Keys(admin.next) = Keys(devices) \ {k}
    BY <1>4 DEF Keys
  <2> QED
    BY <2>2, <2>3
<1>6. Fields'
  BY <1>1, <1>3, <1>4, <1>5, Zenon DEF IInv, Fields, Keys
<1>7. Phases' /\ Pending' /\ ViewsAgree'
  BY <1>1, <1>3, <1>5, Zenon DEF IInv, Phases, Pending, ViewsAgree, Keys
<1>8. Restartable'
  BY <1>1 DEF IInv, Restartable, validate_devices, Keys
<1>9. RevokedForGood' /\ ProvisionedKept'
  BY <1>1, <1>3, <1>4, <1>5, Zenon DEF IInv, Fields, RevokedForGood, ProvisionedKept, Keys
<1> QED
  BY <1>6, <1>7, <1>8, <1>9 DEF IInv

\* IInv is inductive: every call of the registry, a start and a crash keep it.
LEMMA StepDurable == IInv /\ [RegistryNext]_registryVars => IInv'
<1> SUFFICES ASSUME IInv, [RegistryNext]_registryVars PROVE IInv'
  OBVIOUS
<1>1. CASE UNCHANGED registryVars
  BY <1>1, SMTT(60) DEF registryVars, IInv, Fields, Phases, Pending, ViewsAgree, Restartable, validate_devices,
              Keys, RevokedForGood, ProvisionedKept
<1>2. CASE RegistryNext
  BY <1>2, OpenKeeps, CrashKeeps, ProvisionPersistedKeeps, ProvisionFailedKeeps,
     ProvisionReturnedKeeps, RevokePersistedKeeps, RevokeReturnedKeeps DEF RegistryNext, AdminNext
<1> QED
  BY <1>1, <1>2

\* The types are kept as well.
LEMMA RegistryTypes == IInv /\ RegistryTypeOK /\ [RegistryNext]_registryVars => RegistryTypeOK'
<1> SUFFICES ASSUME IInv, RegistryTypeOK, [RegistryNext]_registryVars PROVE RegistryTypeOK'
  OBVIOUS
<1>1. Fields' /\ Fields
  BY StepDurable DEF IInv
<1>2. \/ open
      \/ Crash
      \/ UNCHANGED <<stored, up, boot>>
  BY Zenon DEF RegistryNext, AdminNext, registryVars, ProvisionPersisted, ProvisionFailed,
         ProvisionReturned, RevokePersisted, RevokeReturned
<1>3. boot' \in Nat
  BY <1>2, SMTT(60) DEF RegistryTypeOK, open, Crash
<1>4. stored' \in BOOLEAN /\ up' \in BOOLEAN
  BY <1>2, Zenon DEF RegistryTypeOK, open, Crash
<1> DEFINE Writer == [op : {"provision", "revoke"}, key : PublicKey, next : Devices]
<1>5. admin' \in [op : {"none"}] \cup Writer
  <2>1. ASSUME NEW k \in PublicKey, ProvisionPersisted(k) \/ RevokePersisted(k) PROVE admin' \in Writer
    <3>1. admin'.key = k /\ admin'.next = disk' /\ admin' = [op |-> admin'.op, key |-> k, next |-> disk']
          /\ admin'.op \in {"provision", "revoke"}
      BY <2>1 DEF ProvisionPersisted, RevokePersisted
    <3> QED
      BY <3>1, <1>1 DEF Fields
  <2>2. ASSUME NEW k \in PublicKey, ProvisionFailed(k) PROVE admin' = admin
    BY <2>2 DEF ProvisionFailed
  <2>3. ASSUME open \/ UNCHANGED registryVars PROVE admin' = admin
    BY <2>3 DEF open, registryVars
  <2>4. ASSUME Crash \/ ProvisionReturned \/ RevokeReturned PROVE admin' \in [op : {"none"}]
    BY <2>4 DEF Crash, ProvisionReturned, RevokeReturned, Unlocked
  <2> QED
    BY <2>1, <2>2, <2>3, <2>4 DEF RegistryTypeOK, RegistryNext, AdminNext
<1> QED
  BY <1>1, <1>3, <1>4, <1>5 DEF RegistryTypeOK, Fields

\* Whatever call of registry.rs a crash interrupts, the next start finds a file
\* it accepts, no revoked key comes back and no provisioned one is lost.
THEOREM RegistryAlwaysDurable == RegistrySpec => []RegistryDurable
<1>1. IInv => RegistryDurable
  BY DEF IInv, RegistryDurable
<1> QED
  BY InitDurable, StepDurable, <1>1, PTL DEF RegistrySpec
===============================================================================
