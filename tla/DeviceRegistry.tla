---------------------------- MODULE DeviceRegistry ----------------------------
(***************************************************************************)
(* The authorized devices of the server: SharedDeviceRegistry of           *)
(* admin-api/src/registry.rs over the file of registry_store.rs.           *)
(*                                                                         *)
(* provision and revoke hold the write lock from their first read of       *)
(* `devices' to their return, so another thread sees their outcome only;   *)
(* a crash can still fall between the write of the file and the update of  *)
(* the memory, and these are two steps here.  The address, the platform    *)
(* and the name of a record are reduced to the address.  A key pair is     *)
(* generated at random: a key is never issued twice.                       *)
(***************************************************************************)
EXTENDS Integers, FiniteSets

CONSTANTS
    PublicKey,       \* the device keys that can be generated
    Address,         \* the host addresses of the tunnel subnet, as numbers
    Seeds,           \* the clients of the server config: key -> address
    MaxBoot          \* bound: how many times the daemon is started

NoAddress == 0

ASSUME RegistryAssumption ==
    /\ Address \subseteq Nat \ {NoAddress}
    /\ Seeds \in [PublicKey -> Address \cup {NoAddress}]
    /\ \E k \in PublicKey : Seeds[k] # NoAddress
    /\ \A j, k \in PublicKey :
          Seeds[j] = Seeds[k] /\ Seeds[j] # NoAddress => j = k
    /\ MaxBoot \in Nat

Devices == [PublicKey -> Address \cup {NoAddress}]
NoDevices == [k \in PublicKey |-> NoAddress]

\* The keys that have a record.
Keys(devices) == {k \in PublicKey : devices[k] # NoAddress}

VARIABLES
    stored,          \* whether devices.toml exists
    disk,            \* the records of devices.toml
    up,              \* whether the daemon runs
    boot,            \* how many times it was started
    devices,         \* DeviceRegistry::devices
    leases,          \* DeviceRegistry::leases, without the token
    active,          \* the keys whose DeviceAuthorization token is set
    admin,           \* the call that holds the write lock
    issued,          \* history: the keys generated so far
    provisioned,     \* history: the keys provision returned
    revoking,        \* history: the keys a revoke has started to remove
    revoked          \* history: the keys for which revoke returned Ok(true)

registryVars == <<stored, disk, up, boot, devices, leases, active, admin,
                  issued, provisioned, revoking, revoked>>

Unlocked == [op |-> "none"]

RegistryInit ==
    /\ stored = FALSE /\ disk = NoDevices
    /\ up = FALSE /\ boot = 0
    /\ devices = NoDevices /\ leases = NoDevices /\ active = {}
    /\ admin = Unlocked
    /\ issued = Keys(Seeds)
    /\ provisioned = {} /\ revoking = {} /\ revoked = {}

\* What open accepts: the file must name a device, and no address twice.
validate_devices(ds) ==
    /\ Keys(ds) # {}
    /\ \A j, k \in Keys(ds) : ds[j] = ds[k] => j = k

\* The config is read once: a file that exists always wins over the seeds.
open_always_seeds ==
    /\ ~up /\ boot < MaxBoot
    /\ LET ds == [k \in PublicKey |-> IF Seeds[k] # NoAddress THEN Seeds[k]
                                      ELSE disk[k]]
       IN /\ validate_devices(ds)
          /\ devices' = ds /\ leases' = ds /\ active' = Keys(ds)
          /\ disk' = ds
    /\ stored' = TRUE /\ up' = TRUE /\ boot' = boot + 1
    /\ UNCHANGED <<admin, issued, provisioned, revoking, revoked>>

open ==
    /\ ~up /\ boot < MaxBoot
    /\ LET ds == IF stored THEN disk ELSE Seeds
       IN /\ validate_devices(ds)
          /\ devices' = ds /\ leases' = ds /\ active' = Keys(ds)
          /\ disk' = ds
    /\ stored' = TRUE /\ up' = TRUE /\ boot' = boot + 1
    /\ UNCHANGED <<admin, issued, provisioned, revoking, revoked>>

\* The lowest host address no record uses; NoAddress when the pool is exhausted.
next_address(ds) ==
    LET free == {a \in Address : \A k \in PublicKey : ds[k] # a}
    IN IF free = {} THEN NoAddress
       ELSE CHOOSE a \in free : \A b \in free : a <= b

\* provision, to the point where persist_devices has renamed the new file.
ProvisionPersisted(k) ==
    /\ up /\ admin = Unlocked
    /\ k \notin issued
    /\ next_address(devices) # NoAddress
    /\ LET next == [devices EXCEPT ![k] = next_address(devices)]
       IN /\ disk' = next
          /\ admin' = [op |-> "provision", key |-> k, next |-> next]
    /\ issued' = issued \cup {k}
    /\ UNCHANGED <<stored, up, boot, devices, leases, active,
                   provisioned, revoking, revoked>>

\* The pool is exhausted or the file could not be written: Err, and the
\* generated key is dropped.
ProvisionFailed(k) ==
    /\ up /\ admin = Unlocked
    /\ k \notin issued
    /\ issued' = issued \cup {k}
    /\ UNCHANGED <<stored, disk, up, boot, devices, leases, active, admin,
                   provisioned, revoking, revoked>>

ProvisionReturned ==
    /\ admin.op = "provision"
    /\ devices' = admin.next
    /\ leases' = [leases EXCEPT ![admin.key] = admin.next[admin.key]]
    /\ active' = active \cup {admin.key}
    /\ provisioned' = provisioned \cup {admin.key}
    /\ admin' = Unlocked
    /\ UNCHANGED <<stored, disk, up, boot, issued, revoking, revoked>>

\* revoke, to the point where persist_devices has renamed the new file.  The
\* last device is never removed.
RevokePersisted(k) ==
    /\ up /\ admin = Unlocked
    /\ k \in Keys(devices)
    /\ LET next == [devices EXCEPT ![k] = NoAddress]
       IN /\ Keys(next) # {}
          /\ disk' = next
          /\ admin' = [op |-> "revoke", key |-> k, next |-> next]
    /\ revoking' = revoking \cup {k}
    /\ UNCHANGED <<stored, up, boot, devices, leases, active, issued,
                   provisioned, revoked>>

RevokeReturned ==
    /\ admin.op = "revoke"
    /\ devices' = admin.next
    /\ leases' = [leases EXCEPT ![admin.key] = NoAddress]
    /\ active' = active \ {admin.key}
    /\ revoked' = revoked \cup {admin.key}
    /\ admin' = Unlocked
    /\ UNCHANGED <<stored, disk, up, boot, issued, provisioned, revoking>>

\* The daemon stops, at any point: what is in memory is gone.
Crash ==
    /\ up
    /\ up' = FALSE
    /\ devices' = NoDevices /\ leases' = NoDevices /\ active' = {}
    /\ admin' = Unlocked
    /\ UNCHANGED <<stored, disk, boot, issued, provisioned, revoking, revoked>>

AdminNext ==
    \/ \E k \in PublicKey :
          \/ ProvisionPersisted(k)
          \/ ProvisionFailed(k)
          \/ RevokePersisted(k)
    \/ ProvisionReturned
    \/ RevokeReturned

RegistryNext == open \/ AdminNext \/ Crash

RegistrySpec == RegistryInit /\ [][RegistryNext]_registryVars

-------------------------------------------------------------------------------

\* The registry stays well formed: a lease or a record carries an address of
\* the tunnel subnet, and a held lock belongs to one of the two writers.
RegistryTypeOK ==
    /\ stored \in BOOLEAN /\ up \in BOOLEAN
    /\ boot \in Nat
    /\ disk \in Devices /\ devices \in Devices /\ leases \in Devices
    /\ active \subseteq PublicKey
    /\ admin \in [op : {"none"}]
             \cup [op : {"provision", "revoke"}, key : PublicKey, next : Devices]
    /\ issued \subseteq PublicKey
    /\ provisioned \subseteq issued
    /\ revoking \subseteq issued
    /\ revoked \subseteq revoking

\* A daemon that stopped can be started again: the file it left, in the middle
\* of a call or not, is one that open accepts.
Restartable == stored => validate_devices(disk)

\* The two views of the devices in memory and the tokens agree, and the file
\* holds the same records, or those of the call that holds the lock.
ViewsAgree ==
    up => /\ leases = devices
          /\ active = Keys(devices)
          /\ disk = IF admin = Unlocked THEN devices ELSE admin.next

\* "Permanently removes a public key and disables its active sessions": after
\* revoke returned Ok(true) the key is not authorized again, not even by a
\* restart, and its token stays off.
RevokedForGood ==
    \A k \in revoked : disk[k] = NoAddress /\ leases[k] = NoAddress /\ k \notin active

\* A device that provision returned stays authorized until its revocation:
\* no crash and no other call loses it.
ProvisionedKept ==
    \A k \in provisioned \ revoking :
        disk[k] # NoAddress /\ (up => k \in active)

\* Whatever a crash interrupts, the file is one the daemon starts from, a
\* revoked key stays revoked and a provisioned one authorized.
RegistryDurable == Restartable /\ RevokedForGood /\ ProvisionedKept
===============================================================================
