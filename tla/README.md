# A TLA+ model of MouseVPN

MouseVPN carries IP packets between devices and a server in authenticated UDP datagrams.  This directory
holds a model of the parts of it where threads, the network, the clock, failing system calls and crashes
meet.  Every module is written from the code of one component; TLC checks it on a small instance, and for
seven of them TLAPS proves the main properties for every value of the constants.  `PROJECT.json` lists, for
every definition, the source lines it stands for.

## The system and its parts

| part | state | operations | what makes it hard | model |
|---|---|---|---|---|
| replay window (`crypto/src/replay.rs`) | highest number, ring of bitmap words | `ensure_acceptable`, `mark_authenticated` | reordering, jumps past the ring, the extra word | `ReplayWindow` |
| data plane (`data-plane/src/tunnel.rs`, `crypto/src/session.rs`, `apple-native/src/session.rs`) | sequence numbers, window, bursts | send packets and keepalives, receive a burst | two sending threads, the last number, a receive that fails in mid-burst | `DataPath` |
| client handshake (`handshake.rs` of four clients) | deadline, request in flight, retransmission | send, wait, retransmit, give up | responses to earlier attempts, refusals, a stop while waiting | `ClientHandshake` |
| device registry (`admin-api/src/registry*.rs`) | `devices.toml`, records, leases, tokens | `open`, `provision`, `revoke`, `authorize` | a crash between file and memory, reused addresses | `DeviceRegistry` |
| server daemon (`server/src/daemon.rs`) | sessions by ID and by address, handshake cache, peers | UDP loop, TUN worker, admin thread | three threads, repeated and reordered requests, roaming | `ServerDaemon` |
| in-process server state (`state.rs`, `users.rs`, `sessions.rs`) | users, device keys, bounded table | create, provision, revoke, authorize, insert, expire | a copy of the user outlives its revocation | `ServerState` |
| wire profiles (`morph`, `speedy`, `client-wire`, `daemon.rs`) | routing tables by tag, made once a second | `refresh`, `resolve`, decode | colliding tags, a clock that moves between readings, stale tables | `WireRouter` |
| handshake limit (`server/src/rate_limit.rs`) | counter per source | `allow` | a full table, window boundaries | `HandshakeLimiter` |
| traffic accounting (`admin-api/src/traffic.rs`) | atomic counters, hourly rows | `add_*`, `flush_at`, `report_at`, legacy import | counting while flushing and reporting, failed flushes | `TrafficStore` |
| Linux client (`linux-client/src/*.rs`) | session, sockets, atomics of two threads, timers | packet loop, outgoing worker, reconnect | handing over sockets between threads, loss reports against backoff | `LinuxClient`, `ClientLiveness` |
| Linux helper, watchdog and guards (`helper_runtime.rs`, `linux-platform`) | runtime lock, nftables table, routes, DNS | start, lock, guard, refresh, stop, kill, repair | two helpers and two watchdogs over one machine | `LinuxDesktop` |
| Linux GUI (`linux-gui`) | shown state, helper, profiles, totals | connect, disconnect, read metrics, save | a reader that is behind, failed saves | `LinuxGui`, `Reliability` |
| Android session (`android-native/src/*.rs`) | session, sockets, status, registry of handles | receive thread, outgoing thread, JNI calls | requests in the middle of a reconnect, partial replacement | `AndroidSession`, `NativeSession` |
| Android service (`MouseVpnService.kt`) | handle, generation, flags, executor queues | connect, disconnect, destroy, monitor, network callbacks | a disconnect at any point of an attempt | `AndroidService` |
| Windows policy (`network.rs`, `netcfg.rs`, `killswitch.rs`, `app_bypass.rs`) | routes, rules, WFP filters, address, journal | install, refresh, update, drop, recover, repair | a failure or the end of the process between any two changes | `WindowsPolicy` |
| Windows client (`runtime.rs`, `packet_loop.rs`, `network_events.rs`) | session, channel, flags, workers | connect, receive, reconnect, restart, stop | reconnecting in the loop and restarting around it | `WindowsClient` |
| Windows split tunnel (`split_tunnel.rs`, `windivert/*.rs`) | flow table, translation, channel, DNS guard | watch, capture, encrypt, reconnect | two event layers, a channel with room for one | `FlowWatch`, `WindowsSplit` |
| Windows GUI (`windows-gui`) | shown state, generation, profiles, settings file | connect, disconnect, read, choose, update | lines of a former helper, two processes and one file | `WindowsGui`, `AppRouting` |
| macOS helper (`macos-client`) | routes, resolver, session, stop file | install, receive, reconnect, stop | failing commands, being killed, a moving network | `MacClient` |
| macOS app (`VPNController.swift`, `macos-client/src/state.rs`) | status, PID file, state file, stop request | connect, poll, stop, terminate | awaits, helpers of two attempts, files without locks | `MacApp` |
| packet tunnel extension (`macos/PacketTunnel`, `apple-native/src/ffi.rs`) | pump, queues, timer, native handle | start, stop, read, receive | a stop before the start is through, references to a freed session | `PacketTunnel` |

A client sends a handshake request with a session ID of its choice; the daemon finds the device by the
routing tag of the frame, looks its key up in the registry, replaces the device's session and answers.  Data
and keepalives then flow under that session; the server follows the client to the endpoint it was last heard
from.  `revoke` removes a device and turns off the token its session shares.  The traffic counters of a
session are read by the flusher and the admin API.  Each client is a receiving thread that also reconnects,
a sending thread, and a layer above them that starts, stops and configures: a service on Android, a window
and a privileged helper on the desktops, an extension on macOS.

## Modules

* `ReplaySpec` is what a receive window promises, over the plain set of accepted numbers.  `ReplayWindow` is
  the circular bitmap; `SetModel` says it implements `ReplaySpec`.
* `DataPath` puts `ReplayWindow` at the end of a session's direction: a sender shared by two threads, a network
  that loses, repeats, delays and reorders, and a receiver that collects bursts.  What the tag admits was made
  by the other end's sender, which has checked kind, header and MTU, so the receiver's checks after the
  decryption have no failing step.
* `ClientHandshake`: one loop for the four clients, which differ in what they make of a response that does not
  authenticate and in whether they can be stopped.
* `DeviceRegistry`: the file, the two views in memory, and the calls of the admin thread.  A call is split
  after the file was renamed, because a crash can fall there; other threads see only its outcome, since
  the write lock is held throughout.
* `ServerDaemon` extends `DeviceRegistry` with the UDP loop and the TUN worker.  A handler is split where
  another thread may run between a check and its use.  A message of the network is any member of `InitMsg`
  at any time, which covers loss, repetition, delay and reordering.  The TUN worker's check of a session, its
  reading of the peer and the encoding are one step: the packet was picked up before a revocation that falls
  between them.
* `ServerState`: one action per call; `authorize` and `insert_session` are two, since a handshake lies between.
* `WireRouter`: the tables of `MorphRouter`, filled device by device and profile by profile, and the lookup.
  The clock may advance before every reading.  A tag is an opaque value, and two owners may share one; a
  frame authenticates under its own key and no other.  Two errors of `refresh` have no step: a clock before
  1970, and a key one profile can use and another cannot, since both refuse the same keys.
* `HandshakeLimiter`: `allow_at` as three actions (refused as newcomer, limited, granted) over ticking time.
* `TrafficStore`: the swaps of `take_pending`, the additions of `restore_pending` and the loads of
  `peek_pending` are single steps, a transaction is one step.
* `ClientLiveness`: `Liveness` and the queue of keepalives, driven by the clock, packets and loss reports.
* `LinuxClient`: the packet loop and the outgoing worker, one step per access to shared state.  A migration that
  fails, also at its last step, falls through to a new session.
* `TunnelFence` is what a desktop client promises about the machine: traffic is led into the tunnel only behind
  a fence, and both stand while the client calls itself connected.  `LinuxDesktop` and `WindowsClient` implement
  it; in both `FenceKept` is the refinement.
* `LinuxDesktop`: GUI, helpers, watchdogs and the guards' calls, each of which may fail; a helper may be killed
  and the GUI may end at any step.  What outlives a process (table, marked route) and what goes with it (TUN,
  halves, DNS of the link) are told apart.  `nft` may fail without anybody's noticing (`TableStays`): its exit
  status is not looked at when a table is removed.
* `LinuxGui`, `Reliability`: the state the window polls, the profile files and the totals.  A helper's reader
  thread has lines it has not yet read; `said` is the last line a helper wrote, with which the shown state is
  compared.
* `AndroidSession`: the two threads of a native session and the registry's requests, one step per access.
  `NativeSession` is what the status of a session promises the service that polls it; `StatusKept` says that
  `AndroidSession` implements it.
* `AndroidService`: the main thread, the connection executor, the stop executor and the connectivity
  callbacks over the registry of handles.  A running session does what `NativeSession` promises.  The attempt
  checks that it is still wanted, detaches the descriptor and reads the handle for `start` in separate steps.
  A socket that cannot be bound takes the default route, which is the selected network.
* `WindowsPolicy`: one step per change that survives on its own.  Every call may fail where its result is
  checked, and the process may end at any step: what handles hold goes with it, the rest stays.  The rules of
  all adapters are one Boolean, so an adapter without them between its arrival and the next refresh is not
  told apart; an error before the fence is the failure of both kinds of fence.
* `WindowsClient` extends `WindowsPolicy` with the threads of the full tunnel and the restarts of the runtime.
* `FlowWatch`: two watchers, each behind on its own queue of events, the flow table and the verdict on a packet.
  The machine changes its address at any time; a reconnect reads it, and clears the table after its handshake
  when it is another, whatever flows are open.  `WindowsSplit`: the receive loop and the outbound worker around
  the translation and the channel.  A run that fails after it has spawned its worker leaves the worker behind
  (`stray`), capturing beside the next run until its capture fails or the helper ends.
* `WindowsGui`, `AppRouting`: commands, tray, readers with generations; the settings file step by step.  Paths are
  resolved against the executables that are there and the roots (an `Update.exe`, a directory `claude-code`),
  which come and go on their own.
* `MacClient`, `MacApp`, `PacketTunnel`: the helper's threads and commands; the controller between its awaits and
  the files it shares with helpers, with calls of `disconnect` that may overlap and a SIGTERM that ends a helper
  before or through its handler; the extension's queues and the references to the native session.

An operator whose name is that of another with a suffix (`open_always_seeds` for `open`) is a deliberately
wrong variant of it, kept to confirm that the property it breaks is able to fail.  A type invariant is part
of the first invariant of its module.

## Runs

A run asks about a group of components.  Where these share no state, the run's module `MC<group>` chooses one
of them in the variable `which`; that one runs, the others stay in one initial state.  The behaviours are
those of the components side by side, without the product of their states.  An invariant of a component is
guarded by `which` or holds in its initial state; a liveness property speaks of a trigger that the idle
component never gives.  Since one component runs, the n-th fair thread of each can share one fairness
condition.  Liveness is stated as `[]<>(trigger => done)` where the trigger stays until it is answered.  The
bounds are the constants in the cfg and in the `INSTANCE`s.

* `ledgers`: `ReplayWindow` (two words of two bits and numbers beyond two turns of the ring, so every jump
  length, partial word and wrap occurs), `DataPath` (one-bit words, bursts of two, a space of numbers that
  ends), `ClientHandshake` (three attempts before the deadline), `ClientLiveness` (the code's proportions in
  ticks: probe at half the timeout, reply timeout equal to the session timeout, backoff capped below it),
  `TrafficStore` (two meters, so the counters of one flush are read at different times; three hours with a
  retention of one; two starts with a legacy file).  `BitmapExact` and `SetModel`: the bitmap is the set.
  `PathExact`: a number serves one packet (`NoncesOnce`), and the bursts share out what was sent
  (`BurstsPartition`).  `HandshakeBounded`: a handshake ends by its deadline, with the keys of its own request.
  `TimersRight` is `BackoffBypassedOnce`, `SilenceNoticed` and `KeepalivesAccounted`.  `TrafficConserved` adds
  `ReportNeverOvercounts`.
* `server`: `ServerDaemon` with its registry (two configured clients and one provisioned later on a reused
  address, requests that collide on their session ID, two symmetric endpoints, two starts, two sessions per
  start), `HandshakeLimiter` (three sources for two places, two attempts per window), `ServerState` (three
  IDs for a table of two, two users, two keys).  `ThreadsAgree` is `IndexesAgree`, `ActiveHoldsLease`,
  `CacheMatchesSession` and `SentOnlyWhereHeard`; `RegistryDurable` is `Restartable`, `RevokedForGood` and
  `ProvisionedKept`, about crashes; `RevokedNotServed` is about both.  `GrantsBounded` and `LiveCounterKept` are
  the limiter's, `RevokedKeepsNothing` the table's.
* `wire_router`: three devices, one with an unusable key, tags that collide within and across profiles, and
  seconds that cross an epoch.  `TablesExact`: a tag leads to its only owner.  `RoutesCurrent`: a fresh frame
  is accepted (`FreshFrameAccepted`), a revoked device's is not routed (`RevokedNotRouted`).
* `linux`: `LinuxDesktop` (two helpers, two servers, two gateways, two mishaps) and `LinuxClient` (two reconnects,
  so two sockets can wait in the channel).  `FenceLifted`: when everybody is gone so is the table.  `FenceKept`:
  the desktop implements `TunnelFence`.  `DesktopSettles` is `StopSettles` (from
  the user's answer to PolicyKit on) and `RouteFollows`.  `ClientConfirmed`
  is `SessionConfirmed` and `OneStaleBatch`; `ClientReacts` is `LossHeeded`, `StopEndsBoth` and `WorkerEndNoticed`.
* `android`: `AndroidSession` (two reconnects and two changes of network, so a change can hit a running
  reconnect and be followed by another) and `AndroidService` (three generations and two sessions, so an old
  attempt, its successor and a stop overlap).  `OneSession` includes `OneBatchSlips`; `StatusKept` is the
  refinement; `NativeReacts` is `UploadsNotSilentlyDead`, `StopReturns` and `RequestFollowed`; `ServiceHeld` is
  `HandleOfThisAttempt` and `OneLateHandshake`; `ServiceSettles` is `StopSettles`, `FalseConnectedCleared` and
  `NetworkFollowed`.
* `windows`: `WindowsClient` (two failing calls, an error and the failure of its rollback; one change of
  network; any number of launches and crashes) and `WindowsSplit` (three reconnects, one failure, batches of
  two, so a stray worker beside any later run).  `FencedWhileRouted`, `JournalCovers` and `FenceKept` are about the machine; `SplitTogether` is
  `SessionsTogether` and `ResolverRestored`; `Settles` is `ReconnectAndStopReturn`, `RouteFollows` and, for the
  split tunnel, `StopEnds`.
* `desktop_apps`: `FlowWatch` (three programs, two with one process ID, two addresses, a key and
  two flows on it, queues of two), `WindowsGui` (two helpers, two profiles), `AppRouting` (a Squirrel application
  with a stable path and two versions, a store package with two versions and a helper, all chosen or none; one
  change, one update or removal, one failure), `LinuxGui` (two helpers, two protocols), `Reliability` (two sessions, two profiles, two
  protocols).  `FlowsRouted` is `VerdictRight` and `RoutedStaysInside`; `ShownAsIs` is about both GUIs: the window
  shows what its helper last said once the lines are read;
  `DisconnectHolds`, `SettingsKept`, `TotalsExact`; `ChoiceFollowed` is `PolicyComplete` and `ChoiceKept`.
* `mac`: `MacClient` (two networks, one move, one failing command, three sessions), `MacApp` (two helpers, one
  call of `disconnect` at a time; two that overlap keep the properties too, and take longer than the rest together),
  `PacketTunnel` (chunks of two, reads of up to three packets).  `MacClean` is `CleanWhenGone` and
  `OneReconnectTooMany`; `OneHelper`; `PumpHeld`: one failure is reported, none after a stop; `StopsEnd` is `StopEnds`, `StopHeeded` and `StopFrees`; `Follows`
  is `RouteFollows` and `ShowsWhatIs`.

Where a cfg turns deadlock checking off the system really stops: a client that was told to, a server at its
last start, a bounded clock, a user who has closed the window.

Four runs end in a violation; `PROJECT.json` quotes what the repository says and what the code does.

* `android_disconnect_race`: a disconnect while `start` has the session out of the registry leaves a session
  running that nothing refers to.
* `windows_interface`: a reconnect of the packet loop does not update the runtime's copy of the parameters;
  a later restart compares with the old copy and leaves the interface with another session's address.
* `linux_watchdog`: a helper is killed and the next one, for another server, takes the lock before the
  watchdog does; the watchdog tries the lock once and returns, and the marked route of the killed helper's
  server stays.
* `split_turn`: two reconnects of the split tunnel without a packet of a routed application between them block
  the receive loop on the channel to the outbound worker.

Some properties leave out a situation in which the code is known not to keep them.  Each names it by a
variable that records the situation and nothing else, or by a predicate on the state:

| name | property | what is left out |
|---|---|---|
| `missed` | `NetworkFollowed` | a change of network during the Android handshake, of which nobody is told |
| `torn` | `JournalCovers` | the end of the process between the rules and the journal that names them |
| `Astray` | `RouteFollows` (Linux) | a route the guard lost track of after a failed delete |
| `stale` | `RevokedKeepsNothing` | a session inserted from a copy of a user made before the revocation |
| `reused`, `forgotten` | `VerdictRight` | a flow that takes a key while events of the former flow are queued, or is open when a change of address clears the table: it may be without an entry, never with another program's |
| `stray` | `ResolverRestored` | a worker that outlived its run captures without the resolver |
| `overtaken` | `ShownAsIs` | a line of the former helper between showing the new connection and advancing the generation |
| `overlapped` | `SettingsKept` | two processes that save at once |
| `two` | `OneHelper` | two helpers between reading and writing the PID file at once |
| `overwritten` | `ShowsWhatIs` | `dismissError`, a further attempt or another helper that overwrote the state of a helper that runs |
| `early` | `StopFrees`, `PumpHeld` | `stopTunnel` before `startTunnel` is through |
| `late` | `TotalsExact`, `ShownAndCountedAsIs` | a reader that is behind by a whole connection |
| `imported` | `ShownAndCountedAsIs` | a profile replaced while the user answers PolicyKit |
| `bare` | `FenceLifted` | a helper that ended before it had a watchdog, or a repair that failed, also unnoticed |
| `Blocked` | `StopEnds` (split tunnel) | the reconnect of `split_turn`, which hears no stop |
| `unclean` | `ResolverRestored` | an interface that a kill or a refused reset left set |
| `killed`, `kept` | `CleanWhenGone`, `RouteFollows` (macOS) | a helper that was killed; a command that failed to undo |

## Fairness

Liveness is checked under weak fairness of each thread, taken as a whole.  The code justifies it: sockets and
TUN devices are polled with timeouts, handshakes have deadlines, waits are sleeps, so a thread that is
scheduled makes its next step.  Nothing obliges the network to deliver, a call to succeed, the user or the
operating system to act, or a packet loop to fail, so none of these is fair.  The number of failures is
bounded, which reads as: after the last failure.  On Windows the policy worker's interval ends again and
again; on Android a backoff runs out.

On the Linux desktop a helper's steps are fair, but leaving the loop only once it was told to; its refresh of
the route runs on an interval, and a watchdog polls.  In `WindowsSplit` the outbound worker is fair only where
it has something to do: a packet to capture is not guaranteed, which is what `split_turn` shows.  In `MacClient`
the main loop (without the interface's refusal of a packet, `write_packets`) and the outgoing loop are fair; in `MacApp` the polling timer and the helpers (together: each has a few steps of its own), never the user; in
`PacketTunnel` the start, the stop's callback and the two queues.  The desktop applications, the server and the
ledgers have safety properties only and assume no fairness.

## Proofs

All proofs hold for every value of the constants that satisfies the named assumption of the module.

`ReplayWindowProofs` proves type correctness, `BitmapExact`, `NeverTwice` and the refinement `SetModel` for
all sizes.  `BitmapExact` is the inductive invariant: the words of the blocks from the highest down to
`WindowWords` below it hold exactly the accepted numbers.  It needs the fact that `WordCount` consecutive
blocks lie in different slots of the ring (`SlotsApart`) and that a number acceptable below the highest lies
in one of these blocks (`WindowSpan`).

`DeviceRegistryProofs` proves `RegistryDurable` for any keys, addresses, seeds and number of starts.  Its three
parts are inductive together with `ViewsAgree` (the records and the leases say the same), `Phases` (a daemon
that runs has a file, one that does not has nothing in memory) and `Pending`: the call that holds the lock
changes one record, and the file differs from memory in no other.  That `next_address` is free comes from the
well-foundedness of the naturals.

`ServerDaemonProofs` proves `ThreadsAgree`, `RevokedNotServed` and again `RegistryDurable` for the three threads
together.  `ThreadsAgree` is not inductive: a handler holds a device and an address it looked up before the
admin thread ran.  `Known` says what remains true of such a pair whatever the admin thread does, `Handler`
which session a handler may still answer, `Serials` that nothing belongs to a session before it exists, and
`Apart` that a device has one session.  A step of the UDP loop or the TUN worker leaves the registry alone, so
the registry's theorem carries over.

`HandshakeLimiterProofs` proves the limits (`LimitsHeld`: no counter and no table passes its bound) and
`LiveCounterKept`.  The invariant is the type of an entry: a counter was started in the past and counts at
least one attempt, so an entry whose window is open is neither dropped by a cleanup nor restarted.

`WireRouterProofs` proves `TablesExact` for any devices, epoch lengths, collisions of tags, order of the
devices and advance of the clock.  The heart is one lemma on entering an owner into a table: a free tag
becomes a route, a routed tag becomes ambiguous, an ambiguous one stays out.

`LinuxDesktopProofs` proves `FenceLifted` and the refinement `FenceKept` for any number of helpers, servers,
gateways and mishaps.  The invariant says that whoever changes the machine holds the runtime lock (`Locked`),
that a helper is watched from its second step on (`Watched`), what is installed at which step (`Installed`), and
that a table is always somebody's to remove (`Minded`).  Most calls come down to one shape (`Moves`), about
which the lemmas are stated.

`WindowsClientProofs` proves the types, `FencedWhileRouted` and `JournalCovers` for any networks, parameters
and routing policies and without a bound on failures and changes of network.  Neither is inductive:
`FencedWhileRouted` does not know the journal while the policy is being installed, and `JournalCovers` speaks
of the moment no helper runs, which is too late.  `Journalled` says which journal exists at which step,
`Covered` what that journal says of the machine (a journal without rules means there are none; no journal
means a clean machine, except at the rename), and `Scoped` that the policy worker lives only as long as its
loop.  The assumptions are those on the constants (`PolicyAssumption`).

Everything else is model-checked only.  Liveness under fairness, what a recursive definition computes for
every input (induction over data, to which the sums of `GrantsBounded` and of the traffic belong) and `ENABLED`
are out of the prover's reach; no module with a theorem uses a RECURSIVE operator.  Within reach and open
are `SessionConfirmed` (`LinuxClient`), `OneSession` and the step simulation of `StatusKept` (`AndroidSession`),
`FenceKept` of `WindowsClient` and `RevokedKeepsNothing`.  `RoutesCurrent` depends on an epoch of one second for
one profile and would need that as an assumption.

## Not modelled

Cryptography (whether a message is authentic is a choice), byte layouts, system calls (their outcomes are
choices), and the parts listed as such in `PROJECT.json`, with the reason for each.  The SOCKS proxy is a thread
per connection over blocking sockets that share a counter and the stop flag; the rest of it parses requests
and copies bytes, and which sockets enter the tunnel is the kernel's policy routing.  The admin HTTP API has
handlers without state over the registry and the traffic store.  The Noise handshake, the protocol codec and
the UDP transport are cryptography, encoders of fixed layouts and wrappers of system calls.  Configuration
and profiles are validations of files read once.  Of the user interfaces only the state behind them is
modelled.
