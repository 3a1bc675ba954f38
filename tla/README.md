# Verification of libvirtualdisplay

libvirtualdisplay makes virtual monitors appear on a machine. On Windows a
user-mode IddCx driver keeps *temporary displays* alive for the clients that
feed a *lease*, and a set of *permanent displays* described by a manifest that
a broker service keeps. On Linux a DRM kernel module makes a pool of outputs,
and a connector broker hands them out. This directory holds TLA+ models of both
sides, the TLC configurations that check them on small instances, and proofs
for TLAPS.

Paths below are relative to `src/src/driver` unless they start with `src/`;
`DM` is `windows_driver/driver_main.cpp`, `DC` is `driver_controller.cpp`.

## 1. Inventory

| Component | State it keeps | Operations | Modelled in |
|---|---|---|---|
| Display store (`lease_store.cpp`) | displays, leases, connector reservations, quarantined connectors, generation and ephemeral counters, the permanent manifest | create, reclaim, remove, mark pending, abandon, feed, release, reap, authorize; manifest get and set | `LeaseStore` (manifest in `DriverController`) |
| Driver controller (`DC`) | none of its own; copies of records across backend calls, the backend lock | create, reclaim, remove, release, feed, reap, manifest, render adapter | `DriverController` |
| Profiles and driver state (`windows_driver_state.cpp`) | the profiles in the registry | load, replace, evict, remove | `DriverController`, `LeaseStore` |
| IddCx backend (DM 2808-4495) | monitors, marks on their records, lifecycle counters, the unhealthy flag, the render adapter, retained scalings | arrive, depart, set adapter, reap the orphans, shut down; swapchain callbacks | `IddCxBackend`, `MonitorArrival` |
| Swapchain processor (DM 1983-2575) | the swapchain and who owns it, the worker | start, decide, stop, abandon, destroy | `SwapChainProcessor`, `IddCxBackend` |
| Modes and EDID (`windows_driver_modes.cpp`, ...) | the modes registered under an EDID, with references | build lists, register, release | `ModeCatalog`, `MonitorArrival` |
| Frame ring control plane (`frame_ring_server.cpp`, `frame_ring_lifetime.cpp`) | an entry per display with its client's newest cookie, the registered rings, their gates | register, clear, reap, snapshot, retire, reset | `FrameRing` |
| Frame ring producer and import (DM 1857-1980, 2200-2575, `windows_frame_importer.cpp`) | slot keys, sequence, metadata, event | open, copy, publish, give back, retire | `FrameRingSlots` |
| Device state (DM 4497-4830) | controller lock, reaper thread, health gate | timed lock, reaper loop, shutdown | `DriverController`, `FrameRing`, `IddCxBackend`, `BrokerService` |
| Broker service, its command line and control client (`src/tools`, `control_client.cpp`, `windows_control_client.cpp`, `broker_commands.cpp`) | the manifest in the registry, one client and one helper at a time | query, profile, permanent, restore, start, stop | `BrokerService` |
| Linux kernel module (`src/linux/vibeshine-drm`) | commits, the presented frame, the trace ring, the configuration | commit, flip, capture, quiesce; make, link, enable, remove | `VkmsPresentation`, `VkmsConfigfs` |
| Linux connector broker (`src/linux/packaging/vibeshine-vkms`) and its client | a lease file for each connector, the pool | connect, disconnect, set a mode; start and stop the pool | `ConnectorBroker` |
| Cursor processor (DM 1584-1800) | - | - | not: it is never started |
| Vulkan layer, probe, stress and build tools, KWin interposer | dispatch tables | - | no |

### How the parts interact

*Windows.* A client sends an IOCTL. The driver reads the clock, takes the
*controller lock* (for five seconds at most) and hands the request to the
dispatcher, which calls the controller. The controller works on the store under
that lock. For every backend call it gives the controller lock up, waits for
the *backend lock* (it may give up and answer Busy), calls, and takes the
controller lock again before it lets the backend lock go. So the store may
change under every backend call. The reaper thread wakes every second, takes
the controller lock if it is free, and departs whatever is expired or pending.
The backend calls IddCx on workers that it may leave behind, and IddCx calls
back to assign and unassign swapchains. A swapchain worker asks for a snapshot
of the ring through the controller lock and publishes under the ring's gate
only. The broker is one more client, which remembers permanent displays over a
restart of the driver.

*Linux.* The pool service writes the configuration of a DRM device into
configfs. systemd starts an instance of the broker for each connection; the
instances meet at a lock and at the lease files. A compositor commits frames to
the outputs; capture clients wait for presentations in the kernel.

### What is hard

Records are copied before a lock is given up and used after it is taken again.
Display ids are reused, so a copy may be of an earlier record with the same id.
Clock readings are older than the lock. Calls time out and complete later.
Connectors can stay wedged. Several clients and the reaper work on one display.
Workers of two swapchains share a ring. The broker dies, or its request takes
effect after it was given up. A script is killed between two writes.
`PROJECT.json` lists each of these under `hazards` at its line, with the
properties that cover it.

## 2. Modules

| Module | Follows | Proofs |
|---|---|---|
| `LeaseStore` | `lease_store.cpp` | `LeaseStore_proofs` |
| `DriverController` (`INSTANCE LeaseStore`) | `driver_controller.cpp`, `windows_driver_state.cpp` | `DriverController_proofs` |
| `FrameRing` (`INSTANCE LeaseStore`) | `frame_ring_server.cpp`, `frame_ring_lifetime.cpp` | `FrameRing_proofs` |
| `FrameRingSlots` | DM 1857-2575, `frame_ring_lifetime.h`, `windows_frame_importer.cpp` | `FrameRingSlots_proofs` |
| `IddCxBackend` (extends `SwapChainProcessor`) | DM 2808-4495 | `IddCxBackend_proofs` |
| `MonitorArrival` (extends `ModeCatalog`) | DM 440-1108, 2930-3906, `windows_driver_modes.cpp` | `Settings_proofs` |
| `BrokerService` | `src/tools/virtualdisplay_broker.cpp`, `src/tools/virtualdisplay.cpp`, `control_client.cpp`, `windows_control_client.cpp`, `broker_commands.cpp` | `Settings_proofs` |
| `VkmsPresentation` | `src/linux/vibeshine-drm/vkms_drv.c`, `vkms_crtc.c`, `vibeshine_drm_change.h` | `VkmsPresentation_proofs` |
| `VkmsConfigfs` | `src/linux/vibeshine-drm/vkms_configfs.c`, `vkms_config.c`, `vkms_output.c`, `vkms_connector.c` | `ConnectorBroker_proofs` |
| `ConnectorBroker` (extends `VkmsConfigfs`) | `src/linux/packaging/vibeshine-vkms`, its units, `linux_control_client.cpp` | `ConnectorBroker_proofs` |
| `MC...` | the instances for TLC | |

**LeaseStore.** A `std::map` is a function whose absent keys hold a null value.
Each public operation is an operator with its request as parameter, enabled
when the code accepts the request (`FeedAccepted`, `ReclaimAccepted`, ...);
refusals change nothing, but for one: a create that fails after the connector
search may already have erased a reservation (`RefuseCreate`). The clock
reading of a request is a parameter `t` in `now - MaxClockLag .. now`. The
initial states hold every reservation map that a saved blob can yield, also
maps in which two displays share a connector. Identities are abstract:
`RetainedEdid` and `EphemeralEdid` say into which EDID identity a display id or
a counter value folds, and may collide.

**DriverController.** A thread is a record: where it is (`at`, named for the
backend call it is in), the answer of that call, the request, its clock
reading, the copied record, and for release and reap the copies still to be
departed. A section under the controller lock is one step. `Call` is a whole
backend call; its answer is kept until the thread gets the controller lock
(`Return`), and until then the backend lock is held, as in
`call_backend_without_controller_lock`. `TimeOut` is a wait for the backend
lock that ends in Busy. Only where one section changes the store twice is
`controllerLock` held from one step to the next. The backend is its interface:
a departure is fenced by the generation it names, or unfenced with 0; an arrival
departs a monitor of another generation first; any call may fail, and a
departure that fails by its time-out may have taken effect. The interface, but
not the IddCx backend, lets a departure fail although nothing is up; one branch
of the controller needs that, and `FailsWhenDown` chooses. The profiles are
loaded, replaced and evicted as in `windows_driver_state.cpp`; its refusal of a
profile more than it has room for can never happen, because live profiles have
distinct connectors.

**FrameRing.** A request, a wake-up of the reaper and a snapshot are one step
each, because all of it runs under the controller lock; `StoreStep` is what the
controller does to the store in between. The reap that opens a request is a
part of the request. Two variables are history: `bound`, the cookies registered
or cancelled for a display since it joined its lease, and by whom; `forgotten`,
the clock reading of the reap that dropped the entry with the newest of them.
Requests read the clock before they wait for the lock, so a reading may be older
than that of a reap that was served before (`MaxClockLag`; `Late`).

**FrameRingSlots.** The data path: two swapchain workers of one display, of
which one is on its way out, the slots of two successive rings, the event, and a
client written from `src/docs/frame-transport.md`. A frame is a number; a slot
has the number of its pixels and that of its metadata, which must agree. Copy,
stamp, publication and giving back are steps; the gate's mutex is held where the
code holds it. A ring is not unassigned in the middle: a worker ends by itself
or is replaced.

**IddCxBackend, SwapChainProcessor.** One display id. A section under `mutex_`
is one step; the IddCx calls that may hang are steps of a worker which its
caller stops waiting for. Callers: the controller (one call at a time), the
reaper that cleans up orphans, the teardown of the device. The operating system
assigns and unassigns swapchains at any time while a monitor is up, but not
before `IddCxMonitorArrival` has returned. Permanent monitors are not here; their
manifest is applied as a whole in `DriverController`.

**MonitorArrival, ModeCatalog.** What an arrival brings besides the monitor:
the mode lists under its EDID, and the retained scaling and colour profile.
The registry of the user is a set of places, one for each slot Windows gave a
display; the `age` of a place, how many others were written since, stands for
its time stamp. Arrivals follow each other, as `lifecycle_unhealthy_` enforces. One
user: after a switch of the console `UserAtConsole` is false, so that a value
read from one user's hive is written to another's is not covered. Windows is
assumed to place the monitor before the last attempt of the work item
(`PlacedInTime`); one attempt stands for some twenty. `Covers` says whose
settings keys begin with whose prefix. In the instance, as in the code, those of
a second display begin with the prefix of the one that arrives, and a third has
nothing in common with it (section 5, 10). `UsePerUserProfiles`
is ignored by the code and here. `MaxValue` is the bound at which a scaled size
saturates, smaller than the code's 32 bits.

**BrokerService.** The driver is its manifest; a request either succeeds at one
moment, fails, or times out and may take effect at any later time. The broker
serves one command at a time and has its pipe, the registry, the helper, the
handler of the service manager and the restoration at its start. A start while
a stop is pending does nothing and times out; there are no recovery actions; a
pipe that cannot be created ends the broker. An answer is written (`Reply`), and the
broker waits in `FlushFileBuffers` until the client has read it or closed its
end (`Flushed`). There are two kinds of clients: the command line, which asks who
is at the other end of the pipe before it sends and then reads its answer to the
end, and anybody else who may open the pipe, who need not do either.

**VkmsPresentation.** Commits of one output, blocking or not, their tails, the
vblank handler, waiters, exports of frames, readers of the trace, and the three
ways to close the device. The DRM core is external.

**VkmsConfigfs.** Configurations are relations between items; `live` is what
`vkms_output_init` made of one. A configuration lives at an address as long as
it has references. Clients may keep the DRM device of one open (`held`) while
root removes it and makes the next, as the code allows; `Addresses` bounds how
many there are. A probe (`Detect`, `GetModes`) is an operator
over it: the requested mode of the instance has its doubled rate on the bound,
or just beyond.

**ConnectorBroker.** The steps of the script between which it can be killed:
lock, lease, status, mode, answer. A write may fail, or take effect and fail
when it is read back; `unconfirmed` are the outputs that a connect has left
without an owner in this way. A compositor may hold the device of an earlier pool
open. systemd is external as the units use it: one
job of the service at a time, instances only while it is active, the run
directory emptied when it becomes inactive. A client names an output by its DRM
name, which stands for its configfs name. `MaxConnections=16` is `Instances`.
A manual restart by root outside systemd is not modelled.

**Faulty variants.** A definition whose name says what is wrong with it
(`AbandonKeepingReservation`, `DepartsUnfenced`, ...) is how the definition after
it could plausibly have been written. No specification uses one. For each
property of each run `PROJECT.json` names one, under `mutants`, that breaks the
property when it is put in the place of the definition.

## 3. Runs

All runs stop at bounds (requests, generations, time), so a behaviour may end
there: every configuration but that of `vkms_configfs`, where root can always
go on, has `CHECK_DEADLOCK FALSE`. That nobody waits for ever is checked as
liveness instead.

| Run | Instance | What it shows |
|---|---|---|
| `lease_store` | three display ids, of which two share an identity and a counter value collides, two leases, two owners, a connector range that saturates to two connectors, clock readings up to one tick old | connectors, identities, leases, generations and claims of the store |
| `driver_controller_races` | two clients and the reaper over one display id and the manifest, four requests | every monitor has a custodian, manifests agree, answers are still true, the store is implemented |
| `driver_controller_oneclient` | requests one after another beside the reaper, two failures, one Busy | a display at rest has its monitor and its profile, records are fenced; under fairness requests, retries and expiries end |
| `iddcx_backend` | two arrivals, three requests, two swapchains, two time-outs or failures | refusals have an owner, late arrivals are accounted for, swapchains are owned once |
| `monitor_arrival` | two arrivals of a retained display beside one its prefix covers and one it does not, one disturbance | mode lists are usable, scaling and profile come back, and go to no display without a common prefix |
| `frame_ring` | two processes, two leases, two cookies, two ring numbers, expiry, clock readings up to one tick old | open rings are accounted for, late duplicates fenced, rings of lost owners retired |
| `frame_ring_slots` | two workers, two rings of two slots, four frames, one fault | retired rings stay dark, visible frames are whole, the newest arrives |
| `broker_service` | two connectors, the command line and another client, two commands, two service commands, two faults | answered settings are kept and restored, a stop completes |
| `vkms_presentation` | three commits, two framebuffers, two waiters for one place, one reader, a history of two | counters, presentations, sleepers and traces are right |
| `vkms_shutdown` | three ways to close at once, two commits | what is released stays so, each way gets through |
| `vkms_configfs` | two planes, CRTCs and encoders, one connector, two modes, two addresses, a device of each kept open | the configuration is sound in any order of root's steps |
| `connector_broker` | two users and root, two instances, three requests, three jobs, two faults, two addresses, a device of each kept open | connected outputs have an owner, what was acknowledged stays, the pool recovers |

The properties of each run, each stated in words where it is defined:

| Run | Properties |
|---|---|
| `lease_store` | `TypeOK`, `ConnectorsSafe`, `IdentitiesUnique`, `LeasesMatch`, `GenerationFencesLifetime`, `ReservationHonoured`, `ClaimsRespected` |
| `driver_controller_races` | `EveryMonitorHasCustodian`, `ManifestsAgree`, `AnswersStillTrue`, `StoreSpec` |
| `driver_controller_oneclient` | `LiveDisplaysEstablished`, `RecordsFenced`, `RequestsServed`, `RetirementCompletes` |
| `iddcx_backend` | `RefusalsHaveAnOwner`, `ArrivalsAccountedFor`, `SwapchainsOwnedOnce` |
| `frame_ring` | `OpenRingsAccountedFor`, `LateDuplicatesFenced`, `LostOwnersRetired` |
| `vkms_presentation` | `CountersExact`, `PresentationsMatchFlips`, `NoSleeperLeftBehind`, `TraceRepliesComplete` |
| `vkms_shutdown` | `ReleasedForGood`, `ClosersFinish` |
| `vkms_configfs` | `ConfigurationSound` |
| `connector_broker` | `ConnectedHasOwner`, `AcknowledgedOutputsKept`, `PoolServiceRecovers`, `OnlyOwnersChangeOutputs` |
| `frame_ring_slots` | `VisibleFramesWhole`, `RetiredRingsStayDark`, `NewestFrameArrives` |
| `broker_service` | `AnsweredSettingsKept`, `SettingsRestored`, `StopCompletes` |
| `monitor_arrival` | `ListsUsable`, `SettingsRetained` |

*Why the bounds are enough for the cases to happen.* Two temporary connectors
for three displays give eviction, a full range and a quarantined half. Three
generations are a record, its replacement and the replacement's replacement.
The races of the controller need a copy, an erasure, a recreation and the use
of the copy: two workers, the reaper and four requests. It runs on one display
id because its threads meet only there and on a lease. The run with races has
no failures and the run with failures no second client: both at once are only in
the proofs. Two arrivals and any two faults are a late arrival and its
successor. One tick of lag is a request that read the clock before a reap and is
served after it. Two addresses are a pool and the next one made while a compositor
still has the first. The three first states of the settings have a new place beside
a newer foreign one, a value of the covered display only, and values of all three. Two ring numbers reach the replaced, the exhausted and the refused
ring; two slots and two workers reach a slot one worker reclaims from the other.
Three commits are one on show, one in its flip and one waiting. Two instances of
the broker are enough to meet at the lock and one more request comes after
both. Failures are one or two because each is one more independent disturbance.
The mutants confirm it: each is caught in its run.

*Fairness.* `DriverController`: the workers and the reaper are threads of the
operating system that run when they can (weak fairness for `Serve` and
`ReaperStep`). The reaper waits for a second at most and comes back whether or
not it got the lock (`DeviceState::reaper_loop`). The backend lock is handed from
thread to thread, so it is free only now and then: a thread that waits gets it
by strong fairness of `Call`, which the bounded hold times and the queue of the
timed mutex justify in practice; without it the code may answer Busy, which is
`TimeOut` and also ends the wait. `FrameRing`: only the reaper.
`FrameRingSlots`: the workers and the client, both of which loop on a wait that
ends. `BrokerService`: the threads of the service, and the command line once it
has the pipe (its waits for the pipe have time-outs); nobody has to connect, and
nothing is assumed of another client, which may hold the broker up for ever
(section 5, 11). `VkmsPresentation`: a commit that can go
on, the time stamp that follows a vblank, and a thread that closes; no vblank
need ever come, since the wait of a tail for its flip ends by itself. No
fairness is assumed for clients, ticks, failures or time-outs.

## 4. Proofs

The theorems hold for all constants that satisfy the named assumptions of the
modules. No theorem uses the bounds of the runs.

**The store** (`LeaseStore_proofs`; sizes are natural numbers, the least
timeout is positive and no larger than the default and the greatest one, the
identities are total, null values are not records). The inductive invariant
joins `TypeOK`, `ConnectorsExclusive`, `ConnectorsUncontested`,
`IdentitiesExclusive`, `LeasesCovered`, `ExpiryShared` and `GenerationsFresh`.
None of the middle ones is inductive alone. A create takes a reserved connector
without looking at the quarantine, so exclusiveness needs that no reservation
names a quarantined connector or one another live display has, which in turn
needs exclusiveness when an abandonment moves a connector into the quarantine.
Erasing a display erases its lease when it was the last one, and a new record
takes the expiry of its lease, which must exist with the displays that share it.
Lemmas on the search come first (the least element of a set of numbers is in
it, so `ConnectorFor` returns a free connector or the limit), then one lemma per
operation, the four that erase sharing `ErasePreserves`. `ClaimsRespected` is a
property of steps and needs the invariant for one thing only: a lease is covered
by its displays and shares its expiry with them, so what expires with a lease is
all of it.

**The controller** (`DriverController_proofs`; what the store asks of its
constants, the reaper is no worker, "no thread" no thread, requests are of the
six kinds, and `MaxTime <= MaxClockLag`: the store takes any clock reading, so a
request may wait for the locks for as long as the clock runs). The invariant is
about what a thread may hold. A thread with an answer of the backend
(`Answered`) holds the backend lock, since
`call_backend_without_controller_lock` keeps it until the controller lock is
back; so at most one thread has an answer, and it is still true when acted upon.
The displays follow the recorded manifest, or the one that such a thread is just
about to record. Copies that threads carry name displays and leases of the
store. One lemma per section of `driver_controller.cpp` shows that the thread
moves on, lets go of the lock and serves the store (`Served`);
`ReclaimLocked` is apart, because it is the one section that gives records
another lease. From this: every manifest agrees, no answer is stale, and each
step is an operation of the store or leaves it alone (`StoreSpec`), which is the
refinement that the run checks on a small instance.

The store is composed, not proved again. `StoreTheory == INSTANCE
LeaseStore_proofs` brings the step lemmas of the store over the controller's
variables. The controller's steps are steps of that store, so they keep its
invariant (`StoreInvariantKept`) and `StoreSafeUnderThreads` follows. With it,
`RecordsFenced` is shown section by section: a thread that marks or erases a
record compares the generation it departed with that of the record, and
generations are fresh.

Who answers for a monitor needs a second invariant, `Custody`: no monitor is of
a generation still to come (`MonitorsOld`); a create that is about to bring up a
display has a generation of its own (`ArrivalsOwn`), and no monitor of that
generation is up before it does (`AwaitedDown`); what a thread has departed is
not up under that generation again (`DepartedDown`). `MonitorsOrphanedOnlyByFailures` is then
a property of single steps and holds with any number of failures: a monitor
loses its custodian only in a step in which the cleanup of that very generation
failed, timed out or was given up. `EveryMonitorAnsweredFor` follows where
nothing has failed or timed out yet, which is also what the run with races
checks.

**The frame rings** (`FrameRing_proofs`). A ring may stay in the table after its
entry let go of it, and an entry may go while such a ring stays; what never
happens is that the gate of a ring is open and the entry does not name it. A
registration opens no gate but its own because ring numbers are fresh: they
count up, and 0 ends the counting.

Late duplicates are proved fenced for clock readings of any age: as long as a
display stays with its lease, its entry has the newest cookie, or the lease has
run out by the reading of the reap that dropped the entry (`Remembered`,
`Lapsed`). A request with a newer reading finds it so. One with an older reading
meets no entry, which is the exception the property states by `forgotten`
(section 5, 5), and the history starts with it. That a lease that has run out stays so, that an owner stays the owner and that a
departure is never taken back are lemmas about the steps of the store
(`NobodyRevived`, `OwnersKept`, `LifetimesFenced`), used here through an instance
of its proof module as in the controller.

**The frames** (`FrameRingSlots_proofs`; at least one ring, slot and worker). A
worker between the acquisition of a slot and its release holds the slot, so
pixels and metadata are of one frame except in the hands of a worker
(`WorkersHold`, `ClientHolds`). A worker that signals has the mutex of an open
gate, and one that drops has seen it closed (`LooksStillTrue`); gates do not
open again, and a ring that is not registered yet is closed and empty
(`RingsFresh`). `VisibleFramesWhole` is part of the invariant: a worker that
fails between two of its writes is still at `"failed"` and will close the gate.
Numbers of frames are below the count of the ring, so two workers of one ring
never give one number twice (`FramesNumberedApart`).

**The monitors** (`IddCxBackend_proofs`; the three callers differ and are not
workers of arrivals, "no monitor" is no record, "no processor" no processor).
`Marks`: the marks `arriving` and `departing` of the record have one owner each,
a worker of its arrival, or a thread that waits for the callbacks, or the
worker of a departure; and no owner has lost its record. `Reports`: by how far
its worker is, an arrival has not been reported, or reported in time, or the
controller has stopped waiting and the record is tagged. `Counts`: the two
counters are the numbers of outstanding workers, and an unhealthy flag has one
of them to wait for. `Callbacks`: while a swapchain callback runs its record
stays, a departure counts on none being left, and it finds the record emptied.
`Ownership`: every processor is in exactly one of the hands of a thread, the
record (active or retired), the callback, the deferred and the leaked ones, and
none once it is destroyed; `Processors`: who has completed the handshake, and so
who may still close the swapchain. Each action has one lemma for each of the
parts; the parts are kept apart by what an action leaves alone (`SameChains`,
`SameCallbacks`, ...).

**The commits** (`VkmsPresentation_proofs`; closing threads differ from the
client and from "no thread", limits are natural numbers, the waiters and
the readers are finite). `Locks`: only the last commit can have the modeset lock and the commit lock,
because the others were made before it. `Order`: a tail begins when the earlier
ones are over (the stall for an earlier commit). `Flips`: how far the flip of a
commit is and what timestamp it has; the slot of the vblank handler names a
commit that still waits. `Chain`: each tail that has still to publish shows the
frame of its own commit, or that of the tail before it, or what is presented;
so the last one ends where the state of the device is. `History`, `Traced`: the
published frames in order, and the last ones in the places of the trace, which
are apart because their remainders are. `Owners`, `Closing`: who closes; while a
closing thread has turned the outputs off and given the locks up (`Hushed`) no
commit is left that could show a frame, but for one that waits to be refused.
The counters are those of sets (`Counting`, `Waiting`, `Reading`), which each
action changes by one element at most.

**The configuration** (`ConnectorBroker_proofs`, first part; "no mode" is no mode, "no device"
no device, modes that can be asked for are between the rates that `ValidMode`
accepts, and one of the usual modes has the usual size). `Sound`: a
configuration is of the right type, its links are between items that exist, and
each connector has a mode; one lemma for each operation of `vkms_config.c`.
`Usable` and `Mirrors` are about the DRM device: it can be routed, which nothing
changes after `is_valid` has looked at its configuration, and it has a connector
for each directory of one, with its status and mode. The second stays true of an
enabled device because all that still happens to the configuration is that items
and links go (`Trims`), and that statuses and modes are written, to both; what
could break it, a new connector, needs a device that is not enabled. The links
of removed items go with them in `vkms_config.c`, so `Sound` does not need that
configfs refuses to remove the target of a link. That the defaults of the module
are valid is proved for the eight overlays there are.

**The display pool** (`ConnectorBroker_proofs`, second part; what `VkmsConfigfs` asks of its
constants, and: there is an output, outputs are the items of each kind, root is
none of the other users, "nobody" no user and "no instance" no instance). Three
kinds of processes meet. *Jobs*: what a build has left is the end of
`BuildSteps`, nothing is connected while one goes on, and what its second last
step has validated stays valid until the last one has enabled it (`Building`; a
start that keeps an old pool has validated it already, `Keeping`). So a start
that has not gone wrong hands over a whole pool, and everything else ends in an
inactive service, of which nobody is promised anything (`NoPromises`).
*Instances*: one with the lock of its output (`Locking`) is the only one to
change its lease and status, hence what it has seen stays true at each of its
places (`Seen`); a connect that fails after its status was written leaves the
output in `unconfirmed`, and nothing else leaves a connected one without an owner.
*Clients*: a call that waits does so for an instance of its own
user and output (`Calling`), so an answer is about what was asked.
`PromisesKept` says of an answer under way what `AcknowledgedOutputsKept` says
of one received. All sequences of requests, time-outs and kills are allowed.
Each instance's action has its lemma; they share `GoesOnKeeps` and `AnswerKeeps`, which
need of the action only that it left other outputs alone (`OthersUntouched`) and
kept the older promises (`OldPromisesKept`).

The pool extends `VkmsConfigfs`, and its proofs use those of that module: each
step of a job, and each write of an instance, is an operation of configfs, whose
lemmas were proved for one item at a time. `PoolConfigurationSound` is the
result: however jobs and instances are killed, configuration and device fit.

*Recovery* (`PoolAlwaysRecovers`). A job that no fault has hit takes its steps in
their order, so its next step tells what of the pool is there: `Making(p)` says of
every item and link that it is made exactly when its step of `BuildSteps` comes
before the `p`-th, `Removing(p)` that what is left has its step of `RemoveSteps`
still to come. The invariant (`Recovering`) is that a job without a fault has not
failed and is on such a course (`OnCourse`), and that all links are of an output to
itself (else a removal would leave some). A
removal may begin with anything an earlier job has left: that is `Removing(1)`.
Three things follow: each step at its place is granted by the kernel
(`RemovalGranted`, `BuildGranted`), brings the job to the next (`RemovingAdvances`,
`MakingAdvances`), and the last ones leave nothing, or a pool that passes its
validation and that of the kernel (`MadeComplete`, `WholeValid`). What the kernel asks is the
guard of the configfs operation, a definition of its own (`MayLinkPlane`,
`MayReleaseCrtc`, ...) of which `Granted` names the one for each step. The
hypothesis: a DRM device takes no more than 31 connectors (`MaxItems`; the
script builds 8). Clients may hold any number of earlier devices open. A start
that finds no address left waits (`Addresses` bounds the configurations in
memory, of which the code can make as many as fit); the theorem is about
failures, so that takes nothing from it.

**The settings of the broker** (`Settings_proofs`, first part; the named
assumption of the module: saved and foreign manifests are manifests, the special
values are none). `AnsweredSettingsKept` speaks of the moments between two
commands only, so the invariant follows the manifest through a command.
`RegistryAgrees`: a profile is saved before it is applied; from there on the
registry holds the new manifest, and what was promised is `original`, to which
the broker rolls back if the driver refuses. `DriverAgrees`: permanent displays
are applied before they are saved, so in between it is the driver that differs;
and no request that timed out is still under way (`late = {}`), or else it could
undo at any time what an answer promised. `Runs` and `Carries` keep a crash, a
stop and a restoration at the next start from finding anything but that.

**The arrivals** (`Settings_proofs`, second part; the named assumption of the
module). *Modes*: `ReferencesExact` is inductive only with `HoldersAgree` (who
has a reference on an entry has asked for the mode in it, hence a second monitor
of the EDID can join and no departure uncovers another mode) and `Records` (who
arrives or is departed by a thread owns the record of its display), because a
departing monitor gives up its record and its reference in two steps. That the
lists themselves are well formed is a matter of folds over data: `MCMonitorArrival`
has it as an assumption (`ListsWellFormed`) that TLC evaluates, and no theorem
needs it.
*Settings*: what the driver has in hand for a display (`Given`: read by an
arrival, kept, or in its work item) is a value chosen for a display of a common
prefix (`Kin`), and a display whose user chose a scaling has a place with one ever
since, unless he put it back (`ChoicesKept`). A display of the arriving one's prefix is kin to whatever the
prefix finds, and the driver writes to places of the prefix only, so values stay
among kin (`KinOfCovered`, `MatchingCovered`). Of `Covers` it is
assumed what prefixes of strings give: a key begins with the prefix of its own
display, prefixes that begin one another do so transitively, and of two that begin
one key one begins the other. `LastAttempt` is why the settings come back: the
last attempt begins with the monitor in its place; from then on
the place is settled, or still to be looked at, or about to be written; and a
profile is moved before the item ends.

| Theorem | Statement |
|---|---|
| `StoreInvariant` | `LeaseStore!Spec => []IndInv` |
| `TypeCorrect` | `... => []TypeOK` |
| `ConnectorsNeverShared` | `... => []ConnectorsSafe` |
| `IdentitiesNeverShared` | `... => []IdentitiesUnique` |
| `LeasesMatchDisplays` | `... => []LeasesMatch` |
| `GenerationFence` | `... => GenerationFencesLifetime` |
| `ReservationsHonoured` | `... => ReservationHonoured` |
| `ClaimsAlwaysRespected` | `... => ClaimsRespected` |
| `ControllerInvariant` | `DriverController!Spec => []IndInv` |
| `ManifestsAlwaysAgree` | `... => []ManifestsAgree` |
| `AnswersAlwaysTrue` | `... => AnswersStillTrue` |
| `StoreImplemented` | `... => StoreSpec` |
| `StoreSafeUnderThreads` | `... => []` of the store's `TypeOK`, `ConnectorsSafe`, `IdentitiesUnique` and `LeasesMatch` |
| `RecordsAlwaysFenced` | `... => RecordsFenced` |
| `MonitorsOrphanedOnlyByFailures` | a monitor loses its custodian only in a step in which its cleanup fails |
| `EveryMonitorAnsweredFor` | `... => [](failures = 0 /\ busy = 0 => EveryMonitorHasCustodian)` |
| `FrameRingInvariant` | `FrameRing!Spec => []IndInv` |
| `OpenRingsAlwaysAccountedFor` | `... => []OpenRingsAccountedFor` |
| `LateDuplicatesAlwaysFenced` | `... => LateDuplicatesFenced` |
| `SlotsInvariant` | `FrameRingSlots!Spec => []IndInv` |
| `FramesAlwaysWhole` | `... => []VisibleFramesWhole` |
| `RetiredRingsDark` | `... => RetiredRingsStayDark` |
| `FramesNumberedApart` | `... => []SequencesDistinct` |
| `BackendInvariant` | `IddCxBackend!Spec => []Inv` |
| `RefusalsAlwaysOwned` | `... => []RefusalsHaveAnOwner` |
| `ArrivalsAlwaysAccountedFor` | `... => []ArrivalsAccountedFor` |
| `SwapchainsAlwaysOwnedOnce` | `... => []SwapchainsOwnedOnce` |
| `PresentationInvariant` | `VkmsPresentation!Spec => []Inv` |
| `CountersAlwaysExact` | `... => []CountersExact` |
| `PresentationsAlwaysMatch` | `... => []PresentationsMatchFlips` |
| `SleepersAlwaysWoken` | `... => []NoSleeperLeftBehind` |
| `TraceAlwaysComplete` | `... => []TraceRepliesComplete` |
| `ReleasedAlwaysForGood` | `... => []ReleasedForGood` |
| `ConfigurationInvariant` | `VkmsConfigfs!ConfigfsSpec => []Inv` |
| `ConfigurationAlwaysSound` | `... => []ConfigurationSound` |
| `BrokerInvariant` | `ConnectorBroker!Spec => []IInv` |
| `OutputsAlwaysOwned` | `... => []ConnectedHasOwner` |
| `AcknowledgedAlwaysKept` | `... => []AcknowledgedOutputsKept` |
| `OnlyOwnersEverChange` | `... => OnlyOwnersChangeOutputs` |
| `ServiceAlwaysWhole` | `... => [](InService => ValidTopology /\ device.enabled)` |
| `PoolConfigurationSound` | `... => []ConfigurationSound` |
| `PoolAlwaysRecovers` | with `OutputCount <= MaxItems`, `... => []PoolServiceRecovers` |
| `SettingsInvariant` | `BrokerService!Spec => []BrokerInv` |
| `SettingsAlwaysKept` | `... => []AnsweredSettingsKept` |
| `ModesInvariant` | `MonitorArrival!ArrivalSpec => []TypesInv` |
| `ListsAlwaysUsable` | `... => []ListsUsable` |
| `SettingsInvariantOfArrivals` | `... => [](TypesInv /\ SettingsInv)` |
| `SettingsAlwaysRetained` | `... => []SettingsRetained` |

Only model-checked:

* `LiveDisplaysEstablished`, which is stated of requests that are served one
  after another and claims nothing of requests that overlap (section 5, 1 to 4, is
  what two workers can do); it would need the whole history of the worker as an
  invariant;
* liveness under fairness, for which the prover has no rules;
* `SettingsRestored` and `StopCompletes`, for the same reason;
* that the mode lists are well formed (`ListsWellFormed` in `MCMonitorArrival`),
  which needs induction over the list of default modes.

No module has a RECURSIVE operator.

## 5. Where the code and its comments part

Met while modelling, or where the code does something that its comments do not
mention. The models contain each of them. The properties are stated so that they
hold of the code: each of these is an exception that a property names, or, as said
there, lies outside of what the properties claim.

1. *An unfenced departure.* A create on a pending display departs whatever is up
   under the id (DC 113). While it waits for the backend the reaper may erase the
   record and another client create the display again; the monitor of that
   healthy record is retracted. The comment speaks of the stale monitor only.
2. *Self-heal of an arrival* (DM 3690, comment 3662-3664). An arrival retires the
   resident monitor if its generation differs, also when the resident is the
   newer one.
3. *Reclaim against removal* (DC 366, comment 321-323). A removal copies the
   record, a reclaim rotates the lease, the departure goes by generation only
   and succeeds, and the copy is no longer current: a live record without a
   monitor until its lease ends.
4. *Identity of a successor* (DC 219, `src/README.md` 382). A create that finds
   itself superseded removes the saved profile of the display id, which by then
   is its successor's. `LiveDisplaysEstablished` claims nothing of two workers.
5. *A tombstone reaped too early* (`frame_ring_server.cpp` 137, comment 44-45).
   An entry that is expired at one clock reading is dropped; a feed with an
   older reading, served later, revives the lease; an old cookie then gets a
   ring. So does a registration with an older reading (the clock is read at
   DM 5223, before a wait for the lock of up to 30 s). `frame_ring` has such
   readings, and `LateDuplicatesFenced` names the exception (`forgotten`).
6. *A processor that does not stop* (DM 4235, comment 4095-4096). The previous
   processor is handed to a detached thread and the callback goes on.
7. *Notification after the unlock* (DM 3532, comment 4849-4850). A departure
   worker wakes its waiter after it gave the lock up, when the state may be
   gone.
8. *A stop that nobody sees* (`src/tools/virtualdisplay_broker.cpp` 922-925).
   Between the look at the flag and the creation of the pipe there is no pipe
   for the handler to open, and the broker waits for the next client, who ends
   it. `StopCompletes` names it (handler `"missed"`).
9. *Retention against the user* (DM 654-661, comment 647-653). The work item
   writes its value again into a place that the user has just put back to the
   recommended scaling; and between its look and its write a choice of the user
   is overwritten. `SettingsRetained` promises nothing of the scaling of a display
   whose user has put it back once (`Reset`).
10. *One prefix for two displays* (DM 498-500, 536, 631). The settings keys of a
   display are found by `SDD`, the product code and the decimal serial number,
   with nothing after it. Where two displays have the product code in common and
   the serial number of one begins with that of the other, the first reads and
   writes the scaling of the second. The run has such a pair; `SettingsRetained`
   lets values pass among displays of a common prefix only (`Kin`).
11. *A client that does not read its answer* (`src/tools/virtualdisplay_broker.cpp`
    846, 960). `FlushFileBuffers` waits for it without a limit and without a look
    at the stop. `StopCompletes` names it (`HeldByClient`).
12. *A query before the restoration* (`src/tools/virtualdisplay_broker.cpp` 850-857).
    Applying the saved manifest is tried twenty times, the query before it once;
    if it fails nothing is restored until the next start. `SettingsRestored` names
    it (`"unqueried"`).
13. *Outputs without an owner* (`src/linux/packaging/vibeshine-vkms` 798-803 and the
    unit's run directory). A connect whose status was written but could not be read
    back gives up its lease: the output is connected and nobody but root can
    disconnect it. So is an output of a pool that a failed stop left enabled, since
    systemd removes the leases. `ConnectedHasOwner` names both (`unconfirmed`,
    `retained`).
14. *A late request of the broker* (`windows_control_client.cpp` 199). A request
    that timed out may still take effect and undo what a later answer promised.
    `AnsweredSettingsKept` claims nothing of the driver meanwhile (`late`).

## 6. Not modelled

* The cursor processor: `setup_hardware_cursor` (DM 3391-3416) returns without
  creating one, on purpose.
* Creation of IddCx and WDF objects, power transitions, swapchain callbacks
  inside `IddCxMonitorArrival`.
* The bytes of EDIDs, of the profile blob and of the control structures, HDR
  numerics, identity hashes, buffer size checks: pure functions, with unit tests.
* In the kernel module: the composer and its CRC worker, several CRTCs at once,
  asynchronous cursor updates, pixel formats and tables, the timers of vblanks
  and variable refresh, the ten-second stall limits, a failure of the shutdown's
  own commit, the writeback connector (it cannot be configured), `MaxItems` = 31
  (never reached by the instance).
* In the pool: entries of configfs that somebody else made.
* The session helper, installation of the driver and of the Vulkan layer, the
  probe and the stress tool; they are sequential clients of what is modelled.
* The KWin interposer and the Vulkan layer keep no state worth a model.
