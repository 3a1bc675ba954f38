----------------------------- MODULE FrameRingSlots -----------------------------
(***************************************************************************)
(* The data path of a frame ring (open_frame_ring_for_producer,            *)
(* publish_frame_to_ring and SwapChainProcessor in                         *)
(* src/driver/windows_driver/driver_main.cpp, the publication gate in      *)
(* frame_ring_lifetime.h, the importer in windows_frame_importer.cpp): how *)
(* the frames of one display reach the client that registered the ring.    *)
(*                                                                         *)
(* A swapchain worker copies each surface into the first slot whose keyed  *)
(* mutex it gets without waiting, stamps the slot's metadata, hands the    *)
(* slot over under key 1 and signals the ring's event.  The client takes   *)
(* slots under key 1 and returns them under key 0; it is modelled from     *)
(* docs/frame-transport.md.  When the swapchain is reassigned, the old     *)
(* worker still runs while the new one publishes to the same ring.         *)
(* Retirement (a clear, a replacement, a lease that ended, a worker that   *)
(* found another mode or failed) closes the gate of the ring under a mutex *)
(* that the workers hold only while they publish or give back a slot.      *)
(*                                                                         *)
(* ReleasesUnchecked, PublishesBeforeStamping and SignalsFreshSlotsOnly    *)
(* are faulty variants of the definition that follows each of them; no     *)
(* specification uses them.                                                *)
(***************************************************************************)
EXTENDS Integers

CONSTANTS
    MaxRing,        \* bound on the rings that are registered
    SlotCount,      \* slots of a ring: 4 in the driver
    MaxSequence,    \* largest sequence number: 2^64 - 2
    Modes, NoMode,  \* surface modes; NoMode is one a ring cannot carry
    WorkerCount,    \* bound on the swapchains the system assigns
    MaxFrames,      \* bound on the surfaces the system hands out
    MaxFaults       \* bound on the disturbances below

VARIABLES
    rings,          \* of each ring its gate, sequence, event and mode
    slots,          \* of each ring its slots
    registered,     \* the ring a snapshot of the display finds, or 0
    nextRing,
    workers,
    assigned,       \* the worker of the display's present swapchain, or 0
    frames,         \* surfaces handed out
    client,
    faults          \* failed calls, odd surfaces, missed snapshots, retirements
                    \* by the control plane and deaths of the client

vars == <<rings, slots, registered, nextRing, workers, assigned, frames, client, faults>>

ASSUME BoundsAssumption ==
    /\ MaxRing \in Nat \ {0} /\ SlotCount \in Nat \ {0} /\ MaxSequence \in Nat
    /\ WorkerCount \in Nat \ {0} /\ MaxFrames \in Nat /\ MaxFaults \in Nat
    /\ NoMode \notin Modes

Rings == 1..MaxRing
Slots == 1..SlotCount
Workers == 1..WorkerCount

\* holder is 0, a worker, or one of the two below.
ByClient == WorkerCount + 1
Abandoned == WorkerCount + 2

EmptySlot == [key |-> 0, holder |-> 0, pixels |-> 0, frame |-> 0, sequence |-> 0]

\* The import sets the event once to see that it is one.
NewRing(m) == [open |-> TRUE, lock |-> 0, sequence |-> 0, event |-> TRUE, mode |-> m]

UnusedRing == [open |-> FALSE, lock |-> 0, sequence |-> 0, event |-> FALSE, mode |-> NoMode]

\* ring is the one whose textures the worker has open; surface is the mode it
\* last recorded for the clients.
NoWorker == [at |-> "absent", stop |-> FALSE, ring |-> 0, slot |-> 0, key |-> 0,
             frame |-> 0, mode |-> NoMode, surface |-> NoMode]

NoClient == [ring |-> 0, last |-> 0, slot |-> 0, reading |-> FALSE]

Init ==
    /\ rings = [r \in Rings |-> UnusedRing]
    /\ slots = [r \in Rings |-> [i \in Slots |-> EmptySlot]]
    /\ registered = 0
    /\ nextRing = 1
    /\ workers = [w \in Workers |-> NoWorker]
    /\ assigned = 0
    /\ frames = 0
    /\ client = NoClient
    /\ faults = 0

-----------------------------------------------------------------------------
(* The gate and the slots.                                                 *)

CanPublish(r) == r # 0 /\ rings[r].open

Unlocked(r) == r \notin {q \in Rings : rings[q].lock # 0}

\* FrameRingPublication::disable, by whoever finds the mutex free.
Closed(r) == IF r = 0 THEN rings ELSE [rings EXCEPT ![r].open = FALSE]

\* The slot a worker holds goes back under a key.
GivenBack(w, key) ==
    [slots EXCEPT ![workers[w].ring][workers[w].slot] = [@ EXCEPT !.key = key, !.holder = 0]]

Goes(w, at) == workers' = [workers EXCEPT ![w].at = at]

\* The worker has done with its frame; "waiting" includes telling IddCx so.
Leaves(w, at) ==
    workers' = [workers EXCEPT ![w] =
        [@ EXCEPT !.at = at, !.slot = 0, !.key = 0, !.frame = 0, !.mode = NoMode]]

Fault == faults < MaxFaults /\ faults' = faults + 1

-----------------------------------------------------------------------------
(* Swapchain workers.                                                      *)

\* The operating system assigns a swapchain: the worker before is asked to
\* stop, and not waited for.
Assign ==
    /\ assigned < WorkerCount
    /\ assigned' = assigned + 1
    /\ workers' = [w \in Workers |->
           CASE w = assigned -> [workers[w] EXCEPT !.stop = TRUE]
             [] w = assigned + 1 -> [NoWorker EXCEPT !.at = "waiting"]
             [] OTHER -> workers[w]]
    /\ UNCHANGED <<rings, slots, registered, nextRing, frames, client, faults>>

\* A surface arrives; the mode recorded for the one before is cleared.
AcquireSurface(w, m) ==
    /\ workers[w].at = "waiting"
    /\ ~workers[w].stop
    /\ frames < MaxFrames
    /\ frames' = frames + 1
    /\ workers' = [workers EXCEPT ![w] =
           [@ EXCEPT !.at = "acquired", !.frame = frames + 1, !.mode = m, !.surface = NoMode]]
    /\ UNCHANGED <<rings, slots, registered, nextRing, assigned, client>>

\* The mode is recorded and the provider asked for a snapshot, which finds ring
\* r or none; without one the frame is dropped and the textures let go.
TakeSnapshot(w, found) ==
    LET r == IF CanPublish(found) THEN found ELSE 0 IN
     /\ workers[w].at = "acquired"
        /\ workers' = [workers EXCEPT ![w] =
               [@ EXCEPT !.surface = workers[w].mode, !.ring = r, !.slot = 1,
                         !.at = IF r = 0 THEN "waiting"
                                ELSE IF rings[r].mode = workers[w].mode THEN "scanning"
                                ELSE "mismatched"]]
        /\ UNCHANGED <<rings, slots, registered, nextRing, assigned, frames, client>>

\* A ring that is new to the worker is opened on its device.
SnapshotFound(w) == TakeSnapshot(w, registered) /\ UNCHANGED faults

\* The provider only tries the controller lock.
SnapshotMissed(w) == Fault /\ CanPublish(registered) /\ TakeSnapshot(w, 0)

OpeningFails(w) ==
    /\ Fault
    /\ CanPublish(registered)
    /\ workers[w].ring # registered
    /\ TakeSnapshot(w, 0)

\* Key 0, and where that times out key 1; a slot that is held is passed over,
\* and with the last one the frame is dropped.
AcquireSlot(w) ==
    LET r == workers[w].ring
        i == workers[w].slot
        s == slots[r][i]
    IN  /\ workers[w].at = "scanning"
        /\ IF ~CanPublish(r) THEN Leaves(w, "waiting") /\ UNCHANGED slots
           ELSE IF s.holder = Abandoned THEN Leaves(w, "failed") /\ UNCHANGED slots
           ELSE IF s.holder = 0
           THEN /\ workers' = [workers EXCEPT ![w] = [@ EXCEPT !.at = "copying", !.key = s.key]]
                /\ slots' = [slots EXCEPT ![r][i].holder = w]
           ELSE /\ IF i = SlotCount THEN Leaves(w, "waiting")
                   ELSE workers' = [workers EXCEPT ![w].slot = i + 1]
                /\ UNCHANGED slots
        /\ UNCHANGED <<rings, registered, nextRing, assigned, frames, client, faults>>

Copied(w) == [slots EXCEPT ![workers[w].ring][workers[w].slot].pixels = workers[w].frame]

Copy(w) ==
    /\ workers[w].at = "copying"
    /\ IF CanPublish(workers[w].ring)
       THEN Goes(w, "publishing") /\ slots' = Copied(w)
       ELSE Goes(w, "dropping") /\ UNCHANGED slots
    /\ UNCHANGED <<rings, registered, nextRing, assigned, frames, client, faults>>

\* The clock cannot be read, or the device is lost once the copy is queued.
CopyFails(w) ==
    /\ Fault
    /\ workers[w].at = "copying"
    /\ CanPublish(workers[w].ring)
    /\ Goes(w, "releasing")
    /\ UNCHANGED slots \/ slots' = Copied(w)
    /\ UNCHANGED <<rings, registered, nextRing, assigned, frames, client>>

ReleasesUnchecked(w) ==
    /\ workers[w].at \in {"dropping", "releasing"}
    /\ Unlocked(workers[w].ring)
    /\ slots' = GivenBack(w, workers[w].key)
    /\ Leaves(w, IF workers[w].at = "dropping" THEN "waiting" ELSE "failed")
    /\ UNCHANGED <<rings, registered, nextRing, assigned, frames, client, faults>>

\* release_unpublished_slot: under the key it had, or under key 0 when the
\* ring is retired.
Releases(w) ==
    /\ workers[w].at \in {"dropping", "releasing"}
    /\ Unlocked(workers[w].ring)
    /\ slots' = GivenBack(w, IF CanPublish(workers[w].ring) THEN workers[w].key ELSE 0)
    /\ Leaves(w, IF workers[w].at = "dropping" THEN "waiting" ELSE "failed")
    /\ UNCHANGED <<rings, registered, nextRing, assigned, frames, client, faults>>

\* The mutex of the gate is taken and the gate looked at again.
PublishGivesUp(w) ==
    LET r == workers[w].ring IN
    /\ workers[w].at = "publishing"
    /\ Unlocked(r)
    /\ \/ /\ ~CanPublish(r)
          /\ slots' = GivenBack(w, 0)
          /\ Leaves(w, "waiting")
       \/ /\ CanPublish(r)
          /\ rings[r].sequence >= MaxSequence
          /\ slots' = GivenBack(w, workers[w].key)
          /\ Leaves(w, "failed")
    /\ UNCHANGED <<rings, registered, nextRing, assigned, frames, client, faults>>

PublishesBeforeStamping(w) ==
    LET r == workers[w].ring IN
    /\ workers[w].at = "publishing"
    /\ Unlocked(r) /\ CanPublish(r)
    /\ rings[r].sequence < MaxSequence
    /\ rings' = [rings EXCEPT ![r].sequence = @ + 1, ![r].lock = w]
    /\ slots' = GivenBack(w, 1)
    /\ Goes(w, "signalling")
    /\ UNCHANGED <<registered, nextRing, assigned, frames, client, faults>>

\* The next sequence, the metadata, and key 1; the event comes after.
Publishes(w) ==
    LET r == workers[w].ring IN
    /\ workers[w].at = "publishing"
    /\ Unlocked(r) /\ CanPublish(r)
    /\ rings[r].sequence < MaxSequence
    /\ rings' = [rings EXCEPT ![r].sequence = @ + 1, ![r].lock = w]
    /\ slots' = [slots EXCEPT ![r][workers[w].slot] =
           [@ EXCEPT !.key = 1, !.holder = 0, !.frame = workers[w].frame,
                     !.sequence = rings[r].sequence + 1]]
    /\ Goes(w, "signalling")
    /\ UNCHANGED <<registered, nextRing, assigned, frames, client, faults>>

\* The hand-over under key 1 fails: the slot is lost to both sides.
PublishFails(w) ==
    LET r == workers[w].ring IN
    /\ Fault
    /\ workers[w].at = "publishing"
    /\ Unlocked(r) /\ CanPublish(r)
    /\ rings[r].sequence < MaxSequence
    /\ rings' = [rings EXCEPT ![r].sequence = @ + 1]
    /\ slots' = [slots EXCEPT ![r][workers[w].slot].holder = Abandoned]
    /\ Leaves(w, "failed")
    /\ UNCHANGED <<registered, nextRing, assigned, frames, client>>

SignalsFreshSlotsOnly(w) ==
    /\ workers[w].at = "signalling"
    /\ LET r == workers[w].ring IN
       rings' = [rings EXCEPT ![r].event = @ \/ workers[w].key = 0, ![r].lock = 0]
    /\ Leaves(w, "waiting")
    /\ UNCHANGED <<slots, registered, nextRing, assigned, frames, client, faults>>

Signals(w) ==
    /\ workers[w].at = "signalling"
    /\ rings' = [rings EXCEPT ![workers[w].ring] = [@ EXCEPT !.event = TRUE, !.lock = 0]]
    /\ Leaves(w, "waiting")
    /\ UNCHANGED <<slots, registered, nextRing, assigned, frames, client, faults>>

\* ModeMismatch keeps the worker, Failed ends it; both retire the ring.
RetiresOwnRing(w) ==
    /\ workers[w].at \in {"mismatched", "failed"}
    /\ Unlocked(workers[w].ring)
    /\ rings' = Closed(workers[w].ring)
    /\ workers' = [workers EXCEPT ![w] =
           [@ EXCEPT !.ring = 0, !.slot = 0, !.frame = 0, !.mode = NoMode,
                     !.at = IF workers[w].at = "mismatched" THEN "waiting" ELSE "ended"]]
    /\ UNCHANGED <<slots, registered, nextRing, assigned, frames, client, faults>>

\* A call of IddCx fails, for the next surface or to finish the last: the access
\* was lost, or the device.
FrameFails(w) ==
    /\ Fault
    /\ workers[w].at = "waiting"
    /\ Leaves(w, "ended")
    /\ UNCHANGED <<rings, slots, registered, nextRing, assigned, frames, client>>

Stops(w) ==
    /\ workers[w].at = "waiting"
    /\ workers[w].stop
    /\ Leaves(w, "ended")
    /\ UNCHANGED <<rings, slots, registered, nextRing, assigned, frames, client, faults>>

\* reset_devices, by the owner of a worker that has ended: the ring the worker
\* published to is retired, whoever else publishes to it.
ResetDevices(w) ==
    /\ workers[w].at = "ended"
    /\ workers[w].stop
    /\ Unlocked(workers[w].ring)
    /\ rings' = Closed(workers[w].ring)
    /\ workers' = [workers EXCEPT ![w] = [NoWorker EXCEPT !.at = "destroyed", !.stop = TRUE]]
    /\ UNCHANGED <<slots, registered, nextRing, assigned, frames, client, faults>>

-----------------------------------------------------------------------------
(* The control plane, under its lock.                                      *)

\* frame_transport_target: what a client is told, and what its textures are
\* compared with again when it registers them.
Target == IF assigned = 0 THEN NoMode ELSE workers[assigned].surface

\* The textures have the target's mode; the ring registered before is retired.
RegisterRing ==
    /\ client.ring = 0
    /\ Target # NoMode
    /\ nextRing <= MaxRing
    /\ Unlocked(registered)
    /\ rings' = [Closed(registered) EXCEPT ![nextRing] = NewRing(Target)]
    /\ registered' = nextRing
    /\ nextRing' = nextRing + 1
    /\ client' = [NoClient EXCEPT !.ring = nextRing]
    /\ UNCHANGED <<slots, workers, assigned, frames, faults>>

\* A clear, the end of the lease, or the reaper that drops a ring.
RetireRing ==
    /\ Fault
    /\ registered # 0
    /\ Unlocked(registered)
    /\ rings' = Closed(registered)
    /\ registered' = 0
    /\ UNCHANGED <<slots, nextRing, workers, assigned, frames, client>>

-----------------------------------------------------------------------------
(* The client.                                                             *)

NextSlot == [client EXCEPT !.slot = IF @ = SlotCount THEN 0 ELSE @ + 1, !.reading = FALSE]

\* Without frames its probe gives the ring up, to register another.
ClientReopens ==
    /\ client.ring # 0
    /\ client.slot = 0
    /\ ~CanPublish(client.ring)
    /\ client' = NoClient
    /\ UNCHANGED <<rings, slots, registered, nextRing, workers, assigned, frames, faults>>

ClientWakes ==
    /\ client.ring # 0
    /\ client.slot = 0
    /\ rings[client.ring].event
    /\ rings' = [rings EXCEPT ![client.ring].event = FALSE]
    /\ client' = [client EXCEPT !.slot = 1]
    /\ UNCHANGED <<slots, registered, nextRing, workers, assigned, frames, faults>>

\* A slot under key 1 with a newer sequence is read; one with an older is
\* returned; the others are passed over.
ClientTries ==
    /\ client.slot # 0
    /\ ~client.reading
    /\ LET s == slots[client.ring][client.slot] IN
       IF s.holder = 0 /\ s.key = 1
       THEN IF s.sequence > client.last
            THEN /\ client' = [client EXCEPT !.reading = TRUE]
                 /\ slots' = [slots EXCEPT ![client.ring][client.slot].holder = ByClient]
            ELSE /\ client' = NextSlot
                 /\ slots' = [slots EXCEPT ![client.ring][client.slot].key = 0]
       ELSE client' = NextSlot /\ UNCHANGED slots
    /\ UNCHANGED <<rings, registered, nextRing, workers, assigned, frames, faults>>

ClientReads ==
    /\ client.reading
    /\ client' = [NextSlot EXCEPT !.last = slots[client.ring][client.slot].sequence]
    /\ slots' = [slots EXCEPT ![client.ring][client.slot] = [@ EXCEPT !.key = 0, !.holder = 0]]
    /\ UNCHANGED <<rings, registered, nextRing, workers, assigned, frames, faults>>

\* A slot it held is abandoned.
ClientDies ==
    /\ Fault
    /\ client # NoClient
    /\ client' = NoClient
    /\ slots' = IF client.reading
                THEN [slots EXCEPT ![client.ring][client.slot].holder = Abandoned] ELSE slots
    /\ UNCHANGED <<rings, registered, nextRing, workers, assigned, frames>>

-----------------------------------------------------------------------------

Surface(w) ==
    \/ \E m \in Modes : AcquireSurface(w, m) /\ UNCHANGED faults
    \/ Fault /\ AcquireSurface(w, NoMode)

\* What a worker does once it has a surface, and its exit.
Works(w) ==
    \/ SnapshotFound(w) \/ AcquireSlot(w) \/ Copy(w) \/ Releases(w)
    \/ PublishGivesUp(w) \/ Publishes(w) \/ Signals(w) \/ RetiresOwnRing(w) \/ Stops(w) \/ ResetDevices(w)

WorkerFaults(w) ==
    SnapshotMissed(w) \/ OpeningFails(w) \/ CopyFails(w) \/ PublishFails(w) \/ FrameFails(w)

Client == ClientWakes \/ ClientTries \/ ClientReads

Next ==
    \/ Assign
    \/ \E w \in Workers : Surface(w) \/ Works(w) \/ WorkerFaults(w)
    \/ RegisterRing \/ RetireRing
    \/ Client \/ ClientReopens \/ ClientDies

Fairness == (\A w \in Workers : WF_vars(Works(w))) /\ WF_vars(Client)

Spec == Init /\ [][Next]_vars /\ Fairness

-----------------------------------------------------------------------------

\* A client may take slot i of ring r, or has.
Visible(s, r, i) == s[r][i].holder \in {0, ByClient} /\ s[r][i].key = 1

\* Once a ring is retired no frame appears in it and its event is not
\* signalled, whatever its workers had under way: the promise of
\* FrameRingPublication, kept by the second look of publish_frame_to_ring and by
\* release_unpublished_slot.
RetiredRingsStayDark ==
    [][\A r \in Rings : ~rings[r].open /\ ~rings'[r].open =>
           /\ rings'[r].event => rings[r].event
           /\ \A i \in Slots : Visible(slots', r, i) => Visible(slots, r, i)]_vars

\* A frame a client can take has the pixels its metadata was written for, though
\* two workers share the slots and take back frames that were not consumed.  The
\* exception is a frame whose copy failed, and then the worker that failed is
\* about to retire the ring, or has.
VisibleFramesWhole ==
    \A r \in Rings, i \in Slots :
        Visible(slots, r, i) /\ slots[r][i].pixels # slots[r][i].frame =>
            ~rings[r].open \/ \E w \in Workers : workers[w].ring = r /\ workers[w].at = "failed"

\* The newest frame of a ring reaches the client, or a newer one does, unless
\* the ring is retired or the client gone: no hint of the event is lost, though
\* a slot the client passes over may be one that a worker is about to fill.
NewestFrameArrives ==
    \A n \in 1..MaxSequence :
        (client.ring # 0 /\ CanPublish(client.ring) /\ rings[client.ring].sequence = n) ~>
            (client.ring = 0 \/ ~CanPublish(client.ring) \/ client.last >= n)
=============================================================================
