--------------------------- MODULE VkmsPresentation ---------------------------
(***************************************************************************)
(* One output of the Linux virtual display driver (vibeshine-drm): how an  *)
(* atomic commit becomes a presentation that capture clients see, and how  *)
(* the driver lets go of every framebuffer before the physical GPUs go     *)
(* down.                                                                   *)
(*                                                                         *)
(* The DRM core is external and modelled from how the driver uses it: an   *)
(* ioctl holds the modeset lock, drm_atomic_helper_commit swaps the state  *)
(* and runs the commit tail in its own thread or in a worker, tails run in *)
(* the order of the commits, and a tail waits for its flip, but not for    *)
(* ever.  Its ten-second limit on the wait for an earlier tail is left     *)
(* out: no tail passes an earlier one.                                     *)
(*                                                                         *)
(* A definition named for what is wrong with it is a faulty variant of the *)
(* one that follows: no specification uses it.                             *)
(***************************************************************************)
EXTENDS Integers, Sequences, FiniteSets, FiniteSetsExt

CONSTANTS
    Framebuffers, NoFramebuffer,
    Client,             \* the threads of compositors
    Closers,            \* threads that close the device: that of the reboot notifier,
    Destroyer,          \* the one that disables the device in configfs,
    Quiescers,          \* those that write to the quiesce attribute
    NoThread,           \* nobody: an unlocked mutex
    Waiters,            \* threads that wait for a presentation
    Readers,            \* threads that export a frame
    MaxWaiters,         \* VIBESHINE_DRM_PRESENT_MAX_WAITERS
    HistorySize,        \* VIBESHINE_DRM_TRACE_HISTORY_SIZE
    MaxEvents,          \* VIBESHINE_DRM_TRACE_MAX_EVENTS
    MaxCommits,         \* bound on the commits of clients
    MaxTime             \* bound on the clock, which vblanks advance

ASSUME ThreadsAssumption ==
    /\ Quiescers \subseteq Closers \ {Destroyer}
    /\ NoThread \notin Closers \cup {Client} /\ Client \notin Closers
ASSUME LimitsAssumption ==
    /\ MaxWaiters \in Nat /\ HistorySize \in Nat \ {0} /\ MaxEvents \in Nat \ {0}
    /\ MaxCommits \in Nat /\ MaxTime \in Nat
ASSUME FramebufferAssumption == NoFramebuffer \notin Framebuffers
ASSUME ClientsAssumption == IsFiniteSet(Waiters) /\ IsFiniteSet(Readers)

VARIABLES
    kms,                \* software state: is the CRTC on, what is on its plane
    commits,            \* the commits in the order of their modeset lock
    modesetLock, commitLock, shutdownLock,
    accepting, owner, unplugged,    \* accepting_commits, shutdown_owner, unplugged
    unplugs,            \* history: calls of drm_dev_unplug
    alive,              \* has the device not been released
    closers,            \* where each closing thread is
    clock,
    vblankOn,           \* are vblanks delivered
    inHandler,          \* is the vblank handler between its event and its stamp
    slot,               \* pending_present_state: number of a commit, or 0
    pending,            \* pending_commits
    sequence, timestamp, presentFb, trace,
    waiterCount,        \* present_waiters
    references,         \* references the driver has on each framebuffer
    waiters, readers,
    published           \* history: what each presentation showed, and when

locks == <<modesetLock, commitLock>>
closing == <<shutdownLock, accepting, owner, unplugged, unplugs, alive, closers>>
flips == <<clock, vblankOn, inHandler, slot>>
presentation == <<sequence, timestamp, presentFb, trace, published>>
counters == <<pending, references>>
clients == <<waiterCount, waiters, readers>>
vars == <<kms, commits, locks, closing, flips, presentation, counters, clients>>

\* What a commit changes: the plane's framebuffer, perhaps with a fence or
\* damage that announces new pixels in the same one; a property of the
\* connector or CRTC; or it turns the CRTC off.
Changes ==
         [kind : {"flip"}, fb : Framebuffers, content : BOOLEAN]
    \cup [kind : {"property", "off"}, fb : {NoFramebuffer}, content : {FALSE}]

TurnOff == [kind |-> "off", fb |-> NoFramebuffer, content |-> FALSE]

\* A commit that was refused, or failed, or is over.
Done == [phase |-> "done", nonblock |-> FALSE]

At(k, phase) == k \in DOMAIN commits /\ commits[k].phase = phase

\* The device takes ioctls (drm_dev_is_unplugged).
Usable == unplugs = 0 /\ alive

-----------------------------------------------------------------------------
(* What a commit does to the scanout.                                      *)

\* vibeshine_drm_plane_changes_scanout and its siblings
ChangesScanout(change) ==
    CASE change.kind = "flip" -> ~kms.on \/ change.fb # kms.fb \/ change.content
      [] change.kind = "property" -> TRUE
      [] change.kind = "off" -> kms.on

Applied(change) ==
    CASE change.kind = "flip" -> [on |-> TRUE, fb |-> change.fb]
      [] change.kind = "property" -> kms
      [] change.kind = "off" -> [on |-> FALSE, fb |-> NoFramebuffer]

\* Only a commit with the plane, or on an inactive CRTC, replaces the framebuffer.
DisplayedOfAnyCommit(c) == IF c.scanoutChanged THEN c.fb ELSE presentFb

Displayed(c) ==
    IF c.scanoutChanged /\ (c.kind # "property" \/ ~c.kms.on) THEN c.fb ELSE presentFb

Adjusted(refs, fb, by) == IF fb = NoFramebuffer THEN refs ELSE [refs EXCEPT ![fb] = @ + by]

\* A reference on the new framebuffer is taken before the lock; after it the
\* old one's, or the unused new one's, is given back.
ReferencesAfter(c) == Adjusted(Adjusted(references, Displayed(c), 1), presentFb, -1)

TraceSlot(s) == (s - 1) % HistorySize

Present(c) ==
    /\ presentFb' = Displayed(c)
    /\ references' = ReferencesAfter(c)
    /\ pending' = pending - 1
    /\ IF c.scanoutChanged
       THEN /\ sequence' = sequence + 1
            /\ timestamp' = c.timestamp
            /\ trace' = [trace EXCEPT ![TraceSlot(sequence + 1)] =
                            [sequence |-> sequence + 1, timestamp |-> c.timestamp]]
            /\ published' = Append(published, [fb |-> c.kms.fb, timestamp |-> c.timestamp])
       ELSE UNCHANGED <<sequence, timestamp, trace, published>>

\* vkms_crtc_release_presented_frame
ReleaseFrame ==
    /\ presentFb' = NoFramebuffer
    /\ references' = Adjusted(references, presentFb, -1)
    /\ UNCHANGED <<pending, sequence, timestamp, trace, published>>

Woken == [w \in Waiters |->
             IF waiters[w].at = "asleep" THEN [waiters[w] EXCEPT !.at = "awake"] ELSE waiters[w]]

-----------------------------------------------------------------------------
(* Entering a commit.                                                      *)

\* A thread gets the modeset lock for a commit.
Begin(thread, change, nonblock) ==
    /\ modesetLock = NoThread
    /\ modesetLock' = thread
    /\ commits' = Append(commits,
           [phase |-> "locked", by |-> thread, kind |-> change.kind, fb |-> change.fb,
            content |-> change.content, nonblock |-> nonblock, kms |-> kms,
            scanoutChanged |-> FALSE, armed |-> FALSE, flipDone |-> FALSE, flippedAt |-> 0,
            timing |-> FALSE, timestamp |-> 0])
    /\ UNCHANGED <<kms, commitLock, flips, presentation, counters, clients>>

ClientCommits ==
    /\ Usable
    /\ Len(commits) < MaxCommits
    /\ \E change \in Changes, nonblock \in BOOLEAN : Begin(Client, change, nonblock)
    /\ UNCHANGED closing

\* The commit leaves without a tail, and its thread gives up its locks.
Leave(k) ==
    /\ commits' = [commits EXCEPT ![k] = Done]
    /\ modesetLock' = NoThread
    /\ commitLock' = NoThread

AllowedIgnoringOwner(k) == accepting

Allowed(k) == accepting \/ owner = commits[k].by

Refuse(k) ==
    /\ At(k, "locked") /\ commitLock = NoThread
    /\ ~Allowed(k)
    /\ Leave(k)
    /\ UNCHANGED <<kms, closing, flips, presentation, counters, clients>>

Count(k) ==
    /\ At(k, "locked") /\ commitLock = NoThread
    /\ Allowed(k)
    /\ commitLock' = commits[k].by
    /\ commits' = [commits EXCEPT ![k].phase = "counted"]
    /\ pending' = pending + 1
    /\ UNCHANGED <<kms, modesetLock, closing, flips, presentation, references, clients>>

\* drm_atomic_helper_commit fails before it swaps the state.
FailKeepingCount(k) ==
    /\ At(k, "counted") /\ commits[k].by = Client
    /\ Leave(k)
    /\ UNCHANGED <<kms, closing, flips, presentation, counters, clients>>

Fail(k) ==
    /\ At(k, "counted") /\ commits[k].by = Client
    /\ Leave(k)
    /\ pending' = pending - 1
    /\ waiters' = Woken
    /\ UNCHANGED <<kms, closing, flips, presentation, references, waiterCount, readers>>

Unflipped == {k \in DOMAIN commits : commits[k] # Done /\ ~commits[k].flipDone}

\* It swaps the state; a nonblocking commit finds no earlier one unflipped.
Swap(k) ==
    /\ At(k, "counted")
    /\ commits[k].nonblock => Unflipped \cap 1..k-1 = {}
    /\ kms' = Applied(commits[k])
    /\ commits' = [commits EXCEPT ![k].phase = "queued", ![k].kms = Applied(commits[k]),
                                  ![k].scanoutChanged = ChangesScanout(commits[k])]
    /\ modesetLock' = IF commits[k].nonblock THEN NoThread ELSE modesetLock
    /\ commitLock' = IF commits[k].nonblock THEN NoThread ELSE commitLock
    /\ UNCHANGED <<closing, flips, presentation, counters, clients>>

-----------------------------------------------------------------------------
(* The commit tail.                                                        *)

\* output->lock is held by the vblank handler from the event to the stamp.
OutputLocked == inHandler

\* vkms_crtc_atomic_flush: without vblanks the flip is complete at once.
FlushImmediate(k) ==
    /\ commits' = [commits EXCEPT ![k].phase = "flushed", ![k].flipDone = TRUE,
                                  ![k].flippedAt = clock, ![k].timestamp = clock]
    /\ vblankOn' = commits[k].kms.on
    /\ UNCHANGED slot

FlushArmed(k) ==
    /\ commits' = [commits EXCEPT ![k].phase = "flushed", ![k].armed = TRUE, ![k].timing = TRUE]
    /\ slot' = k
    /\ UNCHANGED vblankOn

Flush(k) ==
    /\ At(k, "queued")
    /\ \A j \in 1..k-1 : commits[j] = Done
    /\ ~OutputLocked
    /\ IF vblankOn /\ commits[k].kms.on THEN FlushArmed(k) ELSE FlushImmediate(k)
    /\ UNCHANGED <<kms, locks, closing, clock, inHandler, presentation, counters, clients>>

\* vkms_crtc_handle_vblank: the core delivers the events armed before ...
Vblank ==
    /\ vblankOn /\ ~inHandler /\ clock < MaxTime
    /\ clock' = clock + 1
    /\ inHandler' = TRUE
    /\ commits' = [k \in DOMAIN commits |->
                      IF At(k, "flushed") /\ commits[k].armed
                      THEN [commits[k] EXCEPT !.armed = FALSE, !.flipDone = TRUE, !.flippedAt = clock + 1]
                      ELSE commits[k]]
    /\ UNCHANGED <<kms, locks, closing, vblankOn, slot, presentation, counters, clients>>

\* ... and the commit that waits for its timestamp gets the time of this vblank.
Stamp ==
    /\ inHandler
    /\ inHandler' = FALSE
    /\ IF slot # 0 /\ At(slot, "flushed") /\ commits[slot].flipDone
       THEN /\ commits' = [commits EXCEPT ![slot].timing = FALSE, ![slot].timestamp = clock]
            /\ slot' = 0
       ELSE UNCHANGED <<commits, slot>>
    /\ UNCHANGED <<kms, locks, closing, clock, vblankOn, presentation, counters, clients>>

\* vkms_crtc_take_present_timestamp, after the flip or after the wait for it.
TakeTimestamp(k) ==
    /\ At(k, "flushed")
    /\ ~OutputLocked
    /\ commits' = [commits EXCEPT ![k].phase = "stamped", ![k].timing = FALSE,
                                  ![k].timestamp = IF @ # 0 THEN @ ELSE clock]
    /\ slot' = IF slot = k THEN 0 ELSE slot
    /\ UNCHANGED <<kms, locks, closing, clock, vblankOn, inHandler, presentation, counters, clients>>

\* vkms_signal_presented_crtcs, under present_lock
Publish(k) ==
    /\ At(k, "stamped")
    /\ commits' = [commits EXCEPT ![k].phase = "published"]
    /\ Present(commits[k])
    /\ UNCHANGED <<kms, locks, closing, flips, clients>>

\* It wakes the waiters, lets the next tail start, and returns from the ioctl.
FinishUnnoticed(k) ==
    /\ At(k, "published")
    /\ IF commits[k].nonblock
       THEN commits' = [commits EXCEPT ![k] = Done] /\ UNCHANGED locks
       ELSE Leave(k)
    /\ UNCHANGED <<kms, closing, flips, presentation, counters, clients>>

Finish(k) ==
    /\ At(k, "published")
    /\ IF commits[k].nonblock
       THEN commits' = [commits EXCEPT ![k] = Done] /\ UNCHANGED locks
       ELSE Leave(k)
    /\ waiters' = Woken
    /\ UNCHANGED <<kms, closing, flips, presentation, counters, waiterCount, readers>>

CommitStep(k) ==
    \/ Refuse(k) \/ Count(k) \/ Fail(k) \/ Swap(k)
    \/ Flush(k) \/ TakeTimestamp(k) \/ Publish(k) \/ Finish(k)

-----------------------------------------------------------------------------
(* Capture clients.                                                        *)

\* vkms_wait_present_ioctl: a client that knows the present sequence registers.
Register(w) ==
    /\ Usable
    /\ waiters[w].at = "idle"
    /\ waiterCount < MaxWaiters
    /\ waiterCount' = waiterCount + 1
    /\ waiters' = [waiters EXCEPT ![w] = [at |-> "awake", knows |-> sequence]]
    /\ UNCHANGED readers

CheckSequence(w) ==
    /\ waiters[w].at = "awake"
    /\ waiters' = [waiters EXCEPT ![w].at = IF sequence # waiters[w].knows THEN "leaving" ELSE "asleep"]
    /\ UNCHANGED <<waiterCount, readers>>

\* The timeout, or a signal.
GiveUpWaiting(w) ==
    /\ waiters[w].at = "asleep"
    /\ waiters' = [waiters EXCEPT ![w].at = "leaving"]
    /\ UNCHANGED <<waiterCount, readers>>

Answer(w) ==
    /\ waiters[w].at = "leaving"
    /\ waiterCount' = waiterCount - 1
    /\ waiters' = [waiters EXCEPT ![w] = [at |-> "idle", knows |-> 0]]
    /\ UNCHANGED readers

WaiterStep(w) ==
    /\ Register(w) \/ CheckSequence(w) \/ GiveUpWaiting(w) \/ Answer(w)
    /\ UNCHANGED <<kms, commits, locks, closing, flips, presentation, counters>>

\* vkms_get_frame_ioctl holds the framebuffer while it exports it.
ExportFrame(r) ==
    /\ Usable
    /\ readers[r] = NoFramebuffer /\ presentFb # NoFramebuffer
    /\ readers' = [readers EXCEPT ![r] = presentFb]
    /\ references' = Adjusted(references, presentFb, 1)

PutFrame(r) ==
    /\ readers[r] # NoFramebuffer
    /\ readers' = [readers EXCEPT ![r] = NoFramebuffer]
    /\ references' = Adjusted(references, readers[r], -1)

ReaderStep(r) ==
    /\ ExportFrame(r) \/ PutFrame(r)
    /\ UNCHANGED <<kms, commits, locks, closing, flips, presentation, pending, waiterCount, waiters>>

\* vkms_get_present_trace_ioctl, for a client that has the sequences up to after.
OldestTracedTooNew == sequence - HistorySize + 2

OldestTraced == sequence - HistorySize + 1

TraceReply(after) ==
    LET overflow == sequence >= HistorySize /\ after + 1 < OldestTraced
        first == IF overflow THEN OldestTraced ELSE after + 1
        kept == {s \in first..sequence : trace[TraceSlot(s)].sequence = s}
        returned == {s \in kept : Cardinality({o \in kept : o < s}) < MaxEvents}
    IN  [events |-> {trace[TraceSlot(s)] : s \in returned},
         overflow |-> overflow \/ \E s \in first..sequence :
                                    s \notin kept /\ Cardinality({o \in kept : o < s}) < MaxEvents]

-----------------------------------------------------------------------------
(* Closing the device.                                                     *)

GoTo(t, where) == closers' = [closers EXCEPT ![t] = where]

\* Where a thread goes after vkms_quiesce.
AfterQuiesce(t) == IF t \in Quiescers THEN "ended" ELSE "unplugging"

\* The notifier and the attribute are gone with the device.
StartClosing(t) ==
    /\ closers[t] = "idle" /\ alive
    /\ GoTo(t, "quiescing")
    /\ UNCHANGED <<kms, commits, locks, shutdownLock, accepting, owner, unplugged, unplugs, alive,
                   flips, presentation, counters, clients>>

LockShutdown(t) ==
    /\ closers[t] = "quiescing" /\ shutdownLock = NoThread
    /\ shutdownLock' = t
    /\ GoTo(t, "deciding")
    /\ UNCHANGED <<kms, commits, locks, accepting, owner, unplugged, unplugs, alive,
                   flips, presentation, counters, clients>>

StopCommitsKeepingLock(t) ==
    /\ closers[t] = "deciding" /\ commitLock = NoThread
    /\ IF accepting
       THEN accepting' = FALSE /\ owner' = t /\ commitLock' = t /\ GoTo(t, "stopping") /\ UNCHANGED shutdownLock
       ELSE shutdownLock' = NoThread /\ GoTo(t, AfterQuiesce(t)) /\ UNCHANGED <<accepting, owner, commitLock>>
    /\ UNCHANGED <<kms, commits, modesetLock, unplugged, unplugs, alive, flips, presentation, counters, clients>>

StopCommits(t) ==
    /\ closers[t] = "deciding" /\ commitLock = NoThread
    /\ IF accepting
       THEN accepting' = FALSE /\ owner' = t /\ GoTo(t, "stopping") /\ UNCHANGED shutdownLock
       ELSE shutdownLock' = NoThread /\ GoTo(t, AfterQuiesce(t)) /\ UNCHANGED <<accepting, owner>>
    /\ UNCHANGED <<kms, commits, locks, unplugged, unplugs, alive, flips, presentation, counters, clients>>

\* drm_atomic_helper_shutdown: a blocking commit that turns everything off.
TurnOutputsOff(t) ==
    /\ closers[t] = "stopping"
    /\ Begin(t, TurnOff, FALSE)
    /\ GoTo(t, "turningOff")
    /\ UNCHANGED <<shutdownLock, accepting, owner, unplugged, unplugs, alive>>

ReleaseAfterTurningOff(t) ==
    /\ closers[t] = "turningOff" /\ modesetLock # t
    /\ ReleaseFrame
    /\ GoTo(t, "released")
    /\ UNCHANGED <<kms, commits, locks, shutdownLock, accepting, owner, unplugged, unplugs, alive, flips, clients>>

EndQuiesce(t) ==
    /\ closers[t] = "released" /\ commitLock = NoThread
    /\ owner' = NoThread
    /\ shutdownLock' = NoThread
    /\ GoTo(t, AfterQuiesce(t))
    /\ UNCHANGED <<kms, commits, locks, accepting, unplugged, unplugs, alive,
                   flips, presentation, counters, clients>>

\* The rest of vkms_shutdown_release.
ClaimUnplug(t) ==
    /\ closers[t] = "unplugging" /\ shutdownLock = NoThread
    /\ IF unplugged
       THEN GoTo(t, "leaving") /\ UNCHANGED <<shutdownLock, unplugged, presentation, counters>>
       ELSE shutdownLock' = t /\ unplugged' = TRUE /\ ReleaseFrame /\ GoTo(t, "unplug")
    /\ UNCHANGED <<kms, commits, locks, accepting, owner, unplugs, alive, flips, clients>>

Unplug(t) ==
    /\ closers[t] = "unplug"
    /\ unplugs' = unplugs + 1
    /\ shutdownLock' = NoThread
    /\ GoTo(t, "leaving")
    /\ UNCHANGED <<kms, commits, locks, accepting, owner, unplugged, alive, flips, presentation, counters, clients>>

\* The destroyer releases the device's resources: that waits for a notifier
\* that runs and for writers of the attribute.
EndClosing(t) ==
    /\ closers[t] = "leaving"
    /\ t = Destroyer => \A o \in Closers \ {t} : closers[o] \in {"idle", "ended"}
    /\ alive' = (alive /\ t # Destroyer)
    /\ GoTo(t, "ended")
    /\ UNCHANGED <<kms, commits, locks, shutdownLock, accepting, owner, unplugged, unplugs,
                   flips, presentation, counters, clients>>

CloserStep(t) ==
    \/ LockShutdown(t) \/ StopCommits(t) \/ TurnOutputsOff(t) \/ ReleaseAfterTurningOff(t)
    \/ EndQuiesce(t) \/ ClaimUnplug(t) \/ Unplug(t) \/ EndClosing(t)

-----------------------------------------------------------------------------
(* The specification.                                                      *)

Init ==
    /\ kms = [on |-> FALSE, fb |-> NoFramebuffer]
    /\ commits = <<>> /\ modesetLock = NoThread /\ commitLock = NoThread
    /\ shutdownLock = NoThread /\ accepting = TRUE /\ owner = NoThread /\ unplugged = FALSE
    /\ unplugs = 0 /\ alive = TRUE /\ closers = [t \in Closers |-> "idle"]
    /\ clock = 1 /\ vblankOn = FALSE /\ inHandler = FALSE /\ slot = 0
    /\ pending = 0 /\ sequence = 0 /\ timestamp = 0 /\ presentFb = NoFramebuffer
    /\ trace = [i \in 0..HistorySize-1 |-> [sequence |-> 0, timestamp |-> 0]]
    /\ waiterCount = 0 /\ references = [fb \in Framebuffers |-> 0]
    /\ waiters = [w \in Waiters |-> [at |-> "idle", knows |-> 0]]
    /\ readers = [r \in Readers |-> NoFramebuffer]
    /\ published = <<>>

Next ==
    \/ ClientCommits
    \/ \E k \in DOMAIN commits : CommitStep(k)
    \/ Vblank \/ Stamp
    \/ \E w \in Waiters : WaiterStep(w)
    \/ \E r \in Readers : ReaderStep(r)
    \/ \E t \in Closers : StartClosing(t) \/ CloserStep(t)

Spec == Init /\ [][Next]_vars

\* While a commit, its tail, the vblank handler or a thread that closes the
\* device can go on, one of them does.  No vblank need ever come, and no client
\* need call.
Fairness ==
    WF_vars(\/ \E k \in DOMAIN commits : CommitStep(k)
            \/ Stamp
            \/ \E t \in Closers : CloserStep(t))

FairSpec == Spec /\ Fairness

-----------------------------------------------------------------------------
(* Properties.                                                             *)

\* The commits a thread has counted that have neither published nor failed.
PendingExact ==
    pending = Cardinality({k \in DOMAIN commits :
                              commits[k].phase \in {"counted", "queued", "flushed", "stamped"}})

WaitersExact == waiterCount = Cardinality({w \in Waiters : waiters[w].at # "idle"})

ReferencesExact ==
    \A fb \in Framebuffers :
        references[fb] = Cardinality({r \in Readers : readers[r] = fb}) + (IF presentFb = fb THEN 1 ELSE 0)

\* The counters the driver keeps on the side are exact at every step: the
\* pending commits a capture client is told of, the waiters that count against
\* the limit, and the references that keep GPU buffers alive.
CountersExact == PendingExact /\ WaitersExact /\ ReferencesExact

\* Once vkms_quiesce is over, by whichever thread, the driver shows no frame,
\* no accepted commit is left that could publish one, and this stays so; the
\* device is unplugged only then, and only once.
ReleasedForGood ==
    /\ ~accepting /\ owner = NoThread => presentFb = NoFramebuffer /\ pending = 0 /\ ~kms.on
    /\ unplugs <= 1
    /\ unplugs = 1 => ~accepting /\ owner = NoThread

\* The slot for the vblank handler never names a commit whose state may be gone.
SlotNamesLiveState == slot # 0 => At(slot, "flushed")

\* A presentation carries the time of its own flip, whatever vblanks come
\* while its worker sleeps, and the handler has no state that is gone; the frame
\* on offer is the one that was on the plane in the commit whose sequence and
\* timestamp go with it, until the device gives it up.
PresentationsMatchFlips ==
    /\ SlotNamesLiveState
    /\ \A k \in DOMAIN commits :
          commits[k].phase \in {"stamped", "published"} /\ commits[k].flippedAt # 0 =>
              commits[k].timestamp = commits[k].flippedAt
    /\ \A i \in 1..Len(published)-1 : published[i].timestamp <= published[i+1].timestamp
    /\ sequence = Len(published)
    /\ sequence > 0 => timestamp = published[sequence].timestamp
    /\ presentFb # NoFramebuffer => presentFb = published[sequence].fb
    /\ sequence > 0 /\ accepting => presentFb = published[sequence].fb

\* No waiter sleeps on a sequence that is over, except while the thread that
\* published the newer one is about to wake it.
NoSleeperLeftBehind ==
    \A w \in Waiters :
        waiters[w].at = "asleep" /\ waiters[w].knows # sequence =>
            \E k \in DOMAIN commits : At(k, "published")

\* Whatever a client has, the trace gives it the presentations that follow,
\* with their timestamps and without a gap, or says that the oldest are lost.
TraceRepliesComplete ==
    \A after \in 0..sequence :
        LET reply == TraceReply(after)
            lost == {s \in after+1..sequence : s + HistorySize <= sequence}
            rest == (after+1..sequence) \ lost
        IN  /\ reply.overflow <=> lost # {}
            /\ reply.events = {[sequence |-> s, timestamp |-> published[s].timestamp] :
                                   s \in {o \in rest : Cardinality({q \in rest : q < o}) < MaxEvents}}

\* A thread that closes the device gets through, whatever commits are under
\* way, and even if no vblank ever comes.
ClosersFinish == \A t \in Closers : closers[t] # "idle" ~> closers[t] = "ended"
=============================================================================
