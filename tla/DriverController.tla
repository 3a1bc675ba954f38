--------------------------- MODULE DriverController ---------------------------
(***************************************************************************)
(* DriverController (src/driver/driver_controller.cpp) under the threads   *)
(* of the Windows driver: the workers that serve device requests and the   *)
(* lease reaper, over one DisplayStore and one DisplayDriverBackend.       *)
(*                                                                         *)
(* The store is only touched under the controller lock.  A backend call    *)
(* gives that lock up, waits for the backend lock (not for ever: it may    *)
(* answer Busy), runs, takes the controller lock again while it still      *)
(* holds the backend lock, and only then goes on.  What runs under the     *)
(* controller lock without a backend call is one step here; controllerLock *)
(* is held between steps only where one section changes the store twice.   *)
(*                                                                         *)
(* The backend promises no more than its interface says: a departure is    *)
(* fenced by a generation, an arrival retires the monitor of another       *)
(* generation first, and any call may fail (MaxFailures of them).          *)
(*                                                                         *)
(* A definition named for what is wrong with it (DepartsUnfenced,          *)
(* CallReleasingBackend, ...) is a faulty variant of the one that follows: *)
(* no specification uses it; it shows what the properties below exclude.   *)
(***************************************************************************)
EXTENDS Integers, FiniteSets, FiniteSetsExt

CONSTANTS
    DisplayIds, LeaseIds, Capabilities, Edids, RetainedEdid, EphemeralEdid,
    MaxPermanent, MaxTemporary, MaxIndex, DefaultTimeout, MinTimeout, MaxTimeout,
    RequestedTimeouts, NoDisplay, NoLease, NoCapability, NoConnector,
    MaxGeneration, MaxEphemeral, MaxTime, MaxClockLag,
    Workers,            \* threads that serve device requests
    Reaper,             \* the lease reaper thread
    NoThread,           \* nobody: an unlocked mutex
    Requests,           \* the requests clients send
    NoRequest,
    NoSnapshot,
    Manifests,          \* permanent display manifests
    FirstManifest,      \* the manifest restored at start
    PartialManifest,    \* permanent monitors that no manifest describes
    FailsWhenDown,      \* may a departure fail although nothing is up
    MaxRequests,        \* bound on the number of requests
    MaxFailures,        \* bound on the backend calls that fail
    MaxBusy             \* bound on the waits for the backend lock that time out

VARIABLES
    displays, leases, reservations, quarantined, nextGeneration, nextEphemeral, now,
    manifest,           \* display_manifest_ of the store
    monitors,           \* generation of the monitor up under a display id, 0 if none
    profiles,           \* connector persisted for a display id
    backendManifest,    \* the permanent monitors the backend has up
    controllerLock,     \* controller_mutex
    backendLock,        \* backend_call_mutex_
    threads,            \* what each thread is doing
    issued, failures, busy

Store == INSTANCE LeaseStore WITH now <- now

storeVars == <<displays, leases, reservations, quarantined, nextGeneration, nextEphemeral>>
backendVars == <<monitors, profiles, backendManifest>>
bounds == <<issued, failures, busy>>
vars == <<storeVars, now, manifest, backendVars, controllerLock, backendLock, threads, bounds>>

Threads == Workers \cup {Reaper}

\* What the store asks of its constants.
ASSUME StoreAssumption ==
    /\ Store!SizesAssumption /\ Store!TimeoutsAssumption
    /\ Store!IdentityAssumption /\ Store!NullsAssumption

ASSUME ThreadsAssumption == Reaper \notin Workers /\ NoThread \notin Threads
ASSUME BoundsAssumption == MaxRequests \in Nat /\ MaxFailures \in Nat /\ MaxBusy \in Nat

\* A request may wait for the locks for as long as the clock runs.
ASSUME ClockAssumption == MaxTime \in Nat /\ MaxClockLag \in Nat /\ MaxTime <= MaxClockLag

FeedArgs == [lease : LeaseIds, timeout : RequestedTimeouts]
RemoveArgs == [lease : LeaseIds, display : DisplayIds]
ReleaseArgs == [lease : LeaseIds]

ASSUME BackendAssumption == FailsWhenDown \in BOOLEAN

ASSUME RequestsAssumption ==
    Requests \subseteq
           [kind : {"create"}, args : Store!CreateRequests]
      \cup [kind : {"reclaim"}, args : Store!ReclaimRequests]
      \cup [kind : {"remove"}, args : RemoveArgs]
      \cup [kind : {"release"}, args : ReleaseArgs]
      \cup [kind : {"feed"}, args : FeedArgs]
      \cup [kind : {"manifest"}, args : Manifests]

ASSUME ManifestAssumption == FirstManifest \in Manifests /\ PartialManifest \notin Manifests

DepartSites == {"clearPending", "departStale", "departPending", "remove", "release", "reap"}
UnreserveSites == {"unreserveStale", "unreserveFailed"}
CallSites == DepartSites \cup UnreserveSites \cup {"reserve", "arrive", "reclaim", "manifest"}

\* A thread: where it is, the answer of the backend call it is at, the request
\* and the clock reading it came with, the record the code holds a copy of, and
\* the copies of the records still to be departed.
Idle == [at |-> "idle", answer |-> "none yet", request |-> NoRequest, asked |-> 0,
         copy |-> NoSnapshot, rest |-> {}]

-----------------------------------------------------------------------------
(* Snapshots of records.                                                   *)

Snapshot(d) == [display |-> d, lease |-> displays[d].lease, connector |-> displays[d].connector,
                generation |-> displays[d].generation]

CurrentIgnoringGeneration(s) ==
    s.display \in Store!LiveDisplays /\ displays[s.display].lease = s.lease

\* temporary_display_generation_is_current
Current(s) ==
    /\ s.display \in Store!LiveDisplays
    /\ displays[s.display].lease = s.lease
    /\ displays[s.display].generation = s.generation

RemoveIfCurrent(s, release) ==
    IF Current(s) THEN Store!RemoveTemporaryDisplay(s.lease, s.display, release)
    ELSE UNCHANGED storeVars

MarkIfCurrent(s) ==
    IF Current(s) THEN Store!MarkPendingDeparture(s.lease, s.display) ELSE UNCHANGED storeVars

-----------------------------------------------------------------------------
(* Threads.                                                                *)

Finish(th) == threads' = [threads EXCEPT ![th] = Idle]

\* Give up the controller lock and wait for the backend at site.
GoCall(th, site, s, more) ==
    threads' = [threads EXCEPT ![th].at = site, ![th].answer = "none yet",
                               ![th].copy = s, ![th].rest = more]

\* A request has the controller lock for the first time.
Enter(th, kind) ==
    /\ controllerLock = NoThread
    /\ threads[th].at = "start"
    /\ threads[th].request.kind = kind
    /\ UNCHANGED <<now, manifest, backendVars, controllerLock, backendLock, bounds>>

\* A backend call returns: the controller lock is taken, then the backend's let go.
Return(th, site) ==
    /\ controllerLock = NoThread
    /\ threads[th].at = site
    /\ threads[th].answer # "none yet"
    /\ backendLock' = IF backendLock = th THEN NoThread ELSE backendLock
    /\ UNCHANGED <<now, backendVars, bounds>>

\* A client sends a request; the clock is read before the controller lock is taken.
Submit(th, r) ==
    /\ threads[th].at = "idle"
    /\ issued < MaxRequests
    /\ issued' = issued + 1
    /\ threads' = [threads EXCEPT ![th] = [Idle EXCEPT !.at = "start", !.request = r, !.asked = now]]
    /\ UNCHANGED <<storeVars, now, manifest, backendVars, controllerLock, backendLock, failures, busy>>

Tick ==
    /\ now < MaxTime
    /\ now' = now + 1
    /\ UNCHANGED <<storeVars, manifest, backendVars, controllerLock, backendLock, threads, bounds>>

-----------------------------------------------------------------------------
(* The backend, one call at a time.                                        *)

Answers(th, answer) ==
    /\ threads' = [threads EXCEPT ![th].answer = answer]
    /\ failures' = IF answer = "Failed" THEN failures + 1 ELSE failures

\* depart_display: nothing to do for a display that is not up, or up under
\* another generation; 0 departs whatever is up.  A departure that fails by
\* its timeout may still complete.  The interface of the backend, but not the
\* IddCx backend, lets one fail although nothing is up (FailsWhenDown).
DepartsUnfenced(d, g) == monitors[d] # 0

Departs(d, g) == monitors[d] # 0 /\ g \in {0, monitors[d]}

Depart(th, d, g) ==
    /\ UNCHANGED <<profiles, backendManifest>>
    /\ \/ ~Departs(d, g) /\ UNCHANGED monitors /\ Answers(th, "None")
       \/ Departs(d, g) /\ monitors' = [monitors EXCEPT ![d] = 0] /\ Answers(th, "None")
       \/ /\ Departs(d, g) \/ FailsWhenDown
          /\ failures < MaxFailures /\ Answers(th, "Failed")
          /\ \/ UNCHANGED monitors
             \/ Departs(d, g) /\ monitors' = [monitors EXCEPT ![d] = 0]

\* arrive_display: a resident monitor of another generation is departed first.
Arrive(th, s) ==
    /\ UNCHANGED <<profiles, backendManifest>>
    /\ \/ monitors' = [monitors EXCEPT ![s.display] = s.generation] /\ Answers(th, "None")
       \/ /\ failures < MaxFailures /\ Answers(th, "Failed")
          /\ monitors' \in {monitors, [monitors EXCEPT ![s.display] = 0]}

\* The persisted profiles (windows_driver_state.cpp): one per display and per connector.
NoProfiles == [d \in DisplayIds |-> NoConnector]
ValidProfile(connector) == connector \in Store!TemporaryConnectors

\* A blob that is damaged anywhere loads as no profiles at all.
LoadProfiles(stored) ==
    IF \A d \in DisplayIds : stored[d] = NoConnector \/ ValidProfile(stored[d])
    THEN stored ELSE NoProfiles

OtherProfilesOn(d, connector) == {other \in DisplayIds \ {d} : profiles[other] = connector}

\* The profile of the display replaces its last one, and those of others on the connector.
Upsert(d, connector) ==
    LET kept == [other \in DisplayIds |->
                    IF other \in OtherProfilesOn(d, connector) THEN NoConnector ELSE profiles[other]]
        saved == {other \in DisplayIds : kept[other] # NoConnector}
    IN  /\ ValidProfile(connector)
        /\ d \in saved \/ Cardinality(saved) < MaxTemporary
        /\ profiles' = [kept EXCEPT ![d] = connector]

WithoutProfile(d) == [profiles EXCEPT ![d] = NoConnector]

\* save_temporary_display_profile; the registry may refuse the value.
Reserve(th, s) ==
    /\ UNCHANGED <<monitors, backendManifest>>
    /\ \/ Upsert(s.display, s.connector) /\ Answers(th, "None")
       \/ failures < MaxFailures /\ Answers(th, "Failed") /\ UNCHANGED profiles

Unreserve(th, d) ==
    /\ UNCHANGED <<monitors, backendManifest>>
    /\ \/ profiles' = WithoutProfile(d) /\ Answers(th, "None")
       \/ failures < MaxFailures /\ Answers(th, "Failed") /\ UNCHANGED profiles

\* apply_display_manifest: a failure puts back what was up, as far as that succeeds.
ApplyManifest(th, m) ==
    /\ UNCHANGED <<monitors, profiles>>
    /\ \/ backendManifest' = m /\ Answers(th, "None")
       \/ /\ failures < MaxFailures /\ Answers(th, "Failed")
          /\ backendManifest' \in {backendManifest, PartialManifest}

\* What the call at each site does; reclaim only wants the lock.
CallAt(th) ==
    LET site == threads[th].at
        s == threads[th].copy
    IN  \/ site = "clearPending" /\ Depart(th, s.display, 0)
        \/ site \in DepartSites \ {"clearPending"} /\ Depart(th, s.display, s.generation)
        \/ site \in UnreserveSites /\ Unreserve(th, s.display)
        \/ site = "reserve" /\ Reserve(th, s)
        \/ site = "arrive" /\ Arrive(th, s)
        \/ site = "manifest" /\ ApplyManifest(th, threads[th].request.args)
        \/ site = "reclaim" /\ Answers(th, "None") /\ UNCHANGED backendVars

Waiting(th) == threads[th].at \in CallSites /\ threads[th].answer = "none yet"

CallReleasingBackend(th) ==
    /\ Waiting(th)
    /\ backendLock = NoThread
    /\ CallAt(th)
    /\ UNCHANGED <<storeVars, now, manifest, controllerLock, backendLock, issued, busy>>

\* call_backend_without_controller_lock gets the backend lock and calls.
Call(th) ==
    /\ Waiting(th)
    /\ backendLock = NoThread
    /\ backendLock' = th
    /\ CallAt(th)
    /\ UNCHANGED <<storeVars, now, manifest, controllerLock, issued, busy>>

\* The wait for the backend lock times out: the backend is never called.
TimeOut(th) ==
    /\ Waiting(th)
    /\ backendLock # NoThread
    /\ busy < MaxBusy
    /\ busy' = busy + 1
    /\ threads' = [threads EXCEPT ![th].answer = "Busy"]
    /\ UNCHANGED <<storeVars, now, manifest, backendVars, controllerLock, backendLock, issued, failures>>

-----------------------------------------------------------------------------
(* create_temporary_display_impl.                                          *)

Created(r) ==
    [display |-> r.display, lease |-> r.lease,
     connector |-> Store!ConnectorFor(r.display, ~r.ephemeral), generation |-> nextGeneration]

\* The store's part: a new record goes on to the backend, a refusal ends it.
StoreCreate(th) ==
    LET r == threads[th].request.args
        t == threads[th].asked
    IN  \/ /\ Store!CreateTemporaryDisplay(r, t)
           /\ GoCall(th, IF r.ephemeral THEN "arrive" ELSE "reserve", Created(r), {})
        \/ Store!RefuseCreate(r, t) /\ Finish(th)
        \/ /\ Store!CreateError(r, t) \notin {"None", "DuplicateDisplayIdentity"}
           /\ UNCHANGED storeVars /\ Finish(th)

IsPending(d) == d \in Store!LiveDisplays /\ displays[d].pending

CreateFresh(th) ==
    /\ Enter(th, "create")
    /\ ~IsPending(threads[th].request.args.display)
    /\ StoreCreate(th)

\* The display is being departed: clear what the backend still has up.
CreateOnPending(th) ==
    LET d == threads[th].request.args.display
    IN  /\ Enter(th, "create")
        /\ IsPending(d)
        /\ GoCall(th, "clearPending", Snapshot(d), {})
        /\ UNCHANGED storeVars

KeepLockToCreate(th) ==
    /\ controllerLock' = th
    /\ threads' = [threads EXCEPT ![th].at = "create"]

MayAbandon(th) ==
    LET s == threads[th].copy
        r == threads[th].request.args
    IN  /\ Current(s)
        /\ r.owner # NoCapability
        /\ Store!AbandonAccepted(s.lease, s.display, s.generation, r.owner)

PendingCleared(th) ==
    /\ Return(th, "clearPending")
    /\ UNCHANGED manifest
    /\ \/ /\ threads[th].answer = "None"
          /\ RemoveIfCurrent(threads[th].copy, FALSE)
          /\ KeepLockToCreate(th)
       \/ /\ threads[th].answer = "Failed" /\ MayAbandon(th)
          /\ LET s == threads[th].copy
             IN  Store!AbandonPendingDisplay(s.lease, s.display, s.generation, threads[th].request.args.owner)
          /\ KeepLockToCreate(th)
       \/ /\ threads[th].answer = "Failed" /\ ~MayAbandon(th)
          /\ MarkIfCurrent(threads[th].copy)
          /\ Finish(th) /\ UNCHANGED controllerLock
       \/ /\ threads[th].answer = "Busy"
          /\ Finish(th) /\ UNCHANGED <<storeVars, controllerLock>>

CreateAfterClearingKeepingLock(th) ==
    /\ threads[th].at = "create"
    /\ controllerLock = th
    /\ StoreCreate(th)
    /\ UNCHANGED <<now, manifest, backendVars, controllerLock, backendLock, bounds>>

CreateAfterClearing(th) ==
    /\ threads[th].at = "create"
    /\ controllerLock = th
    /\ controllerLock' = NoThread
    /\ StoreCreate(th)
    /\ UNCHANGED <<now, manifest, backendVars, backendLock, bounds>>

Reserved(th) ==
    LET s == threads[th].copy
    IN  /\ Return(th, "reserve")
        /\ UNCHANGED <<manifest, controllerLock>>
        /\ \/ /\ threads[th].answer # "None" /\ RemoveIfCurrent(s, TRUE) /\ Finish(th)
           \/ /\ threads[th].answer = "None" /\ UNCHANGED storeVars
              /\ GoCall(th, IF Current(s) THEN "arrive" ELSE "unreserveStale", s, {})

ArrivedTrustingRecord(th) ==
    LET s == threads[th].copy
    IN  /\ Return(th, "arrive")
        /\ UNCHANGED <<manifest, controllerLock>>
        /\ \/ threads[th].answer # "None" /\ RemoveIfCurrent(s, TRUE) /\ Finish(th)
           \/ threads[th].answer = "None" /\ UNCHANGED storeVars /\ Finish(th)

Arrived(th) ==
    LET s == threads[th].copy
        retain == ~threads[th].request.args.ephemeral
    IN  /\ Return(th, "arrive")
        /\ UNCHANGED <<manifest, controllerLock>>
        /\ \/ /\ threads[th].answer # "None" /\ retain
              /\ GoCall(th, "unreserveFailed", s, {}) /\ UNCHANGED storeVars
           \/ /\ threads[th].answer # "None" /\ ~retain
              /\ RemoveIfCurrent(s, TRUE) /\ Finish(th)
           \/ /\ threads[th].answer = "None" /\ ~Current(s)
              /\ GoCall(th, "departStale", s, {}) /\ UNCHANGED storeVars
           \/ /\ threads[th].answer = "None" /\ Current(s) /\ displays[s.display].pending
              /\ GoCall(th, "departPending", s, {}) /\ UNCHANGED storeVars
           \/ /\ threads[th].answer = "None" /\ Current(s) /\ ~displays[s.display].pending
              /\ Finish(th) /\ UNCHANGED storeVars

\* The cleanup of a create whose record was gone ends it, whatever it answers.
StaleCleaned(th) ==
    /\ Return(th, "unreserveStale") \/ Return(th, "departStale")
    /\ Finish(th) /\ UNCHANGED <<storeVars, manifest, controllerLock>>

ArrivalRolledBack(th) ==
    /\ Return(th, "unreserveFailed")
    /\ RemoveIfCurrent(threads[th].copy, threads[th].answer = "None")
    /\ Finish(th) /\ UNCHANGED <<manifest, controllerLock>>

PendingArrivalDeparted(th) ==
    /\ Return(th, "departPending")
    /\ IF threads[th].answer = "None" THEN RemoveIfCurrent(threads[th].copy, FALSE)
       ELSE UNCHANGED storeVars
    /\ Finish(th) /\ UNCHANGED <<manifest, controllerLock>>

-----------------------------------------------------------------------------
(* reclaim_temporary_display: both locks are held while the lease rotates. *)

Reclaim(th) ==
    /\ Enter(th, "reclaim")
    /\ GoCall(th, "reclaim", NoSnapshot, {})
    /\ UNCHANGED storeVars

ReclaimLocked(th) ==
    LET r == threads[th].request.args
        t == threads[th].asked
    IN  /\ Return(th, "reclaim")
        /\ IF threads[th].answer = "None" /\ Store!ReclaimAccepted(r, t)
           THEN Store!ReclaimTemporaryDisplay(r, t) ELSE UNCHANGED storeVars
        /\ Finish(th) /\ UNCHANGED <<manifest, controllerLock>>

-----------------------------------------------------------------------------
(* remove_temporary_display, release_lease and reap_expired depart records *)
(* they hold copies of, one after the other.                               *)

RecordDepartureKeepingLease(th) ==
    LET s == threads[th].copy
    IN  CASE threads[th].answer = "None"   ->
                 /\ displays' = IF Current(s) THEN [displays EXCEPT ![s.display] = NoDisplay] ELSE displays
                 /\ UNCHANGED <<leases, reservations, quarantined, nextGeneration, nextEphemeral>>
          [] threads[th].answer = "Failed" -> MarkIfCurrent(s)
          [] threads[th].answer = "Busy"   -> UNCHANGED storeVars

\* What the section after a departure does to the record it was for.
RecordDeparture(th) ==
    LET s == threads[th].copy
    IN  CASE threads[th].answer = "None"   -> RemoveIfCurrent(s, FALSE)
          [] threads[th].answer = "Failed" -> MarkIfCurrent(s)
          [] threads[th].answer = "Busy"   -> UNCHANGED storeVars

Remove(th) ==
    LET r == threads[th].request.args
    IN  /\ Enter(th, "remove")
        /\ UNCHANGED storeVars
        /\ \/ Store!Carries(r.lease, r.display) /\ GoCall(th, "remove", Snapshot(r.display), {})
           \/ ~Store!Carries(r.lease, r.display) /\ Finish(th)

Removed(th) ==
    /\ Return(th, "remove")
    /\ RecordDeparture(th)
    /\ Finish(th) /\ UNCHANGED <<manifest, controllerLock>>

\* Which of the copies comes next is left open.
GoDepart(th, site, copies) ==
    \E s \in copies : GoCall(th, site, s, copies \ {s})

\* A lease without displays is not in the store (LeasesCovered): LeaseNotFound.
Release(th) ==
    LET copies == {Snapshot(d) : d \in Store!DisplaysOf(threads[th].request.args.lease)}
    IN  /\ Enter(th, "release")
        /\ UNCHANGED storeVars
        /\ \/ copies # {} /\ GoDepart(th, "release", copies)
           \/ copies = {} /\ Finish(th)

ReapCandidatesExpiredOnly == Store!ExpiredDisplays(now)

\* Pending departures are retried even before they expire.
ReapCandidates == Store!ExpiredDisplays(now) \cup {d \in Store!LiveDisplays : displays[d].pending}

\* The reaper reads the clock under the controller lock.  Finding nothing, or
\* the controller busy for 10 ms, it sleeps on.
Reap ==
    /\ threads[Reaper].at = "idle"
    /\ controllerLock = NoThread
    /\ GoDepart(Reaper, "reap", {Snapshot(d) : d \in ReapCandidates})
    /\ UNCHANGED <<storeVars, now, manifest, backendVars, controllerLock, backendLock, bounds>>

Departed(th, site) ==
    /\ Return(th, site)
    /\ RecordDeparture(th)
    /\ \/ threads[th].rest # {} /\ GoDepart(th, site, threads[th].rest)
       \/ threads[th].rest = {} /\ Finish(th)
    /\ UNCHANGED <<manifest, controllerLock>>

-----------------------------------------------------------------------------
(* feed_lease never leaves the controller lock.                            *)

Feed(th) ==
    LET r == threads[th].request.args
        t == threads[th].asked
    IN  /\ Enter(th, "feed")
        /\ IF Store!FeedAccepted(r.lease, t) THEN Store!FeedLease(r.lease, r.timeout, t)
           ELSE UNCHANGED storeVars
        /\ Finish(th)

-----------------------------------------------------------------------------
(* apply_display_manifest: first the monitors, then the store.             *)

SetManifest(th) ==
    /\ Enter(th, "manifest")
    /\ GoCall(th, "manifest", NoSnapshot, {})
    /\ UNCHANGED storeVars

ManifestApplied(th) ==
    /\ Return(th, "manifest")
    /\ manifest' = IF threads[th].answer = "None" THEN threads[th].request.args ELSE manifest
    /\ Finish(th) /\ UNCHANGED <<storeVars, controllerLock>>

-----------------------------------------------------------------------------

\* The device starts with the profiles kept in the registry as reservations.
Init ==
    /\ Store!Init
    /\ \E stored \in [DisplayIds -> Store!TemporaryConnectors \cup {NoConnector, Store!ConnectorLimit}] :
           reservations = LoadProfiles(stored)
    /\ profiles = reservations
    /\ monitors = [d \in DisplayIds |-> 0]
    /\ manifest = FirstManifest /\ backendManifest = FirstManifest
    /\ controllerLock = NoThread /\ backendLock = NoThread
    /\ threads = [th \in Threads |-> Idle]
    /\ issued = 0 /\ failures = 0 /\ busy = 0

\* What a worker does once it has the controller lock.
Serve(th) ==
    \/ CreateFresh(th)
    \/ CreateOnPending(th)
    \/ PendingCleared(th)
    \/ CreateAfterClearing(th)
    \/ Reserved(th)
    \/ Arrived(th)
    \/ StaleCleaned(th)
    \/ ArrivalRolledBack(th)
    \/ PendingArrivalDeparted(th)
    \/ Reclaim(th)
    \/ ReclaimLocked(th)
    \/ Remove(th)
    \/ Removed(th)
    \/ Release(th)
    \/ Departed(th, "release")
    \/ Feed(th)
    \/ SetManifest(th)
    \/ ManifestApplied(th)

ReaperStep == Reap \/ Departed(Reaper, "reap")

Next ==
    \/ Tick
    \/ \E th \in Workers, r \in Requests : Submit(th, r)
    \/ \E th \in Workers : Serve(th)
    \/ ReaperStep
    \/ \E th \in Threads : Call(th)
    \/ \E th \in Threads : TimeOut(th)

Spec == Init /\ [][Next]_vars

\* Every thread that can go on does, the reaper keeps waking, and a free
\* backend lock is eventually given to every thread that waits for it.
Fairness ==
    /\ \A th \in Workers : WF_vars(Serve(th)) /\ SF_vars(Call(th))
    /\ WF_vars(ReaperStep) /\ SF_vars(Call(Reaper))

FairSpec == Spec /\ Fairness

-----------------------------------------------------------------------------
(* Safety.                                                                 *)

\* The thread's call is for the record it has a copy of.
Holds(th, d) == threads[th].at \in CallSites \ {"reclaim", "manifest"} /\ threads[th].copy.display = d
HoldsGeneration(th, d, g) == Holds(th, d) /\ threads[th].copy.generation = g

\* The backend never drops or keeps a monitor that nobody answers for: it is
\* that of the record in the store, or a create is about to depart it.
EveryMonitorHasCustodian ==
    \A d \in DisplayIds : monitors[d] # 0 =>
        \/ d \in Store!LiveDisplays /\ displays[d].generation = monitors[d]
        \/ \E th \in Workers : /\ threads[th].at \in {"arrive", "departStale"}
                                /\ HoldsGeneration(th, d, monitors[d])

Unattended(d) ==
    \A th \in Threads : \A s \in {threads[th].copy} \cup threads[th].rest :
        s = NoSnapshot \/ s.display # d

\* "Created but never enumerated": where the clients' requests are served one after another,
\* with only the reaper between their sections, a display the store believes in, that no thread
\* is busy with, has its monitor up; and when it is retained its connector is the persisted one,
\* on which it comes back after a restart.  It says that a rollback, a failed or a given-up
\* departure and an expiry leave nothing half done.  It claims nothing of requests that overlap:
\* with two workers a superseded create removes its successor's profile
\* (driver_controller.cpp:219), and a departure may meet another record (113, 366).
LiveDisplaysEstablished ==
    \A d \in Store!LiveDisplays : Unattended(d) =>
        /\ ~displays[d].pending => monitors[d] = displays[d].generation
        /\ displays[d].retain => profiles[d] = displays[d].connector

\* Once nobody is setting it, the manifest the store reports is the one whose
\* permanent monitors are up, however the requests overlapped.
ManifestsAgree ==
    (\A th \in Workers : threads[th].at # "manifest") =>
        backendManifest \in {manifest, PartialManifest}

\* Whatever the threads do, the store sees one legal operation after another,
\* with clock readings that are not too old: its theorems carry over.
StoreSpec ==
    /\ Store!Init
    /\ [][UNCHANGED Store!vars \/ Store!Next]_Store!vars

-----------------------------------------------------------------------------
(* What one step may do.                                                   *)

\* A thread marks a record pending only if its own departure of that very
\* generation failed (not if the backend was busy), and erases a record only
\* if it departed or abandoned, or could not bring up, that very generation.
RecordsFenced ==
    [][\A d \in Store!LiveDisplays :
         /\ Store!StaysRecord(d) /\ displays'[d].pending /\ ~displays[d].pending =>
                \E th \in Threads : /\ threads'[th] # threads[th]
                                    /\ HoldsGeneration(th, d, displays[d].generation)
                                    /\ threads[th].at \in DepartSites
                                    /\ threads[th].answer = "Failed"
         /\ ~Store!StaysRecord(d) =>
                \E th \in Threads : /\ threads'[th] # threads[th]
                                    /\ HoldsGeneration(th, d, displays[d].generation)
                                    /\ \/ threads[th].at \in DepartSites /\ threads[th].answer = "None"
                                       \/ threads[th].at = "clearPending" /\ displays[d].pending
                                       \/ threads[th].at \in {"reserve", "arrive", "unreserveFailed"}]_vars

\* The answer of a backend call is still true when it is acted upon: a create
\* reports success only with its own monitor up, and the lease of a record never
\* rotates between the completed departure of its monitor and the erasure of the
\* record.
AnswersStillTrue ==
    [][/\ \A th \in Workers :
           threads[th].at = "arrive" /\ threads[th].answer = "None" /\ threads'[th].at = "idle" =>
               monitors[threads[th].copy.display] = threads[th].copy.generation
       /\ \A d \in Store!LiveDisplays :
           Store!StaysRecord(d) /\ displays'[d].lease # displays[d].lease =>
               \A th \in Threads : threads[th].at \in DepartSites /\ threads[th].answer = "None" =>
                   ~HoldsGeneration(th, d, displays[d].generation)]_vars

-----------------------------------------------------------------------------
(* Liveness.                                                               *)

\* Every request is answered: nobody waits for a lock for ever.
RequestsServed ==
    \A th \in Workers : threads[th].at # "idle" ~> threads[th].at = "idle"

\* A departure that failed is tried again until the record is gone, and if the
\* lease expires the driver removes the display (unless a feed that read the
\* clock in time is still on its way).
RetirementCompletes ==
    \A d \in DisplayIds :
        /\ IsPending(d) ~> ~IsPending(d)
        /\ d \in Store!ExpiredDisplays(now) ~> d \notin Store!ExpiredDisplays(now)
=============================================================================
