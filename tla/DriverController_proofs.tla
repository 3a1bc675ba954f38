------------------------ MODULE DriverController_proofs ------------------------
(***************************************************************************)
(* The controller under any number of threads, displays, leases, failures  *)
(* and time-outs: the store sees one legal operation after another, so     *)
(* that what is proved of it carries over; a manifest is recorded only     *)
(* while it is the one whose displays are up; the answer of the backend is *)
(* still true when it is acted upon; records are erased and marked only    *)
(* for what happened to their own generation; and a monitor is left to     *)
(* nobody by nothing but a call that failed.                               *)
(*                                                                         *)
(* All of it rests on what a thread may hold: a thread with an answer of   *)
(* the backend holds the backend lock until it has the controller lock, so *)
(* no two threads have an answer at the same time; and the copies that     *)
(* threads carry name displays and leases of the store.  The last rests on *)
(* the generations as well: that of a create is its own until its monitor  *)
(* is up, and a departure that was answered "None" has left none of its    *)
(* generation.                                                             *)
(***************************************************************************)
EXTENDS DriverController, TLAPS

\* The fields a table entry has; their values do not matter here.
IsThread(x) ==
    x = [at |-> x.at, answer |-> x.answer, request |-> x.request, asked |-> x.asked,
         copy |-> x.copy, rest |-> x.rest]

IsRecord(x) ==
    x = [lease |-> x.lease, connector |-> x.connector, expires |-> x.expires, retain |-> x.retain,
         edid |-> x.edid, generation |-> x.generation, pending |-> x.pending]

\* The part of the store's types that the controller relies on.
StoreShape ==
    /\ displays = [d \in DisplayIds |-> displays[d]]
    /\ \A d \in DisplayIds : displays[d] # NoDisplay =>
           /\ IsRecord(displays[d])
           /\ displays[d].lease \in LeaseIds
           /\ displays[d].generation \in 1..MaxGeneration
    /\ nextGeneration \in Nat \ {0}
    /\ now \in 0..MaxTime

NamesRecord(s) == s.display \in DisplayIds /\ s.lease \in LeaseIds

CreateSites ==
    {"clearPending", "create", "reserve", "arrive", "unreserveStale", "unreserveFailed",
     "departStale", "departPending"}

ThreadShape(x, th) ==
    /\ IsThread(x)
    /\ x.answer \in {"none yet", "None", "Failed", "Busy"}
    /\ th \in Workers /\ x.at # "idle" => x.request \in Requests /\ x.asked \in 0..now
    /\ x.at \in CreateSites => th \in Workers /\ x.request.kind = "create"
    /\ x.at \in {"reclaim", "manifest"} => th \in Workers /\ x.request.kind = x.at
    /\ x.at \in {"start", "release", "remove"} => th \in Workers
    /\ x.at \in CallSites \ {"reclaim", "manifest"} =>
           NamesRecord(x.copy) /\ \A s \in x.rest : NamesRecord(s)

ThreadsShape ==
    /\ threads = [th \in Threads |-> threads[th]]
    /\ \A th \in Threads : ThreadShape(threads[th], th)

\* A thread with an answer of the backend.
Answered(th) == threads[th].at \in CallSites /\ threads[th].answer \in {"None", "Failed"}

AnsweredHoldsLock == \A th \in Threads : Answered(th) => backendLock = th

Applied(th) == threads[th].at = "manifest" /\ threads[th].answer = "None"

\* The displays follow the manifest of the store, but for one that is just being recorded.
ManifestFollowed ==
    \/ \E th \in Workers : Applied(th) /\ backendManifest = threads[th].request.args
    \/ (\A th \in Workers : ~Applied(th)) /\ backendManifest \in {manifest, PartialManifest}

\* An arrival that is reported is that of a monitor that is up.
ArrivalsUp ==
    /\ monitors = [d \in DisplayIds |-> monitors[d]]
    /\ \A th \in Threads : threads[th].at = "arrive" /\ threads[th].answer = "None" =>
           monitors[threads[th].copy.display] = threads[th].copy.generation

IndInv ==
    /\ StoreShape
    /\ ThreadsShape
    /\ AnsweredHoldsLock
    /\ ManifestFollowed
    /\ ArrivalsUp

-----------------------------------------------------------------------------
(* The operations of the store, as far as the controller relies on them.   *)

\* No operation but a reclaim changes the lease of a record.
KeepsLeases ==
    \A d \in Store!LiveDisplays : Store!StaysRecord(d) => displays'[d].lease = displays[d].lease

\* What a step does to the store is one of its operations, or nothing.
StoreServes ==
    \/ UNCHANGED storeVars
    \/ Store!Create \/ Store!Refuse \/ Store!Remove \/ Store!MarkPending \/ Store!Abandon \/ Store!Feed

\* Erased and unchanged records keep the shape of the table.
LEMMA ErasedKeepShape ==
  ASSUME StoreShape, now' = now, nextGeneration' = nextGeneration,
         NEW D, displays' = [d \in DisplayIds |-> IF d \in D THEN NoDisplay ELSE displays[d]]
  PROVE  StoreShape' /\ KeepsLeases
BY DEF StoreShape, KeepsLeases, Store!StaysRecord, Store!LiveDisplays, IsRecord

\* A record whose departure is pending is otherwise the same.
LEMMA PendingRecord ==
  ASSUME NEW r, IsRecord(r), NEW v
  PROVE  LET x == [r EXCEPT !.pending = v]
         IN  IsRecord(x) /\ x.lease = r.lease /\ x.generation = r.generation
BY DEF IsRecord

\* A record that was given another lease is otherwise the same.
Rotated(r, l, expiry) == [r EXCEPT !.lease = l, !.expires = expiry]

LEMMA RotatedRecord ==
  ASSUME NEW r, IsRecord(r), NEW l, NEW expiry
  PROVE  /\ IsRecord(Rotated(r, l, expiry))
         /\ Rotated(r, l, expiry).lease = l /\ Rotated(r, l, expiry).generation = r.generation
<1> DEFINE y == [r EXCEPT !.lease = l]
           x == [y EXCEPT !.expires = expiry]
<1>1. IsRecord(y) /\ y.lease = l /\ y.generation = r.generation
  BY DEF IsRecord
<1> HIDE DEF y
<1>2. IsRecord(x) /\ x.lease = y.lease /\ x.generation = y.generation
  BY <1>1 DEF IsRecord
<1>3. x = Rotated(r, l, expiry)
  BY DEF y, Rotated
<1> HIDE DEF x
<1> QED
  BY <1>1, <1>2, <1>3

LEMMA ServingKeepsShape ==
  ASSUME StoreShape, StoreServes, now' = now
  PROVE  StoreShape' /\ KeepsLeases
<1>1. CASE UNCHANGED storeVars
  BY <1>1 DEF storeVars, StoreShape, KeepsLeases, Store!StaysRecord, IsRecord
<1>2. CASE Store!Create
  <2>1. PICK r \in Store!CreateRequests, t \in Store!RequestTimes : Store!CreateTemporaryDisplay(r, t)
    BY <1>2 DEF Store!Create
  <2>2. r.display \in DisplayIds /\ r.lease \in LeaseIds
    BY DEF Store!CreateRequests
  <2>3. r.display \notin Store!LiveDisplays
    BY <2>1 DEF Store!CreateTemporaryDisplay, Store!CreateError
  <2>4. /\ displays' = [displays EXCEPT ![r.display] = Store!NewRecord(r, t)]
        /\ nextGeneration <= MaxGeneration /\ nextGeneration' = nextGeneration + 1
    BY <2>1 DEF Store!CreateTemporaryDisplay, Store!AdvanceCounters
  <2>5. /\ IsRecord(Store!NewRecord(r, t))
        /\ Store!NewRecord(r, t).lease = r.lease /\ Store!NewRecord(r, t).generation = nextGeneration
    BY DEF IsRecord, Store!NewRecord
  <2>6. nextGeneration \in 1..MaxGeneration
    BY <2>4 DEF StoreShape
  <2>7. \A d \in DisplayIds : displays'[d] = IF d = r.display THEN Store!NewRecord(r, t) ELSE displays[d]
    BY <2>2, <2>4 DEF StoreShape
  <2>8. displays' = [d \in DisplayIds |-> displays'[d]]
    BY <2>2, <2>4 DEF StoreShape
  <2>9. StoreShape'
    BY <2>2, <2>4, <2>5, <2>6, <2>7, <2>8 DEF StoreShape, IsRecord
  <2>10. KeepsLeases
    BY <2>3, <2>7 DEF KeepsLeases, Store!StaysRecord, Store!LiveDisplays
  <2> QED
    BY <2>9, <2>10
<1>3. CASE Store!Refuse
  BY <1>3 DEF Store!Refuse, Store!RefuseCreate, StoreShape, KeepsLeases, Store!StaysRecord, IsRecord
<1>4. CASE Store!Remove
  BY <1>4, ErasedKeepShape DEF Store!Remove, Store!RemoveTemporaryDisplay, Store!EraseDisplays
<1>5. CASE Store!MarkPending
  <2>1. PICK l \in LeaseIds, e \in DisplayIds : Store!MarkPendingDeparture(l, e)
    BY <1>5 DEF Store!MarkPending
  <2>2. /\ displays' = [displays EXCEPT ![e].pending = TRUE] /\ nextGeneration' = nextGeneration
        /\ displays[e] # NoDisplay
    BY <2>1 DEF Store!MarkPendingDeparture, Store!Carries, Store!DisplaysOf, Store!LiveDisplays
  <2>3. \A d \in DisplayIds : displays'[d] = IF d = e THEN [displays[e] EXCEPT !.pending = TRUE] ELSE displays[d]
    BY <2>2 DEF StoreShape
  <2>4. IsRecord(displays[e]) /\ displays' = [d \in DisplayIds |-> displays'[d]]
    BY <2>2 DEF StoreShape
  <2>5. LET x == [displays[e] EXCEPT !.pending = TRUE]
        IN  IsRecord(x) /\ x.lease = displays[e].lease /\ x.generation = displays[e].generation
    BY <2>4, PendingRecord
  <2> QED
    BY <2>2, <2>3, <2>4, <2>5 DEF StoreShape, KeepsLeases, Store!LiveDisplays, IsRecord
<1>6. CASE Store!Abandon
  BY <1>6, ErasedKeepShape DEF Store!Abandon, Store!AbandonPendingDisplay, Store!EraseDisplays
<1>7. CASE Store!Feed
  <2>1. PICK l \in LeaseIds, timeout \in RequestedTimeouts, t \in Store!RequestTimes :
            Store!FeedLease(l, timeout, t)
    BY <1>7 DEF Store!Feed
  <2>2. PICK expiry :
            displays' = [d \in DisplayIds |->
                            IF Store!Carries(l, d) /\ ~displays[d].pending
                            THEN [displays[d] EXCEPT !.expires = expiry] ELSE displays[d]]
    BY <2>1 DEF Store!FeedLease
  <2>3. nextGeneration' = nextGeneration
    BY <2>1 DEF Store!FeedLease
  <2>4. ASSUME NEW d \in DisplayIds, Store!Carries(l, d)
        PROVE  LET x == [displays[d] EXCEPT !.expires = expiry]
               IN  IsRecord(x) /\ x.lease = displays[d].lease /\ x.generation = displays[d].generation
    <3>1. IsRecord(displays[d])
      BY <2>4 DEF StoreShape, Store!Carries, Store!DisplaysOf, Store!LiveDisplays
    <3> QED
      BY <3>1 DEF IsRecord
  <2>5. \A d \in DisplayIds : \/ displays'[d] = displays[d]
                              \/ /\ displays[d] # NoDisplay /\ IsRecord(displays'[d])
                                 /\ displays'[d].lease = displays[d].lease
                                 /\ displays'[d].generation = displays[d].generation
    BY <2>2, <2>4 DEF Store!Carries, Store!DisplaysOf, Store!LiveDisplays
  <2>6. displays' = [d \in DisplayIds |-> displays'[d]]
    BY <2>2
  <2> QED
    BY <2>3, <2>5, <2>6 DEF StoreShape, KeepsLeases, Store!LiveDisplays, IsRecord
<1> QED
  BY <1>1, <1>2, <1>3, <1>4, <1>5, <1>6, <1>7 DEF StoreServes

-----------------------------------------------------------------------------
(* What the sections under the controller lock do to the threads, the      *)
(* locks and the backend.                                                  *)

Moves(th, x) == threads' = [o \in Threads |-> IF o = th THEN x ELSE threads[o]]

\* The thread goes on without an answer of the backend, or to where it needs none.
MovesOn(th) ==
    \E x : /\ Moves(th, x) /\ ThreadShape(x, th)
           /\ x.at \in CallSites => x.answer \in {"none yet", "Busy"}

\* The thread gives up the backend lock, if it has it, and records the manifest it applied.
LetsGo(th) ==
    /\ now' = now /\ monitors' = monitors /\ backendManifest' = backendManifest
    /\ backendLock' = backendLock \/ backendLock = th
    /\ manifest' = IF Applied(th) THEN threads[th].request.args ELSE manifest

Served(th) == MovesOn(th) /\ LetsGo(th) /\ StoreServes

\* What a request carries, by its kind.
LEMMA RequestArgs ==
  ASSUME NEW r \in Requests
  PROVE  /\ r.kind = "create" => r.args \in Store!CreateRequests
         /\ r.kind = "reclaim" => r.args \in Store!ReclaimRequests
         /\ r.kind = "remove" => r.args \in RemoveArgs
         /\ r.kind = "release" => r.args \in ReleaseArgs
         /\ r.kind = "feed" => r.args \in FeedArgs
         /\ r.kind = "manifest" => r.args \in Manifests
BY RequestsAssumption

\* The clock reading of a request is one the store accepts.
LEMMA AskedInTime == ASSUME now \in 0..MaxTime PROVE 0..now \subseteq Store!RequestTimes
BY ClockAssumption DEF Store!RequestTimes

\* A copy of a live record names a record.
LEMMA SnapshotNames ==
  ASSUME StoreShape, NEW d \in Store!LiveDisplays
  PROVE  NamesRecord(Snapshot(d))
BY DEF StoreShape, Store!LiveDisplays, NamesRecord, Snapshot

\* What a thread is that has given up the controller lock for a call.
AtCall(th, site, s, more) ==
    [at |-> site, answer |-> "none yet", request |-> threads[th].request,
     asked |-> threads[th].asked, copy |-> s, rest |-> more]

LEMMA GoCallMoves ==
  ASSUME IndInv, NEW th \in Threads, NEW site, NEW s, NEW more, GoCall(th, site, s, more)
  PROVE  Moves(th, AtCall(th, site, s, more))
<1>1. ThreadShape(threads[th], th) /\ threads = [o \in Threads |-> threads[o]]
  BY DEF IndInv, ThreadsShape
<1>2. threads' = [o \in Threads |-> threads'[o]]
  BY <1>1 DEF GoCall
<1>3. \A o \in Threads \ {th} : threads'[o] = threads[o]
  BY <1>1 DEF GoCall
<1>4. threads'[th] = [threads[th] EXCEPT !.at = site, !.answer = "none yet", !.copy = s, !.rest = more]
  BY <1>1 DEF GoCall
<1>5. IsThread(threads[th])
  BY <1>1 DEF ThreadShape
<1>6. threads'[th] = AtCall(th, site, s, more)
  BY <1>4, <1>5 DEF IsThread, AtCall
<1> QED
  BY <1>2, <1>3, <1>6 DEF Moves

\* Giving up the controller lock for a call.
LEMMA WorkerCalls ==
  ASSUME IndInv, NEW th \in Workers, threads[th].at # "idle",
         NEW site \in CallSites, NEW s, NEW more, GoCall(th, site, s, more),
         site \in CreateSites => threads[th].request.kind = "create",
         site \in {"reclaim", "manifest"} => threads[th].request.kind = site,
         site \notin {"reclaim", "manifest"} => NamesRecord(s) /\ \A c \in more : NamesRecord(c)
  PROVE  MovesOn(th)
<1>1. th \in Threads /\ ThreadShape(threads[th], th)
  BY DEF IndInv, ThreadsShape, Threads
<1>2. ThreadShape(AtCall(th, site, s, more), th) /\ AtCall(th, site, s, more).answer = "none yet"
  BY <1>1 DEF ThreadShape, IsThread, AtCall
<1>3. Moves(th, AtCall(th, site, s, more))
  BY <1>1, GoCallMoves
<1> QED
  BY <1>2, <1>3 DEF MovesOn

\* Giving up the controller lock to depart the next of several displays.
LEMMA ThreadDeparts ==
  ASSUME IndInv, NEW th \in Threads, th \in Workers => threads[th].at # "idle",
         NEW site \in {"release", "reap"}, site = "release" => th \in Workers,
         NEW copies, \A c \in copies : NamesRecord(c), GoDepart(th, site, copies)
  PROVE  MovesOn(th)
<1>1. PICK s \in copies : GoCall(th, site, s, copies \ {s})
  BY DEF GoDepart
<1>2. ThreadShape(threads[th], th)
  BY DEF IndInv, ThreadsShape
<1> DEFINE x == AtCall(th, site, s, copies \ {s})
<1>3. ThreadShape(x, th) /\ x.answer = "none yet"
  BY <1>2 DEF ThreadShape, IsThread, AtCall, CreateSites
<1>4. Moves(th, x)
  BY <1>1, GoCallMoves
<1> QED
  BY <1>3, <1>4 DEF MovesOn

\* Ending a request, or a round of the reaper.
LEMMA ThreadFinishes ==
  ASSUME IndInv, NEW th \in Threads, Finish(th)
  PROVE  MovesOn(th)
<1>1. Moves(th, Idle)
  BY DEF Finish, Moves, IndInv, ThreadsShape
<1>2. ThreadShape(Idle, th)
  BY DEF ThreadShape, IsThread, Idle, CallSites, CreateSites, DepartSites, UnreserveSites
<1>3. Idle.at \notin CallSites
  BY DEF Idle, CallSites, DepartSites, UnreserveSites
<1> QED
  BY <1>1, <1>2, <1>3 DEF MovesOn

\* Entering with a request.
LEMMA Entered ==
  ASSUME IndInv, NEW th \in Workers, NEW kind, Enter(th, kind)
  PROVE  /\ LetsGo(th)
         /\ threads[th].at # "idle" /\ threads[th].request \in Requests
         /\ threads[th].request.kind = kind
         /\ threads[th].asked \in Store!RequestTimes
<1>1. ThreadShape(threads[th], th) /\ threads[th].at = "start"
  BY DEF Enter, IndInv, ThreadsShape, Threads
<1>2. ~Applied(th)
  BY <1>1 DEF Applied
<1>3. LetsGo(th)
  BY <1>2 DEF Enter, LetsGo, backendVars
<1> QED
  BY <1>1, <1>3, AskedInTime DEF Enter, ThreadShape, IndInv, StoreShape

\* Coming back from a call.
LEMMA Returned ==
  ASSUME IndInv, NEW th \in Threads, NEW site \in CallSites, Return(th, site),
         manifest' = IF Applied(th) THEN threads[th].request.args ELSE manifest
  PROVE  /\ LetsGo(th)
         /\ threads[th].at = site /\ threads[th].answer \in {"None", "Failed", "Busy"}
         /\ site \in CreateSites => threads[th].request \in Requests /\ th \in Workers
                                    /\ threads[th].request.kind = "create"
                                    /\ threads[th].request.args \in Store!CreateRequests
                                    /\ threads[th].asked \in Store!RequestTimes
         /\ site \notin {"reclaim", "manifest"} =>
                NamesRecord(threads[th].copy) /\ \A c \in threads[th].rest : NamesRecord(c)
<1>1. ThreadShape(threads[th], th) /\ threads[th].at = site
  BY DEF Return, IndInv, ThreadsShape
<1>2. LetsGo(th)
  BY DEF Return, LetsGo, backendVars
<1>3. "idle" \notin CreateSites
  BY DEF CreateSites
<1>4. site \in CreateSites => threads[th].request \in Requests /\ th \in Workers
                             /\ threads[th].request.kind = "create"
                             /\ threads[th].asked \in Store!RequestTimes
  BY <1>1, <1>3, AskedInTime DEF ThreadShape, IndInv, StoreShape
<1>5. threads[th].answer \in {"None", "Failed", "Busy"}
  BY <1>1 DEF Return, ThreadShape
<1> QED
  BY <1>1, <1>2, <1>4, <1>5, RequestArgs DEF ThreadShape

\* Erasing and marking a record that is still the one of the copy are operations of the store.
LEMMA IfCurrentServes ==
  ASSUME IndInv, now' = now, NEW s, NamesRecord(s)
  PROVE  /\ \A release \in BOOLEAN : RemoveIfCurrent(s, release) => StoreServes
         /\ MarkIfCurrent(s) => StoreServes
<1>1. ASSUME NEW release \in BOOLEAN, RemoveIfCurrent(s, release)
      PROVE  StoreServes
  BY <1>1 DEF RemoveIfCurrent, StoreServes, Store!Remove, NamesRecord
<1>2. ASSUME MarkIfCurrent(s)
      PROVE  StoreServes
  BY <1>2 DEF MarkIfCurrent, StoreServes, Store!MarkPending, NamesRecord
<1> QED
  BY <1>1, <1>2

-----------------------------------------------------------------------------
(* The sections of a request, one after the other.                         *)

\* A create that the store accepts goes on with the record it made.
LEMMA StoreCreateServes ==
  ASSUME IndInv, NEW th \in Workers, now' = now, threads[th].at # "idle",
         threads[th].request \in Requests, threads[th].request.kind = "create",
         threads[th].asked \in Store!RequestTimes, StoreCreate(th)
  PROVE  MovesOn(th) /\ StoreServes
<1> DEFINE r == threads[th].request.args
           t == threads[th].asked
<1>1. r \in Store!CreateRequests /\ th \in Threads
  BY RequestArgs DEF Threads
<1>2. CASE Store!CreateTemporaryDisplay(r, t)
           /\ GoCall(th, IF r.ephemeral THEN "arrive" ELSE "reserve", Created(r), {})
  <2>1. NamesRecord(Created(r))
    BY <1>1 DEF NamesRecord, Created, Store!CreateRequests
  <2>2. MovesOn(th)
    <3>1. PICK site \in {"arrive", "reserve"} : GoCall(th, site, Created(r), {})
      BY <1>2
    <3>2. site \in CallSites
      BY DEF CallSites
    <3> QED
      BY <2>1, <3>1, <3>2, WorkerCalls
  <2>3. StoreServes
    BY <1>1, <1>2 DEF StoreServes, Store!Create
  <2> QED
    BY <2>2, <2>3
<1>3. CASE Store!RefuseCreate(r, t) /\ Finish(th)
  BY <1>1, <1>3, ThreadFinishes DEF StoreServes, Store!Refuse
<1>4. CASE UNCHANGED storeVars /\ Finish(th)
  BY <1>1, <1>4, ThreadFinishes DEF StoreServes
<1> QED
  BY <1>2, <1>3, <1>4 DEF StoreCreate

LEMMA CreateFreshServes ==
  ASSUME IndInv, NEW th \in Workers, CreateFresh(th)
  PROVE  Served(th)
<1>1. Enter(th, "create") /\ StoreCreate(th)
  BY DEF CreateFresh
<1> QED
  BY <1>1, Entered, StoreCreateServes DEF Served, LetsGo

LEMMA CreateOnPendingServes ==
  ASSUME IndInv, NEW th \in Workers, CreateOnPending(th)
  PROVE  Served(th)
<1> DEFINE d == threads[th].request.args.display
<1>1. /\ Enter(th, "create") /\ d \in Store!LiveDisplays
      /\ GoCall(th, "clearPending", Snapshot(d), {}) /\ UNCHANGED storeVars
  BY DEF CreateOnPending, IsPending
<1>2. NamesRecord(Snapshot(d))
  BY <1>1, SnapshotNames DEF IndInv
<1>3. "clearPending" \in CallSites
  BY DEF CallSites, DepartSites
<1> QED
  BY <1>1, <1>2, <1>3, Entered, WorkerCalls DEF Served, StoreServes

\* Keeping the controller lock to create: no call is under way.
LEMMA KeepsLock ==
  ASSUME IndInv, NEW th \in Workers, threads[th].at = "clearPending", KeepLockToCreate(th)
  PROVE  MovesOn(th)
<1> DEFINE x == [threads[th] EXCEPT !.at = "create"]
<1>1. th \in Threads /\ ThreadShape(threads[th], th) /\ threads = [o \in Threads |-> threads[o]]
  BY DEF Threads, IndInv, ThreadsShape
<1>2. Moves(th, x)
  BY <1>1 DEF KeepLockToCreate, Moves
<1>3. IsThread(threads[th])
  BY <1>1 DEF ThreadShape
<1>4. /\ IsThread(x) /\ x.at = "create" /\ x.answer = threads[th].answer
      /\ x.request = threads[th].request /\ x.asked = threads[th].asked
  BY <1>3 DEF IsThread
<1>5. "create" \notin CallSites /\ "clearPending" \in CreateSites
  BY DEF CallSites, DepartSites, UnreserveSites, CreateSites
<1> HIDE DEF x
<1>6. ThreadShape(x, th)
  BY <1>1, <1>4, <1>5 DEF ThreadShape
<1> QED
  BY <1>2, <1>4, <1>5, <1>6 DEF MovesOn

LEMMA PendingClearedServes ==
  ASSUME IndInv, NEW th \in Workers, PendingCleared(th)
  PROVE  Served(th)
<1> DEFINE s == threads[th].copy
<1>1. th \in Threads /\ "clearPending" \in CallSites \cap CreateSites
  BY DEF Threads, CallSites, DepartSites, CreateSites
<1>2. Return(th, "clearPending") /\ manifest' = manifest /\ ~Applied(th)
  BY DEF PendingCleared, Return, Applied
<1>3. /\ LetsGo(th) /\ threads[th].at = "clearPending" /\ NamesRecord(s)
      /\ threads[th].request.args \in Store!CreateRequests
  BY <1>1, <1>2, Returned
<1>4. now' = now
  BY <1>3 DEF LetsGo
<1>5. CASE RemoveIfCurrent(s, FALSE) /\ KeepLockToCreate(th)
  BY <1>3, <1>4, <1>5, KeepsLock, IfCurrentServes DEF Served
<1>6. CASE /\ MayAbandon(th) /\ KeepLockToCreate(th)
           /\ Store!AbandonPendingDisplay(s.lease, s.display, s.generation, threads[th].request.args.owner)
  <2>1. threads[th].request.args.owner \in Capabilities
    BY <1>3, <1>6 DEF MayAbandon, Store!CreateRequests
  <2>2. s.generation \in 1..MaxGeneration
    BY <1>6 DEF MayAbandon, Current, Store!LiveDisplays, IndInv, StoreShape
  <2>3. StoreServes
    BY <1>3, <1>4, <1>6, <2>1, <2>2 DEF StoreServes, Store!Abandon, NamesRecord
  <2> QED
    BY <1>3, <1>6, <2>3, KeepsLock DEF Served
<1>7. CASE MarkIfCurrent(s) /\ Finish(th)
  BY <1>1, <1>3, <1>4, <1>7, ThreadFinishes, IfCurrentServes DEF Served
<1>8. CASE UNCHANGED storeVars /\ Finish(th)
  BY <1>1, <1>3, <1>8, ThreadFinishes DEF Served, StoreServes
<1> QED
  BY <1>5, <1>6, <1>7, <1>8 DEF PendingCleared

LEMMA CreateAfterClearingServes ==
  ASSUME IndInv, NEW th \in Workers, CreateAfterClearing(th)
  PROVE  Served(th)
<1>1. /\ threads[th].at = "create" /\ StoreCreate(th)
      /\ UNCHANGED <<now, manifest, backendVars, backendLock>>
  BY DEF CreateAfterClearing
<1>2. ThreadShape(threads[th], th) /\ "create" \in CreateSites
  BY DEF IndInv, ThreadsShape, Threads, CreateSites
<1>3. /\ threads[th].request \in Requests /\ threads[th].request.kind = "create"
      /\ threads[th].asked \in Store!RequestTimes
  BY <1>1, <1>2, AskedInTime DEF ThreadShape, IndInv, StoreShape
<1>4. LetsGo(th)
  BY <1>1 DEF LetsGo, Applied, backendVars
<1> QED
  BY <1>1, <1>3, <1>4, StoreCreateServes DEF Served

LEMMA ReservedServes ==
  ASSUME IndInv, NEW th \in Workers, Reserved(th)
  PROVE  Served(th)
<1> DEFINE s == threads[th].copy
<1>1. th \in Threads /\ "reserve" \in CallSites \cap CreateSites
  BY DEF Threads, CallSites, CreateSites
<1>2. Return(th, "reserve") /\ manifest' = manifest /\ ~Applied(th)
  BY DEF Reserved, Return, Applied
<1>3. /\ LetsGo(th) /\ threads[th].at = "reserve" /\ NamesRecord(s)
      /\ threads[th].request.kind = "create"
  BY <1>1, <1>2, Returned
<1>4. now' = now
  BY <1>3 DEF LetsGo
<1>5. CASE RemoveIfCurrent(s, TRUE) /\ Finish(th)
  BY <1>1, <1>3, <1>4, <1>5, ThreadFinishes, IfCurrentServes DEF Served
<1>6. CASE UNCHANGED storeVars /\ GoCall(th, IF Current(s) THEN "arrive" ELSE "unreserveStale", s, {})
  <2>1. PICK site \in {"arrive", "unreserveStale"} : GoCall(th, site, s, {})
    BY <1>6
  <2>2. site \in CallSites
    BY DEF CallSites, UnreserveSites
  <2>3. MovesOn(th)
    BY <1>3, <2>1, <2>2, WorkerCalls
  <2> QED
    BY <1>3, <1>6, <2>3 DEF Served, StoreServes
<1> QED
  BY <1>5, <1>6 DEF Reserved

LEMMA ArrivedServes ==
  ASSUME IndInv, NEW th \in Workers, Arrived(th)
  PROVE  Served(th)
<1> DEFINE s == threads[th].copy
<1>1. th \in Threads /\ "arrive" \in CallSites \cap CreateSites
  BY DEF Threads, CallSites, CreateSites
<1>2. Return(th, "arrive") /\ manifest' = manifest /\ ~Applied(th)
  BY DEF Arrived, Return, Applied
<1>3. /\ LetsGo(th) /\ threads[th].at = "arrive" /\ NamesRecord(s)
      /\ threads[th].request.kind = "create"
  BY <1>1, <1>2, Returned
<1>4. now' = now
  BY <1>3 DEF LetsGo
<1>5. CASE RemoveIfCurrent(s, TRUE) /\ Finish(th)
  BY <1>1, <1>3, <1>4, <1>5, ThreadFinishes, IfCurrentServes DEF Served
<1>6. ASSUME NEW site \in {"unreserveFailed", "departStale", "departPending"},
             GoCall(th, site, s, {}), UNCHANGED storeVars
      PROVE  Served(th)
  <2>1. site \in CallSites \ {"reclaim", "manifest"}
    BY DEF CallSites, UnreserveSites, DepartSites
  <2>2. MovesOn(th)
    BY <1>3, <1>6, <2>1, WorkerCalls
  <2> QED
    BY <1>3, <1>6, <2>2 DEF Served, StoreServes
<1>7. CASE UNCHANGED storeVars /\ Finish(th)
  BY <1>1, <1>3, <1>7, ThreadFinishes DEF Served, StoreServes
<1> QED
  BY <1>5, <1>6, <1>7 DEF Arrived

LEMMA CleanupsServe ==
  ASSUME IndInv, NEW th \in Workers,
         StaleCleaned(th) \/ ArrivalRolledBack(th) \/ PendingArrivalDeparted(th)
  PROVE  Served(th)
<1> DEFINE s == threads[th].copy
<1>1. th \in Threads
  BY DEF Threads
<1>2. PICK site \in {"unreserveStale", "departStale", "unreserveFailed", "departPending"} :
          Return(th, site) /\ manifest' = manifest /\ Finish(th)
  BY DEF StaleCleaned, ArrivalRolledBack, PendingArrivalDeparted
<1>3. site \in CallSites \ {"reclaim", "manifest"} /\ ~Applied(th)
  BY <1>2 DEF Return, Applied, CallSites, UnreserveSites, DepartSites
<1>4. LetsGo(th) /\ NamesRecord(s)
  BY <1>1, <1>2, <1>3, Returned
<1>5. \/ UNCHANGED storeVars
      \/ \E release \in BOOLEAN : RemoveIfCurrent(s, release)
  BY DEF StaleCleaned, ArrivalRolledBack, PendingArrivalDeparted
<1>6. StoreServes
  BY <1>4, <1>5, IfCurrentServes DEF LetsGo, StoreServes
<1> QED
  BY <1>1, <1>2, <1>4, <1>6, ThreadFinishes DEF Served

LEMMA RequestsForCallsServe ==
  ASSUME IndInv, NEW th \in Workers, Reclaim(th) \/ SetManifest(th)
  PROVE  Served(th)
<1>1. PICK site \in {"reclaim", "manifest"} :
          Enter(th, site) /\ GoCall(th, site, NoSnapshot, {}) /\ UNCHANGED storeVars
  BY DEF Reclaim, SetManifest
<1>2. site \in CallSites \ CreateSites
  BY DEF CallSites, CreateSites
<1>3. LetsGo(th) /\ threads[th].at # "idle" /\ threads[th].request.kind = site
  BY <1>1, Entered
<1>4. MovesOn(th)
  BY <1>1, <1>2, <1>3, WorkerCalls
<1> QED
  BY <1>1, <1>3, <1>4 DEF Served, StoreServes

LEMMA FeedServes ==
  ASSUME IndInv, NEW th \in Workers, Feed(th)
  PROVE  Served(th)
<1> DEFINE r == threads[th].request.args
<1>1. th \in Threads /\ Enter(th, "feed") /\ Finish(th)
  BY DEF Feed, Threads
<1>2. /\ LetsGo(th) /\ threads[th].request \in Requests /\ threads[th].request.kind = "feed"
      /\ threads[th].asked \in Store!RequestTimes
  BY <1>1, Entered
<1>3. r.lease \in LeaseIds /\ r.timeout \in RequestedTimeouts
  BY <1>2, RequestArgs DEF FeedArgs
<1>4. UNCHANGED storeVars \/ Store!FeedLease(r.lease, r.timeout, threads[th].asked)
  BY DEF Feed
<1>5. StoreServes
  BY <1>2, <1>3, <1>4 DEF StoreServes, Store!Feed, LetsGo
<1> QED
  BY <1>1, <1>2, <1>5, ThreadFinishes DEF Served

\* A departure that was answered is recorded for the copied record, if that is still there.
LEMMA RecordDepartureServes ==
  ASSUME IndInv, NEW th \in Threads, now' = now, RecordDeparture(th), NamesRecord(threads[th].copy),
         threads[th].answer \in {"None", "Failed", "Busy"}
  PROVE  StoreServes
<1>1. CASE threads[th].answer = "None"
  BY <1>1, IfCurrentServes DEF RecordDeparture
<1>2. CASE threads[th].answer = "Failed"
  BY <1>2, IfCurrentServes DEF RecordDeparture
<1>3. CASE threads[th].answer = "Busy"
  BY <1>3 DEF RecordDeparture, StoreServes
<1> QED
  BY <1>1, <1>2, <1>3

LEMMA RemovesServe ==
  ASSUME IndInv, NEW th \in Workers, Remove(th) \/ Removed(th)
  PROVE  Served(th)
<1> DEFINE r == threads[th].request.args
<1>1. th \in Threads /\ "remove" \in CallSites \ (CreateSites \cup {"reclaim", "manifest"})
  BY DEF Threads, CallSites, DepartSites, CreateSites
<1>2. CASE Remove(th)
  <2>1. Enter(th, "remove") /\ UNCHANGED storeVars
    BY <1>2 DEF Remove
  <2>2. LetsGo(th) /\ threads[th].at # "idle"
    BY <2>1, Entered
  <2>3. CASE Store!Carries(r.lease, r.display) /\ GoCall(th, "remove", Snapshot(r.display), {})
    <3>1. NamesRecord(Snapshot(r.display))
      BY <2>3, SnapshotNames DEF Store!Carries, Store!DisplaysOf, IndInv
    <3> QED
      BY <1>1, <2>1, <2>2, <2>3, <3>1, WorkerCalls DEF Served, StoreServes
  <2>4. CASE Finish(th)
    BY <1>1, <2>1, <2>2, <2>4, ThreadFinishes DEF Served, StoreServes
  <2> QED
    BY <1>2, <2>3, <2>4 DEF Remove
<1>3. CASE Removed(th)
  <2>1. Return(th, "remove") /\ RecordDeparture(th) /\ Finish(th) /\ manifest' = manifest /\ ~Applied(th)
    BY <1>3 DEF Removed, Return, Applied
  <2>2. LetsGo(th) /\ NamesRecord(threads[th].copy) /\ threads[th].answer \in {"None", "Failed", "Busy"}
    BY <1>1, <2>1, Returned
  <2> QED
    BY <1>1, <2>1, <2>2, ThreadFinishes, RecordDepartureServes DEF Served, LetsGo
<1> QED
  BY <1>2, <1>3

\* Releasing a lease and reaping depart copies of live records.
LEMMA ReleaseServes ==
  ASSUME IndInv, NEW th \in Workers, Release(th)
  PROVE  Served(th)
<1> DEFINE copies == {Snapshot(d) : d \in Store!DisplaysOf(threads[th].request.args.lease)}
<1>1. Enter(th, "release") /\ UNCHANGED storeVars /\ th \in Threads
  BY DEF Release, Threads
<1>2. LetsGo(th) /\ threads[th].at # "idle"
  BY <1>1, Entered
<1>3. \A c \in copies : NamesRecord(c)
  BY SnapshotNames DEF Store!DisplaysOf, IndInv
<1>4. GoDepart(th, "release", copies) \/ Finish(th)
  BY DEF Release
<1>5. MovesOn(th)
  BY <1>1, <1>2, <1>3, <1>4, ThreadDeparts, ThreadFinishes
<1> QED
  BY <1>1, <1>2, <1>5 DEF Served, StoreServes

LEMMA ReapServes ==
  ASSUME IndInv, Reap
  PROVE  Served(Reaper)
<1> DEFINE copies == {Snapshot(d) : d \in ReapCandidates}
<1>1. /\ Reaper \in Threads /\ Reaper \notin Workers
      /\ threads[Reaper].at = "idle" /\ GoDepart(Reaper, "reap", copies)
      /\ UNCHANGED <<storeVars, now, manifest, backendVars, controllerLock, backendLock, bounds>>
  BY ThreadsAssumption DEF Reap, Threads
<1>2. LetsGo(Reaper)
  BY <1>1 DEF LetsGo, Applied, backendVars
<1>3. \A c \in copies : NamesRecord(c)
  BY SnapshotNames DEF ReapCandidates, Store!ExpiredDisplays, Store!LiveDisplays, IndInv
<1>4. MovesOn(Reaper)
  BY <1>1, <1>3, ThreadDeparts
<1> QED
  BY <1>1, <1>2, <1>4 DEF Served, StoreServes

LEMMA DepartedServes ==
  ASSUME IndInv, NEW th \in Threads, NEW site \in {"release", "reap"},
         site = "release" => th \in Workers, Departed(th, site)
  PROVE  Served(th)
<1>1. Return(th, site) /\ RecordDeparture(th) /\ manifest' = manifest
  BY DEF Departed
<1>2. site \in CallSites \ {"reclaim", "manifest"} /\ threads[th].at = site /\ ~Applied(th)
  BY <1>1 DEF CallSites, DepartSites, Return, Applied
<1>3. /\ LetsGo(th) /\ threads[th].answer \in {"None", "Failed", "Busy"}
      /\ NamesRecord(threads[th].copy) /\ \A c \in threads[th].rest : NamesRecord(c)
  BY <1>1, <1>2, Returned
<1>4. StoreServes
  BY <1>1, <1>3, RecordDepartureServes DEF LetsGo
<1>5. threads[th].at # "idle"
  BY <1>2
<1>6. GoDepart(th, site, threads[th].rest) \/ Finish(th)
  BY DEF Departed
<1>7. MovesOn(th)
  BY <1>3, <1>5, <1>6, ThreadDeparts, ThreadFinishes
<1> QED
  BY <1>3, <1>4, <1>7 DEF Served

LEMMA ManifestAppliedServes ==
  ASSUME IndInv, NEW th \in Workers, ManifestApplied(th)
  PROVE  Served(th)
<1>1. th \in Threads /\ "manifest" \in CallSites
  BY DEF Threads, CallSites
<1>2. Return(th, "manifest") /\ Finish(th) /\ UNCHANGED storeVars
  BY DEF ManifestApplied
<1>3. manifest' = IF Applied(th) THEN threads[th].request.args ELSE manifest
  BY <1>2 DEF ManifestApplied, Return, Applied
<1>4. LetsGo(th)
  BY <1>1, <1>2, <1>3, Returned
<1> QED
  BY <1>1, <1>2, <1>4, ThreadFinishes DEF Served, StoreServes

\* A reclaim is the one step that gives records another lease.
LEMMA ReclaimLockedMoves ==
  ASSUME IndInv, NEW th \in Workers, ReclaimLocked(th)
  PROVE  /\ MovesOn(th) /\ LetsGo(th) /\ StoreShape'
         /\ UNCHANGED storeVars \/ (Answered(th) /\ threads[th].at = "reclaim" /\ Store!Reclaim)
<1> DEFINE r == threads[th].request.args
           t == threads[th].asked
           old == displays[r.display].lease
<1>1. th \in Threads /\ "reclaim" \in CallSites \ CreateSites
  BY DEF Threads, CallSites, CreateSites
<1>2. Return(th, "reclaim") /\ Finish(th) /\ manifest' = manifest /\ ~Applied(th)
  BY DEF ReclaimLocked, Return, Applied
<1>3. LetsGo(th) /\ threads[th].at = "reclaim"
  BY <1>1, <1>2, Returned
<1>4. MovesOn(th)
  BY <1>1, <1>2, ThreadFinishes
<1>5. CASE UNCHANGED storeVars
  <2>1. StoreShape'
    BY <1>3, <1>5 DEF IndInv, StoreShape, LetsGo, storeVars, IsRecord
  <2> QED
    BY <1>3, <1>4, <1>5, <2>1
<1>6. CASE threads[th].answer = "None" /\ Store!ReclaimTemporaryDisplay(r, t)
  <2>1. r \in Store!ReclaimRequests /\ t \in Store!RequestTimes
    BY <1>1, <1>3, RequestArgs, AskedInTime DEF IndInv, ThreadsShape, ThreadShape, StoreShape
  <2>2. Store!Reclaim
    BY <1>3, <1>6, <2>1 DEF Store!Reclaim, LetsGo
  <2>3. Answered(th)
    BY <1>1, <1>3, <1>6 DEF Answered
  <2>4. PICK expiry :
            displays' = [d \in DisplayIds |->
                            IF d \in Store!DisplaysOf(old)
                            THEN Rotated(displays[d], r.newLease, expiry) ELSE displays[d]]
    BY <1>6 DEF Store!ReclaimTemporaryDisplay, Rotated
  <2>5. nextGeneration' = nextGeneration /\ now' = now /\ r.newLease \in LeaseIds
    BY <1>3, <1>6, <2>1 DEF Store!ReclaimTemporaryDisplay, LetsGo, Store!ReclaimRequests
  <2>6. \A d \in Store!DisplaysOf(old) :
            /\ d \in DisplayIds /\ displays[d] # NoDisplay
            /\ IsRecord(Rotated(displays[d], r.newLease, expiry))
            /\ Rotated(displays[d], r.newLease, expiry).lease = r.newLease
            /\ Rotated(displays[d], r.newLease, expiry).generation = displays[d].generation
    BY RotatedRecord DEF IndInv, StoreShape, Store!DisplaysOf, Store!LiveDisplays
  <2>7. \A d \in DisplayIds : \/ displays'[d] = displays[d]
                              \/ /\ displays[d] # NoDisplay /\ IsRecord(displays'[d])
                                 /\ displays'[d].lease \in LeaseIds
                                 /\ displays'[d].generation = displays[d].generation
    BY <2>4, <2>5, <2>6
  <2>8. displays' = [d \in DisplayIds |-> displays'[d]]
    BY <2>4
  <2>9. StoreShape'
    BY <2>5, <2>7, <2>8 DEF IndInv, StoreShape, IsRecord
  <2> QED
    BY <1>3, <1>4, <2>2, <2>3, <2>9
<1> QED
  BY <1>5, <1>6 DEF ReclaimLocked

-----------------------------------------------------------------------------
(* Requests, waits for the backend lock, and calls.                        *)

\* A thread that starts with a request.
Started(i, r, t) == [i EXCEPT !.at = "start", !.request = r, !.asked = t]

LEMMA StartedShape ==
  ASSUME NEW i, IsThread(i), NEW r, NEW t
  PROVE  /\ IsThread(Started(i, r, t)) /\ Started(i, r, t).at = "start"
         /\ Started(i, r, t).answer = i.answer
         /\ Started(i, r, t).request = r /\ Started(i, r, t).asked = t
<1> DEFINE y == [i EXCEPT !.at = "start"]
           z == [y EXCEPT !.request = r]
           x == [z EXCEPT !.asked = t]
<1>1. IsThread(y) /\ y.at = "start" /\ y.answer = i.answer
  BY DEF IsThread
<1> HIDE DEF y
<1>2. IsThread(z) /\ z.at = "start" /\ z.answer = i.answer /\ z.request = r
  BY <1>1 DEF IsThread
<1> HIDE DEF z
<1>3. /\ IsThread(x) /\ x.at = "start" /\ x.answer = i.answer
      /\ x.request = r /\ x.asked = t
  BY <1>2 DEF IsThread
<1>4. x = Started(i, r, t)
  BY DEF y, z, Started
<1> HIDE DEF x
<1> QED
  BY <1>3, <1>4

LEMMA SubmitServes ==
  ASSUME IndInv, NEW th \in Workers, NEW r \in Requests, Submit(th, r)
  PROVE  Served(th)
<1> DEFINE x == Started(Idle, r, now)
<1>1. th \in Threads /\ ThreadShape(threads[th], th) /\ threads = [o \in Threads |-> threads[o]]
  BY DEF Threads, IndInv, ThreadsShape
<1>2. /\ IsThread(x) /\ x.at = "start" /\ x.answer = "none yet"
      /\ x.request = r /\ x.asked = now
  <2>1. IsThread(Idle) /\ Idle.answer = "none yet"
    BY DEF IsThread, Idle
  <2>2. \A i : IsThread(i) =>
            /\ IsThread(Started(i, r, now)) /\ Started(i, r, now).at = "start"
            /\ Started(i, r, now).answer = i.answer
            /\ Started(i, r, now).request = r /\ Started(i, r, now).asked = now
    BY StartedShape
  <2> QED
    BY <2>1, <2>2
<1>3. Moves(th, x)
  BY <1>1 DEF Submit, Moves, Started
<1>4. "start" \notin CallSites \cup CreateSites \cup {"reclaim", "manifest"} /\ now \in 0..now
  BY DEF CallSites, DepartSites, UnreserveSites, CreateSites, IndInv, StoreShape
<1> HIDE DEF x
<1>5. ThreadShape(x, th)
  BY <1>2, <1>4 DEF ThreadShape
<1>6. LetsGo(th) /\ StoreServes
  BY DEF Submit, LetsGo, Applied, StoreServes, backendVars
<1>7. x.at \notin CallSites
  BY <1>2, <1>4
<1> QED
  BY <1>3, <1>5, <1>6, <1>7 DEF Served, MovesOn

LEMMA TimeOutServes ==
  ASSUME IndInv, NEW th \in Threads, TimeOut(th)
  PROVE  Served(th)
<1> DEFINE x == [threads[th] EXCEPT !.answer = "Busy"]
<1>1. ThreadShape(threads[th], th) /\ threads = [o \in Threads |-> threads[o]]
  BY DEF IndInv, ThreadsShape
<1>2. Moves(th, x)
  BY <1>1 DEF TimeOut, Moves
<1>3. /\ IsThread(x) /\ x.answer = "Busy" /\ x.at = threads[th].at
      /\ x.request = threads[th].request /\ x.asked = threads[th].asked
      /\ x.copy = threads[th].copy /\ x.rest = threads[th].rest
  <2>1. IsThread(threads[th])
    BY <1>1 DEF ThreadShape
  <2> QED
    BY <2>1 DEF IsThread
<1> HIDE DEF x
<1>4. ThreadShape(x, th)
  BY <1>1, <1>3 DEF ThreadShape
<1>5. LetsGo(th) /\ StoreServes
  BY DEF TimeOut, Waiting, LetsGo, Applied, StoreServes, backendVars
<1> QED
  BY <1>2, <1>3, <1>4, <1>5 DEF Served, MovesOn

\* What a call does to what the invariant is about.
LEMMA CallEffects ==
  ASSUME IndInv, NEW th \in Threads, CallAt(th), threads[th].at \in CallSites
  PROVE  \E a \in {"None", "Failed"} :
             /\ threads' = [threads EXCEPT ![th].answer = a]
             /\ threads[th].at # "manifest" => backendManifest' = backendManifest
             /\ threads[th].at = "manifest" /\ a = "None" =>
                    backendManifest' = threads[th].request.args
             /\ threads[th].at = "manifest" /\ a = "Failed" =>
                    backendManifest' \in {backendManifest, PartialManifest}
             /\ monitors' = [d \in DisplayIds |-> monitors'[d]]
             /\ threads[th].at = "arrive" /\ a = "None" =>
                    monitors'[threads[th].copy.display] = threads[th].copy.generation
<1> DEFINE site == threads[th].at
           s == threads[th].copy
<1>1. ThreadShape(threads[th], th) /\ monitors = [d \in DisplayIds |-> monitors[d]]
  BY DEF IndInv, ThreadsShape, ArrivalsUp
<1>2. CASE site \in DepartSites /\ \E g : Depart(th, s.display, g)
  BY <1>1, <1>2 DEF Depart, Answers, DepartSites
<1>3. CASE site \in UnreserveSites /\ Unreserve(th, s.display)
  BY <1>1, <1>3 DEF Unreserve, Answers, UnreserveSites
<1>4. CASE site = "reserve" /\ Reserve(th, s)
  BY <1>1, <1>4 DEF Reserve, Answers
<1>5. CASE site = "arrive" /\ Arrive(th, s)
  <2>1. s.display \in DisplayIds
    BY <1>1, <1>5 DEF ThreadShape, NamesRecord
  <2> QED
    BY <1>1, <1>5, <2>1 DEF Arrive, Answers
<1>6. CASE site = "manifest" /\ ApplyManifest(th, threads[th].request.args)
  BY <1>1, <1>6 DEF ApplyManifest, Answers
<1>7. CASE site = "reclaim" /\ Answers(th, "None") /\ UNCHANGED backendVars
  BY <1>1, <1>7 DEF Answers, backendVars
<1> QED
  BY <1>2, <1>3, <1>4, <1>5, <1>6, <1>7 DEF CallAt, DepartSites

-----------------------------------------------------------------------------
(* Every step is one of these four.                                        *)

LEMMA ServedOrReclaims ==
  ASSUME IndInv, NEW th \in Workers, Serve(th)
  PROVE  Served(th) \/ ReclaimLocked(th)
<1>1. CASE CreateFresh(th) \/ CreateOnPending(th) \/ PendingCleared(th) \/ CreateAfterClearing(th)
  BY <1>1, CreateFreshServes, CreateOnPendingServes, PendingClearedServes, CreateAfterClearingServes
<1>2. CASE Reserved(th) \/ Arrived(th) \/ StaleCleaned(th) \/ ArrivalRolledBack(th)
           \/ PendingArrivalDeparted(th)
  BY <1>2, ReservedServes, ArrivedServes, CleanupsServe
<1>3. CASE Reclaim(th) \/ SetManifest(th) \/ Feed(th) \/ Remove(th) \/ Removed(th)
  BY <1>3, RequestsForCallsServe, FeedServes, RemovesServe
<1>4. CASE Release(th) \/ Departed(th, "release") \/ ManifestApplied(th)
  BY <1>4, ReleaseServes, DepartedServes, ManifestAppliedServes DEF Threads
<1> QED
  BY <1>1, <1>2, <1>3, <1>4 DEF Serve

LEMMA StepCases ==
  ASSUME IndInv, Next
  PROVE  \/ Tick
         \/ \E th \in Threads : Call(th)
         \/ \E th \in Threads : Served(th)
         \/ \E th \in Workers : ReclaimLocked(th)
<1>1. \A th \in Workers : th \in Threads
  BY DEF Threads
<1>2. Reaper \in Threads
  BY DEF Threads
<1>3. ASSUME NEW th \in Workers, Serve(th)
      PROVE  Served(th) \/ ReclaimLocked(th)
  BY <1>3, ServedOrReclaims
<1>4. CASE ReaperStep
  BY <1>2, <1>4, ReapServes, DepartedServes DEF ReaperStep
<1>5. CASE \E th \in Workers, r \in Requests : Submit(th, r)
  BY <1>1, <1>5, SubmitServes
<1>6. CASE \E th \in Threads : TimeOut(th)
  BY <1>6, TimeOutServes
<1> QED
  BY <1>1, <1>3, <1>4, <1>5, <1>6 DEF Next

\* A step of one thread that carries no answer of the backend further.
LEMMA ThreadKeeps ==
  ASSUME IndInv, NEW th \in Threads, MovesOn(th), LetsGo(th), StoreShape'
  PROVE  IndInv'
<1>1. PICK x : /\ Moves(th, x) /\ ThreadShape(x, th)
               /\ x.at \in CallSites => x.answer \in {"none yet", "Busy"}
  BY DEF MovesOn
<1>2. threads'[th] = x /\ \A o \in Threads \ {th} : threads'[o] = threads[o]
  BY <1>1 DEF Moves
<1>3. now' = now /\ monitors' = monitors /\ backendManifest' = backendManifest
  BY DEF LetsGo
<1>4. ThreadsShape'
  <2>1. threads' = [o \in Threads |-> threads'[o]]
    BY <1>1 DEF Moves
  <2>2. \A o \in Threads : ThreadShape(threads'[o], o)
    BY <1>1, <1>2 DEF IndInv, ThreadsShape
  <2> QED
    BY <1>3, <2>1, <2>2 DEF ThreadsShape, ThreadShape
<1>5. ~Answered(th)' /\ \A o \in Threads \ {th} : Answered(o)' <=> Answered(o)
  BY <1>1, <1>2 DEF Answered
<1>6. AnsweredHoldsLock'
  BY <1>5 DEF AnsweredHoldsLock, IndInv, LetsGo
<1>7. \A o \in Threads : Applied(o) => Answered(o)
  BY DEF Applied, Answered, CallSites
<1>8. ~Applied(th)' /\ \A o \in Threads \ {th} : Applied(o)' <=> Applied(o)
  BY <1>1, <1>2 DEF Applied, CallSites
<1>9. ManifestFollowed'
  <2>1. CASE Applied(th)
    <3>1. \A o \in Threads \ {th} : ~Applied(o)
      BY <1>7, <2>1 DEF IndInv, AnsweredHoldsLock
    <3>2. backendManifest = threads[th].request.args
      <4>1. th \in Workers
        BY <2>1 DEF IndInv, ThreadsShape, ThreadShape, Applied
      <4>2. PICK o \in Workers : Applied(o) /\ backendManifest = threads[o].request.args
        BY <2>1, <4>1 DEF IndInv, ManifestFollowed
      <4>3. o = th
        BY <3>1, <4>2 DEF Threads
      <4> QED
        BY <4>2, <4>3
    <3>3. \A o \in Workers : ~Applied(o)'
      BY <1>8, <3>1 DEF Threads
    <3> QED
      BY <1>3, <2>1, <3>2, <3>3 DEF ManifestFollowed, LetsGo
  <2>2. CASE ~Applied(th)
    <3>1. manifest' = manifest
      BY <2>2 DEF LetsGo
    <3>2. CASE \E o \in Workers : Applied(o) /\ backendManifest = threads[o].request.args
      BY <1>2, <1>3, <1>8, <2>2, <3>2 DEF ManifestFollowed, Threads
    <3>3. CASE (\A o \in Workers : ~Applied(o)) /\ backendManifest \in {manifest, PartialManifest}
      BY <1>3, <1>8, <3>1, <3>3 DEF ManifestFollowed, Threads
    <3> QED
      BY <3>2, <3>3 DEF IndInv, ManifestFollowed
  <2> QED
    BY <2>1, <2>2
<1>10. ArrivalsUp'
  <2>1. x.at # "arrive" \/ x.answer # "None"
    BY <1>1 DEF CallSites
  <2> QED
    BY <1>2, <1>3, <2>1 DEF ArrivalsUp, IndInv
<1> QED
  BY <1>4, <1>6, <1>9, <1>10 DEF IndInv

LEMMA TickKeeps ==
  ASSUME IndInv, Tick
  PROVE  IndInv'
<1>1. /\ now \in 0..MaxTime /\ now' = now + 1 /\ now' \in 0..MaxTime
      /\ UNCHANGED <<storeVars, manifest, backendVars, backendLock, threads>>
  BY ClockAssumption DEF Tick, IndInv, StoreShape
<1>2. StoreShape'
  BY <1>1 DEF IndInv, StoreShape, storeVars, IsRecord
<1>3. ThreadsShape'
  <2>1. \A t : t \in 0..now => t \in 0..now'
    BY <1>1
  <2>2. \A th \in Threads : ThreadShape(threads[th], th)'
    BY <1>1, <2>1 DEF IndInv, ThreadsShape, ThreadShape
  <2> QED
    BY <1>1, <2>2 DEF IndInv, ThreadsShape
<1>4. AnsweredHoldsLock' /\ ManifestFollowed' /\ ArrivalsUp'
  BY <1>1 DEF IndInv, AnsweredHoldsLock, Answered, ManifestFollowed, Applied, ArrivalsUp, backendVars
<1> QED
  BY <1>2, <1>3, <1>4 DEF IndInv

\* While the backend lock is free nobody has an answer; after the call only the caller has.
LEMMA CallKeeps ==
  ASSUME IndInv, NEW th \in Threads, Call(th)
  PROVE  IndInv'
<1>1. /\ Waiting(th) /\ backendLock = NoThread /\ backendLock' = th /\ CallAt(th)
      /\ UNCHANGED <<storeVars, now, manifest>>
  BY DEF Call
<1>2. PICK a \in {"None", "Failed"} :
          /\ threads' = [threads EXCEPT ![th].answer = a]
          /\ threads[th].at # "manifest" => backendManifest' = backendManifest
          /\ threads[th].at = "manifest" /\ a = "None" => backendManifest' = threads[th].request.args
          /\ threads[th].at = "manifest" /\ a = "Failed" =>
                 backendManifest' \in {backendManifest, PartialManifest}
          /\ monitors' = [d \in DisplayIds |-> monitors'[d]]
          /\ threads[th].at = "arrive" /\ a = "None" =>
                 monitors'[threads[th].copy.display] = threads[th].copy.generation
  BY <1>1, CallEffects DEF Waiting
<1>3. ThreadShape(threads[th], th) /\ threads = [o \in Threads |-> threads[o]]
  BY DEF IndInv, ThreadsShape
<1> DEFINE x == threads'[th]
<1>4. x = [threads[th] EXCEPT !.answer = a] /\ \A o \in Threads \ {th} : threads'[o] = threads[o]
  BY <1>2, <1>3
<1>5. /\ IsThread(x) /\ x.answer = a /\ x.at = threads[th].at
      /\ x.request = threads[th].request /\ x.asked = threads[th].asked
      /\ x.copy = threads[th].copy /\ x.rest = threads[th].rest
  <2>1. IsThread(threads[th])
    BY <1>3 DEF ThreadShape
  <2> HIDE DEF x
  <2> QED
    BY <1>4, <2>1 DEF IsThread
<1> HIDE DEF x
<1>6. \A o \in Threads : ~Answered(o)
  BY <1>1, ThreadsAssumption DEF IndInv, AnsweredHoldsLock
<1>7. StoreShape'
  BY <1>1 DEF IndInv, StoreShape, storeVars, IsRecord
<1>8. ThreadsShape'
  <2>1. ThreadShape(x, th)
    BY <1>3, <1>5 DEF ThreadShape
  <2>2. \A o \in Threads : ThreadShape(threads'[o], o)
    BY <1>4, <2>1 DEF IndInv, ThreadsShape, x
  <2>3. threads' = [o \in Threads |-> threads'[o]]
    BY <1>2, <1>3
  <2> QED
    BY <1>1, <2>2, <2>3 DEF ThreadsShape, ThreadShape
<1>9. \A o \in Threads \ {th} : ~Answered(o)'
  BY <1>4, <1>6 DEF Answered
<1>10. AnsweredHoldsLock'
  BY <1>1, <1>9 DEF AnsweredHoldsLock
<1>11. \A o \in Threads \ {th} : ~Applied(o)'
  BY <1>9 DEF Applied, Answered, CallSites
<1>12. ManifestFollowed'
  <2>1. (\A o \in Workers : ~Applied(o)) /\ backendManifest \in {manifest, PartialManifest}
    BY <1>6 DEF IndInv, ManifestFollowed, Applied, Answered, CallSites, Threads
  <2>2. CASE threads[th].at = "manifest" /\ a = "None"
    <3>1. th \in Workers
      BY <1>3, <2>2 DEF ThreadShape
    <3>2. Applied(th)' /\ backendManifest' = threads'[th].request.args
      BY <1>2, <1>5, <2>2 DEF Applied, x
    <3> QED
      BY <3>1, <3>2 DEF ManifestFollowed
  <2>3. CASE ~(threads[th].at = "manifest" /\ a = "None")
    <3>1. ~Applied(th)'
      BY <1>5, <2>3 DEF Applied, x
    <3>2. backendManifest' \in {manifest, PartialManifest}
      BY <1>2, <2>1, <2>3
    <3> QED
      BY <1>1, <1>11, <3>1, <3>2 DEF ManifestFollowed, Threads
  <2> QED
    BY <2>2, <2>3
<1>13. ArrivalsUp'
  <2>1. \A o \in Threads \ {th} : ~(threads'[o].at = "arrive" /\ threads'[o].answer = "None")
    BY <1>9 DEF Answered, CallSites
  <2>2. x.at = "arrive" /\ x.answer = "None" => monitors'[x.copy.display] = x.copy.generation
    BY <1>2, <1>5
  <2> QED
    BY <1>2, <2>1, <2>2 DEF ArrivalsUp, x
<1> QED
  BY <1>7, <1>8, <1>10, <1>12, <1>13 DEF IndInv

-----------------------------------------------------------------------------
(* The theorems.                                                           *)

LEMMA InitialInvariant == Init => IndInv
<1> SUFFICES ASSUME Init PROVE IndInv
  OBVIOUS
<1>1. /\ displays = [d \in DisplayIds |-> NoDisplay] /\ nextGeneration = 1 /\ now = 0
      /\ monitors = [d \in DisplayIds |-> 0] /\ manifest = backendManifest
      /\ threads = [th \in Threads |-> Idle]
  BY DEF Init, Store!Init
<1>2. StoreShape
  BY <1>1, ClockAssumption DEF StoreShape
<1>3. Idle.at \notin CallSites /\ Idle.at # "manifest" /\ Idle.at # "arrive"
  BY DEF Idle, CallSites, DepartSites, UnreserveSites
<1>4. \A th \in Threads : ThreadShape(Idle, th)
  BY DEF ThreadShape, IsThread, Idle, CallSites, CreateSites, DepartSites, UnreserveSites
<1>5. ThreadsShape
  BY <1>1, <1>4 DEF ThreadsShape
<1>6. AnsweredHoldsLock /\ ManifestFollowed /\ ArrivalsUp
  BY <1>1, <1>3 DEF AnsweredHoldsLock, Answered, ManifestFollowed, Applied, ArrivalsUp, Threads
<1> QED
  BY <1>2, <1>5, <1>6 DEF IndInv

LEMMA StepKeepsInvariant == IndInv /\ [Next]_vars => IndInv'
<1> SUFFICES ASSUME IndInv, [Next]_vars PROVE IndInv'
  OBVIOUS
<1>1. CASE Next
  <2>1. ASSUME NEW th \in Threads, Served(th)
        PROVE  IndInv'
    <3>1. StoreShape'
      BY <2>1, ServingKeepsShape DEF Served, LetsGo, IndInv
    <3> QED
      BY <2>1, <3>1, ThreadKeeps DEF Served
  <2>2. ASSUME NEW th \in Workers, ReclaimLocked(th)
        PROVE  IndInv'
    BY <2>2, ReclaimLockedMoves, ThreadKeeps DEF Threads
  <2> QED
    BY <1>1, <2>1, <2>2, StepCases, TickKeeps, CallKeeps
<1>2. CASE UNCHANGED vars
  <2>1. UNCHANGED <<displays, nextGeneration, now, monitors, backendManifest, manifest, backendLock, threads>>
    BY <1>2 DEF vars, storeVars, backendVars
  <2>2. StoreShape'
    BY <2>1 DEF IndInv, StoreShape, IsRecord
  <2>3. ThreadsShape'
    BY <2>1 DEF IndInv, ThreadsShape, ThreadShape
  <2>4. AnsweredHoldsLock' /\ ManifestFollowed' /\ ArrivalsUp'
    BY <2>1 DEF IndInv, AnsweredHoldsLock, Answered, ManifestFollowed, Applied, ArrivalsUp
  <2> QED
    BY <2>2, <2>3, <2>4 DEF IndInv
<1> QED
  BY <1>1, <1>2

\* What the threads hold while the controller lock is free: the invariant of
\* call_backend_without_controller_lock.
THEOREM ControllerInvariant == Spec => []IndInv
BY InitialInvariant, StepKeepsInvariant, PTL DEF Spec

\* apply_display_manifest records what is up, however the requests overlap.
THEOREM ManifestsAlwaysAgree == Spec => []ManifestsAgree
<1>1. IndInv => ManifestsAgree
  BY DEF IndInv, ManifestFollowed, Applied, ManifestsAgree
<1> QED
  BY <1>1, ControllerInvariant, PTL

\* No thread acts on an answer that another thread's call has made stale.
THEOREM AnswersAlwaysTrue == Spec => AnswersStillTrue
<1> DEFINE Arrives ==
               \A th \in Workers :
                   threads[th].at = "arrive" /\ threads[th].answer = "None" /\ threads'[th].at = "idle" =>
                       monitors[threads[th].copy.display] = threads[th].copy.generation
           Rotates ==
               \A d \in Store!LiveDisplays :
                   Store!StaysRecord(d) /\ displays'[d].lease # displays[d].lease =>
                       \A th \in Threads : threads[th].at \in DepartSites /\ threads[th].answer = "None" =>
                           ~HoldsGeneration(th, d, displays[d].generation)
<1>1. IndInv => Arrives
  BY DEF IndInv, ArrivalsUp, Threads
<1>2. ASSUME IndInv, Next
      PROVE  Rotates
  <2>1. ASSUME UNCHANGED storeVars
        PROVE  Rotates
    BY <2>1 DEF storeVars
  <2>2. CASE Tick \/ \E th \in Threads : Call(th)
    BY <2>1, <2>2 DEF Tick, Call
  <2>3. ASSUME NEW th \in Threads, Served(th)
        PROVE  Rotates
    <3>1. KeepsLeases
      BY <1>2, <2>3, ServingKeepsShape DEF Served, LetsGo, IndInv
    <3> QED
      BY <3>1 DEF KeepsLeases
  <2>4. ASSUME NEW th \in Workers, ReclaimLocked(th)
        PROVE  Rotates
    <3>1. CASE Answered(th) /\ threads[th].at = "reclaim"
      <4>1. backendLock = th
        BY <1>2, <3>1 DEF IndInv, AnsweredHoldsLock, Threads
      <4>2. ASSUME NEW o \in Threads, threads[o].at \in DepartSites, threads[o].answer = "None"
            PROVE  FALSE
        <5>1. o = th
          BY <1>2, <4>1, <4>2 DEF IndInv, AnsweredHoldsLock, Answered, CallSites
        <5> QED
          BY <3>1, <4>2, <5>1 DEF DepartSites
      <4> QED
        BY <4>2
    <3> QED
      BY <1>2, <2>1, <2>4, <3>1, ReclaimLockedMoves
  <2> QED
    BY <1>2, <2>2, <2>3, <2>4, StepCases
<1>3. IndInv /\ [Next]_vars => [Arrives /\ Rotates]_vars
  BY <1>1, <1>2
<1> QED
  BY <1>3, ControllerInvariant, PTL DEF Spec, AnswersStillTrue

LEMMA StepIsStoreStep ==
  ASSUME IndInv, [Next]_vars
  PROVE  UNCHANGED Store!vars \/ Store!Next
<1>1. CASE UNCHANGED vars
  BY <1>1 DEF vars, storeVars, Store!vars
<1>2. CASE Tick
  BY <1>2 DEF Tick, Store!Next, Store!Tick, storeVars, Store!storeVars
<1>3. ASSUME NEW th \in Threads, Call(th)
      PROVE  UNCHANGED Store!vars
  BY <1>3 DEF Call, storeVars, Store!vars
<1>4. ASSUME NEW th \in Threads, Served(th)
      PROVE  UNCHANGED Store!vars \/ Store!Next
  BY <1>4 DEF Served, LetsGo, StoreServes, storeVars, Store!vars, Store!Next
<1>5. ASSUME NEW th \in Workers, ReclaimLocked(th)
      PROVE  UNCHANGED Store!vars \/ Store!Next
  BY <1>5, ReclaimLockedMoves DEF LetsGo, storeVars, Store!vars, Store!Next
<1> QED
  BY <1>1, <1>2, <1>3, <1>4, <1>5, StepCases

\* The controller is a caller of the store like any other: each of its steps is
\* one operation of the store, with arguments and a clock reading the store
\* allows, or leaves the store alone.
THEOREM StoreImplemented == Spec => StoreSpec
<1>1. Init => Store!Init
  BY DEF Init
<1>2. IndInv /\ [Next]_vars => [UNCHANGED Store!vars \/ Store!Next]_Store!vars
  BY StepIsStoreStep
<1> QED
  BY <1>1, <1>2, ControllerInvariant, PTL DEF Spec, StoreSpec

-----------------------------------------------------------------------------
(* What is proved of the store on its own holds of the controller's store. *)

StoreTheory == INSTANCE LeaseStore_proofs WITH now <- now

\* The two instances are of one module, with the same constants.
LEMMA SameAssumptions ==
  /\ StoreTheory!SizesAssumption /\ StoreTheory!TimeoutsAssumption
  /\ StoreTheory!IdentityAssumption /\ StoreTheory!NullsAssumption
BY StoreAssumption, Zenon
DEF Store!DisplayRecord, StoreTheory!DisplayRecord, Store!LeaseRecord, StoreTheory!LeaseRecord,
    Store!TemporaryConnectors, StoreTheory!TemporaryConnectors,
    Store!ConnectorLimit, StoreTheory!ConnectorLimit

\* The operators of the two instances have the same values ...
LEMMA SameOperators ==
  /\ Store!RequestTimes = StoreTheory!RequestTimes
  /\ Store!CreateRequests = StoreTheory!CreateRequests
  /\ \A r, t : Store!CreateError(r, t) = StoreTheory!CreateError(r, t)
  /\ \A r, t : Store!NewRecord(r, t) = StoreTheory!NewRecord(r, t)
  /\ \A d, retain : Store!ConnectorFor(d, retain) = StoreTheory!ConnectorFor(d, retain)
  /\ \A c, d : Store!WithoutOthersOn(c, d) = StoreTheory!WithoutOthersOn(c, d)
  /\ \A d, retain : Store!ReservationsAfterSearch(d, retain)
                       = StoreTheory!ReservationsAfterSearch(d, retain)
  /\ Store!EphemeralCandidates = StoreTheory!EphemeralCandidates
  /\ \A S : Store!Min(S) = StoreTheory!Min(S)
<1>1. Store!TemporaryConnectors = StoreTheory!TemporaryConnectors
  BY Zenon
  DEF Store!TemporaryConnectors, StoreTheory!TemporaryConnectors, Store!ConnectorLimit,
      StoreTheory!ConnectorLimit
<1>2. Store!LiveDisplays = StoreTheory!LiveDisplays
  BY Zenon
  DEF Store!LiveDisplays, StoreTheory!LiveDisplays
<1>3. Store!ActiveConnectors = StoreTheory!ActiveConnectors
  BY <1>2, Zenon
  DEF Store!ActiveConnectors, StoreTheory!ActiveConnectors
<1>4. Store!ActiveEdids = StoreTheory!ActiveEdids
  BY <1>2, Zenon
  DEF Store!ActiveEdids, StoreTheory!ActiveEdids
<1>5. Store!FreeConnectors = StoreTheory!FreeConnectors
  BY <1>1, <1>3, Zenon
  DEF Store!FreeConnectors, StoreTheory!FreeConnectors
<1>6. \A d, retain : Store!UnclaimedConnectors(d, retain) = StoreTheory!UnclaimedConnectors(d, retain)
  BY <1>5, Zenon
  DEF Store!UnclaimedConnectors, StoreTheory!UnclaimedConnectors
<1>7. \A d : Store!HasUsableReservation(d) = StoreTheory!HasUsableReservation(d)
  BY <1>1, <1>3, Zenon
  DEF Store!HasUsableReservation, StoreTheory!HasUsableReservation
<1>8. \A S : Store!Min(S) = StoreTheory!Min(S)
  BY Zenon
  DEF Store!Min, StoreTheory!Min
<1>9. Store!ConnectorLimit = StoreTheory!ConnectorLimit
  BY Zenon
  DEF Store!ConnectorLimit, StoreTheory!ConnectorLimit
<1>10. \A d, retain : Store!ConnectorFor(d, retain) = StoreTheory!ConnectorFor(d, retain)
  BY <1>5, <1>6, <1>7, <1>8, <1>9, Zenon
  DEF Store!ConnectorFor, StoreTheory!ConnectorFor
<1>11. \A c, d : Store!WithoutOthersOn(c, d) = StoreTheory!WithoutOthersOn(c, d)
  BY Zenon
  DEF Store!WithoutOthersOn, StoreTheory!WithoutOthersOn
<1>12. \A d, retain : Store!ReservationsAfterSearch(d, retain) = StoreTheory!ReservationsAfterSearch(d, retain)
  BY <1>5, <1>6, <1>7, <1>10, <1>11, Zenon
  DEF Store!ReservationsAfterSearch, StoreTheory!ReservationsAfterSearch
<1>13. Store!EphemeralCandidates = StoreTheory!EphemeralCandidates
  BY <1>4, Zenon
  DEF Store!EphemeralCandidates, StoreTheory!EphemeralCandidates
<1>14. \A r, t : Store!LeaseRefusesCreate(r, t) = StoreTheory!LeaseRefusesCreate(r, t)
  BY <1>2, Zenon
  DEF Store!LeaseRefusesCreate, StoreTheory!LeaseRefusesCreate, Store!HasPendingDeparture,
      StoreTheory!HasPendingDeparture, Store!DisplaysOf, StoreTheory!DisplaysOf
<1>15. \A S : Store!Cardinality(S) = StoreTheory!Cardinality(S)
  BY Zenon DEF Store!Cardinality, StoreTheory!Cardinality
<1>16. \A r, t : Store!CreateError(r, t) = StoreTheory!CreateError(r, t)
  BY <1>1, <1>2, <1>4, <1>10, <1>14, <1>15, Zenon
  DEF Store!CreateError, StoreTheory!CreateError
<1>17. \A requested : Store!NormalizeTimeout(requested) = StoreTheory!NormalizeTimeout(requested)
  BY Zenon
  DEF Store!NormalizeTimeout, StoreTheory!NormalizeTimeout
<1>18. \A r, t : Store!NewRecord(r, t) = StoreTheory!NewRecord(r, t)
  BY <1>8, <1>10, <1>13, <1>17, Zenon
  DEF Store!NewRecord, StoreTheory!NewRecord
<1>19. Store!RequestTimes = StoreTheory!RequestTimes
  BY Zenon
  DEF Store!RequestTimes, StoreTheory!RequestTimes
<1>20. Store!CreateRequests = StoreTheory!CreateRequests
  BY Zenon
  DEF Store!CreateRequests, StoreTheory!CreateRequests
<1> QED
  BY <1>8, <1>10, <1>11, <1>12, <1>13, <1>16, <1>18, <1>19, <1>20, Zenon

\* ... and so a step of the one is a step of the other.
LEMMA SameStore ==
  ASSUME Store!Next
  PROVE  StoreTheory!Next
<1>1. Store!Tick => StoreTheory!Tick
  BY Zenon
  DEF Store!Tick, StoreTheory!Tick, Store!storeVars, StoreTheory!storeVars
<1>2. ASSUME Store!Create PROVE StoreTheory!Create
  <2> PICK r \in Store!CreateRequests, t \in Store!RequestTimes :
          Store!CreateTemporaryDisplay(r, t) /\ UNCHANGED now
    BY <1>2, Zenon DEF Store!Create
  <2>1. StoreTheory!CreateTemporaryDisplay(r, t)
    BY SameOperators, Zenon
    DEF Store!CreateTemporaryDisplay, StoreTheory!CreateTemporaryDisplay,
        Store!LeaseAfterCreate, StoreTheory!LeaseAfterCreate, Store!AdvanceCounters,
        StoreTheory!AdvanceCounters
  <2>2. r \in StoreTheory!CreateRequests /\ t \in StoreTheory!RequestTimes
    BY SameOperators
  <2> QED
    BY <2>1, <2>2, Zenon DEF StoreTheory!Create
<1>3. ASSUME Store!Refuse PROVE StoreTheory!Refuse
  <2> PICK r \in Store!CreateRequests, t \in Store!RequestTimes :
          Store!RefuseCreate(r, t) /\ UNCHANGED now
    BY <1>3, Zenon DEF Store!Refuse
  <2>1. StoreTheory!RefuseCreate(r, t)
    BY SameOperators, Zenon
    DEF Store!RefuseCreate, StoreTheory!RefuseCreate
  <2>2. r \in StoreTheory!CreateRequests /\ t \in StoreTheory!RequestTimes
    BY SameOperators
  <2> QED
    BY <2>1, <2>2, Zenon DEF StoreTheory!Refuse
<1>4. Store!Reclaim => StoreTheory!Reclaim
  BY Zenon
  DEF Store!Reclaim, StoreTheory!Reclaim, Store!ReclaimRequests,
      StoreTheory!ReclaimRequests, Store!RequestTimes, StoreTheory!RequestTimes,
      Store!ReclaimTemporaryDisplay, StoreTheory!ReclaimTemporaryDisplay,
      Store!ReclaimAccepted, StoreTheory!ReclaimAccepted, Store!NormalizeTimeout,
      StoreTheory!NormalizeTimeout, Store!LiveDisplays, StoreTheory!LiveDisplays,
      Store!DisplaysOf, StoreTheory!DisplaysOf, Store!HasPendingDeparture,
      StoreTheory!HasPendingDeparture
<1>5. Store!Remove => StoreTheory!Remove
  BY Zenon
  DEF Store!Remove, StoreTheory!Remove, Store!RemoveTemporaryDisplay,
      StoreTheory!RemoveTemporaryDisplay, Store!EraseDisplays, StoreTheory!EraseDisplays,
      Store!Carries, StoreTheory!Carries, Store!LiveDisplays, StoreTheory!LiveDisplays,
      Store!DisplaysOf, StoreTheory!DisplaysOf
<1>6. Store!MarkPending => StoreTheory!MarkPending
  BY Zenon
  DEF Store!MarkPending, StoreTheory!MarkPending, Store!MarkPendingDeparture,
      StoreTheory!MarkPendingDeparture, Store!Carries, StoreTheory!Carries,
      Store!LiveDisplays, StoreTheory!LiveDisplays, Store!DisplaysOf,
      StoreTheory!DisplaysOf
<1>7. Store!Abandon => StoreTheory!Abandon
  BY Zenon
  DEF Store!Abandon, StoreTheory!Abandon, Store!AbandonPendingDisplay,
      StoreTheory!AbandonPendingDisplay, Store!AbandonAccepted,
      StoreTheory!AbandonAccepted, Store!EraseDisplays, StoreTheory!EraseDisplays,
      Store!Carries, StoreTheory!Carries, Store!LiveDisplays, StoreTheory!LiveDisplays,
      Store!DisplaysOf, StoreTheory!DisplaysOf
<1>8. Store!Feed => StoreTheory!Feed
  BY Zenon
  DEF Store!Feed, StoreTheory!Feed, Store!FeedLease, StoreTheory!FeedLease,
      Store!FeedAccepted, StoreTheory!FeedAccepted, Store!RequestTimes,
      StoreTheory!RequestTimes, Store!HasExpiredPendingDeparture,
      StoreTheory!HasExpiredPendingDeparture, Store!NormalizeTimeout,
      StoreTheory!NormalizeTimeout, Store!Carries, StoreTheory!Carries, Store!LiveDisplays,
      StoreTheory!LiveDisplays, Store!DisplaysOf, StoreTheory!DisplaysOf
<1>9. Store!Release => StoreTheory!Release
  BY Zenon
  DEF Store!Release, StoreTheory!Release, Store!ReleaseLease, StoreTheory!ReleaseLease,
      Store!Carries, StoreTheory!Carries, Store!LiveDisplays, StoreTheory!LiveDisplays,
      Store!DisplaysOf, StoreTheory!DisplaysOf
<1>10. Store!Reap => StoreTheory!Reap
  BY Zenon
  DEF Store!Reap, StoreTheory!Reap, Store!ReapExpired, StoreTheory!ReapExpired,
      Store!RequestTimes, StoreTheory!RequestTimes, Store!ExpiredDisplays,
      StoreTheory!ExpiredDisplays, Store!EraseDisplays, StoreTheory!EraseDisplays,
      Store!LiveDisplays, StoreTheory!LiveDisplays, Store!DisplaysOf,
      StoreTheory!DisplaysOf
<1> QED
  BY <1>1, <1>2, <1>3, <1>4, <1>5, <1>6, <1>7, <1>8, <1>9, <1>10, Zenon DEF Store!Next, StoreTheory!Next

LEMMA StoreStepKeeps ==
  ASSUME IndInv, [Next]_vars, StoreTheory!IndInv
  PROVE  StoreTheory!IndInv'
<1>1. UNCHANGED Store!vars \/ Store!Next
  BY StepIsStoreStep
<1>2. CASE UNCHANGED Store!vars
  <2>1. UNCHANGED StoreTheory!vars
    BY <1>2 DEF Store!vars, Store!storeVars, StoreTheory!vars, StoreTheory!storeVars
  <2> QED
    BY SameAssumptions, <2>1, StoreTheory!NextPreserves
<1>3. CASE Store!Next
  BY SameAssumptions, <1>3, SameStore, StoreTheory!NextPreserves
<1> QED
  BY <1>1, <1>2, <1>3

LEMMA StoreInvariantKept == Spec => []StoreTheory!IndInv
<1>1. Init => StoreTheory!IndInv
  <2> SUFFICES ASSUME Init PROVE StoreTheory!IndInv
    OBVIOUS
  <2>1. StoreTheory!Init
    BY Zenon DEF Init, Store!Init, StoreTheory!Init, Store!TemporaryConnectors, Store!ConnectorLimit,
        StoreTheory!TemporaryConnectors, StoreTheory!ConnectorLimit
  <2> QED
    BY SameAssumptions, <2>1, StoreTheory!InitEstablishes
<1>2. IndInv /\ [Next]_vars /\ StoreTheory!IndInv => StoreTheory!IndInv'
  BY StoreStepKeeps
<1> QED
  BY <1>1, <1>2, ControllerInvariant, PTL DEF Spec

\* However the threads of the driver interleave, no two displays share a connector or an identity,
\* nobody holds the connector of another, and leases and their displays come and go together.
THEOREM StoreSafeUnderThreads ==
  Spec => [](Store!TypeOK /\ Store!ConnectorsSafe /\ Store!IdentitiesUnique /\ Store!LeasesMatch)
<1>1. StoreTheory!IndInv =>
          Store!TypeOK /\ Store!ConnectorsSafe /\ Store!IdentitiesUnique /\ Store!LeasesMatch
  BY Zenon
  DEF StoreTheory!IndInv, Store!TypeOK, StoreTheory!TypeOK, Store!DisplayRecord,
      StoreTheory!DisplayRecord, Store!LeaseRecord, StoreTheory!LeaseRecord,
      Store!TemporaryConnectors, StoreTheory!TemporaryConnectors,
      Store!ConnectorLimit, StoreTheory!ConnectorLimit,
      Store!LiveDisplays, StoreTheory!LiveDisplays, Store!DisplaysOf, StoreTheory!DisplaysOf,
      Store!ConnectorsSafe, Store!ConnectorsExclusive, StoreTheory!ConnectorsExclusive,
      Store!ConnectorsUncontested, StoreTheory!ConnectorsUncontested,
      Store!IdentitiesUnique, Store!IdentitiesExclusive, StoreTheory!IdentitiesExclusive,
      Store!GenerationsFresh, StoreTheory!GenerationsFresh,
      Store!LeasesMatch, Store!LeasesCovered, StoreTheory!LeasesCovered,
      Store!ExpiryShared, StoreTheory!ExpiryShared
<1> QED
  BY <1>1, StoreInvariantKept, PTL

-----------------------------------------------------------------------------
(* Which records a step erases or marks.                                   *)

\* The thread takes back a create whose reservation or arrival failed.
RollsBack(x) ==
    \/ x.at \in {"reserve", "unreserveFailed"}
    \/ x.at = "arrive" /\ x.answer # "None"

\* What RecordsFenced says of a step, and a little more: who may mark and who may
\* erase the record of d.
MayMark(d) ==
    \E th \in Threads : /\ threads'[th] # threads[th]
                        /\ HoldsGeneration(th, d, displays[d].generation)
                        /\ threads[th].at \in DepartSites
                        /\ threads[th].answer = "Failed"

MayErase(d) ==
    \E th \in Threads : /\ threads'[th] # threads[th]
                        /\ HoldsGeneration(th, d, displays[d].generation)
                        /\ \/ threads[th].at \in DepartSites /\ threads[th].answer = "None"
                           \/ /\ threads[th].at = "clearPending" /\ threads[th].answer = "Failed"
                              /\ displays[d].pending
                           \/ RollsBack(threads[th])

Fenced ==
    \A d \in Store!LiveDisplays :
        /\ Store!StaysRecord(d) /\ displays'[d].pending /\ ~displays[d].pending => MayMark(d)
        /\ ~Store!StaysRecord(d) => MayErase(d)

\* The record of d is neither erased nor marked.
Stays(d) == Store!StaysRecord(d) /\ (displays'[d].pending => displays[d].pending)

KeepsRecords == \A d \in Store!LiveDisplays : Stays(d)

\* d is the display of the copy s, and the record in the store is the copied one.
Copied(s, d) == d = s.display /\ displays[d].generation = s.generation

\* A record with another lease, another expiry or a mark is still a record.
LEMMA RewrittenRecord ==
  ASSUME NEW x \in Store!DisplayRecord, NEW l \in LeaseIds, NEW e \in Nat
  PROVE  /\ LET y == Rotated(x, l, e)
            IN  y # NoDisplay /\ y.generation = x.generation /\ y.pending = x.pending
         /\ LET y == [x EXCEPT !.expires = e]
            IN  y # NoDisplay /\ y.generation = x.generation /\ y.pending = x.pending
         /\ LET y == [x EXCEPT !.pending = TRUE]
            IN  y # NoDisplay /\ y.generation = x.generation
<1>1. NoDisplay \notin Store!DisplayRecord
  BY StoreAssumption DEF Store!NullsAssumption
<1>2. /\ [x EXCEPT !.lease = l, !.expires = e] \in Store!DisplayRecord
      /\ [x EXCEPT !.expires = e] \in Store!DisplayRecord
      /\ [x EXCEPT !.pending = TRUE] \in Store!DisplayRecord
  BY DEF Store!DisplayRecord
<1> QED
  BY <1>1, <1>2 DEF Store!DisplayRecord, Rotated

\* A time and a timeout make a time.
LEMMA ExpiryIsNat ==
  ASSUME NEW t \in Nat, NEW timeout \in RequestedTimeouts
  PROVE  t + Store!NormalizeTimeout(timeout) \in Nat
BY StoreAssumption DEF Store!TimeoutsAssumption, Store!NormalizeTimeout

LEMMA LiveRecords ==
  ASSUME Store!TypeOK
  PROVE  \A d \in Store!LiveDisplays : d \in DisplayIds /\ displays[d] \in Store!DisplayRecord
BY DEF Store!TypeOK, Store!LiveDisplays

\* What leaves every record alone ...
LEMMA UnchangedKeepRecords == ASSUME UNCHANGED displays PROVE KeepsRecords
BY DEF KeepsRecords, Stays, Store!StaysRecord, Store!LiveDisplays

LEMMA CreateKeepsRecords ==
  ASSUME Store!TypeOK, NEW r, NEW t, Store!CreateTemporaryDisplay(r, t)
  PROVE  KeepsRecords
<1>1. /\ displays' = [displays EXCEPT ![r.display] = Store!NewRecord(r, t)]
      /\ r.display \notin Store!LiveDisplays
  BY DEF Store!CreateTemporaryDisplay, Store!CreateError
<1>2. \A d \in Store!LiveDisplays : displays'[d] = displays[d]
  BY <1>1 DEF Store!TypeOK, Store!LiveDisplays
<1> QED
  BY <1>2 DEF KeepsRecords, Stays, Store!StaysRecord, Store!LiveDisplays

LEMMA ReclaimKeepsRecords ==
  ASSUME Store!TypeOK, NEW r \in Store!ReclaimRequests, NEW t \in Nat,
         Store!ReclaimTemporaryDisplay(r, t)
  PROVE  KeepsRecords
<1>1. PICK expiry \in Nat :
          displays' = [d \in DisplayIds |->
              IF d \in Store!DisplaysOf(displays[r.display].lease)
              THEN Rotated(displays[d], r.newLease, expiry) ELSE displays[d]]
  <2>1. r.timeout \in RequestedTimeouts
    BY DEF Store!ReclaimRequests
  <2> QED
    BY <2>1, ExpiryIsNat DEF Store!ReclaimTemporaryDisplay, Rotated
<1>2. r.newLease \in LeaseIds
  BY DEF Store!ReclaimRequests
<1>3. ASSUME NEW d \in Store!LiveDisplays
      PROVE  Stays(d)
  <2> DEFINE y == Rotated(displays[d], r.newLease, expiry)
  <2>1. d \in DisplayIds /\ displays[d] \in Store!DisplayRecord
    BY LiveRecords
  <2>2. displays'[d] = y \/ displays'[d] = displays[d]
    BY <1>1, <2>1
  <2>3. y # NoDisplay /\ y.generation = displays[d].generation /\ y.pending = displays[d].pending
    BY <1>2, <2>1, RewrittenRecord
  <2> HIDE DEF y
  <2> QED
    BY <2>1, <2>2, <2>3 DEF Stays, Store!StaysRecord, Store!LiveDisplays
<1> QED
  BY <1>3 DEF KeepsRecords

LEMMA FeedKeepsRecords ==
  ASSUME Store!TypeOK, NEW l, NEW timeout \in RequestedTimeouts, NEW t \in Nat,
         Store!FeedLease(l, timeout, t)
  PROVE  KeepsRecords
<1>1. PICK expiry \in Nat :
          displays' = [d \in DisplayIds |->
              IF Store!Carries(l, d) /\ ~displays[d].pending
              THEN [displays[d] EXCEPT !.expires = expiry] ELSE displays[d]]
  BY ExpiryIsNat DEF Store!FeedLease
<1>2. ASSUME NEW d \in Store!LiveDisplays
      PROVE  Stays(d)
  <2> DEFINE y == [displays[d] EXCEPT !.expires = expiry]
  <2>1. d \in DisplayIds /\ displays[d] \in Store!DisplayRecord
    BY LiveRecords
  <2>2. displays'[d] = y \/ displays'[d] = displays[d]
    BY <1>1, <2>1
  <2>3. displays[d].lease \in LeaseIds
    BY <2>1 DEF Store!DisplayRecord
  <2>4. y # NoDisplay /\ y.generation = displays[d].generation /\ y.pending = displays[d].pending
    BY <2>1, <2>3, RewrittenRecord
  <2> HIDE DEF y
  <2> QED
    BY <2>1, <2>2, <2>4 DEF Stays, Store!StaysRecord, Store!LiveDisplays
<1> QED
  BY <1>2 DEF KeepsRecords

\* ... and what erases or marks the record of a copy, if that is still there.
LEMMA RemoveErasesCopied ==
  ASSUME Store!TypeOK, NEW s, NEW release, RemoveIfCurrent(s, release)
  PROVE  \A d \in Store!LiveDisplays : Stays(d) \/ Copied(s, d)
<1>1. CASE Current(s)
  <2>1. displays' = [d \in DisplayIds |-> IF d \in {s.display} THEN NoDisplay ELSE displays[d]]
    BY <1>1 DEF RemoveIfCurrent, Store!RemoveTemporaryDisplay, Store!EraseDisplays
  <2> QED
    BY <1>1, <2>1 DEF Current, Copied, Stays, Store!StaysRecord, Store!LiveDisplays
<1>2. CASE ~Current(s)
  BY <1>2, UnchangedKeepRecords DEF RemoveIfCurrent, storeVars, KeepsRecords
<1> QED
  BY <1>1, <1>2

LEMMA MarkMarksCopied ==
  ASSUME Store!TypeOK, NEW s, MarkIfCurrent(s)
  PROVE  \A d \in Store!LiveDisplays : Stays(d) \/ (Store!StaysRecord(d) /\ Copied(s, d))
<1>1. CASE Current(s)
  <2>1. displays' = [displays EXCEPT ![s.display].pending = TRUE]
    BY <1>1 DEF MarkIfCurrent, Store!MarkPendingDeparture
  <2>2. \A d \in DisplayIds : d # s.display => displays'[d] = displays[d]
    BY <2>1 DEF Store!TypeOK
  <2>3. s.display \in DisplayIds /\ displays[s.display] \in Store!DisplayRecord
    BY <1>1, LiveRecords DEF Current
  <2> DEFINE y == [displays[s.display] EXCEPT !.pending = TRUE]
  <2>4. displays'[s.display] = y
    BY <2>1, <2>3 DEF Store!TypeOK
  <2>5. displays[s.display].lease \in LeaseIds /\ displays[s.display].expires \in Nat
    BY <2>3 DEF Store!DisplayRecord
  <2>6. y # NoDisplay /\ y.generation = displays[s.display].generation
    BY <2>3, <2>5, RewrittenRecord
  <2> HIDE DEF y
  <2>7. ASSUME NEW d \in Store!LiveDisplays, d # s.display
        PROVE  Stays(d)
    BY <2>2, <2>7 DEF Stays, Store!StaysRecord, Store!LiveDisplays
  <2>8. Store!StaysRecord(s.display) /\ Copied(s, s.display)
    BY <1>1, <2>3, <2>4, <2>6 DEF Current, Copied, Store!StaysRecord, Store!LiveDisplays
  <2> QED
    BY <2>7, <2>8
<1>2. CASE ~Current(s)
  BY <1>2, UnchangedKeepRecords DEF MarkIfCurrent, storeVars, KeepsRecords
<1> QED
  BY <1>1, <1>2

\* A thread whose call has returned and that goes on is no longer where it was.
LEMMA ThreadLeaves ==
  ASSUME IndInv, NEW th \in Threads, threads[th].at \in CallSites, threads[th].answer # "none yet",
         \/ Finish(th)
         \/ KeepLockToCreate(th)
         \/ \E site, s, more : GoCall(th, site, s, more)
  PROVE  threads'[th] # threads[th]
<1>1. /\ threads = [o \in Threads |-> threads[o]] /\ IsThread(threads[th])
  BY DEF IndInv, ThreadsShape, ThreadShape
<1>2. CASE Finish(th)
  <2>1. threads'[th] = Idle
    BY <1>1, <1>2 DEF Finish
  <2>2. Idle.at = "idle" /\ "idle" \notin CallSites
    BY DEF Idle, CallSites, DepartSites, UnreserveSites
  <2> QED
    BY <2>1, <2>2
<1>3. CASE KeepLockToCreate(th)
  <2>1. threads'[th] = [threads[th] EXCEPT !.at = "create"]
    BY <1>1, <1>3 DEF KeepLockToCreate
  <2>2. threads'[th].at = "create"
    BY <1>1, <2>1 DEF IsThread
  <2>3. "create" \notin CallSites
    BY DEF CallSites, DepartSites, UnreserveSites
  <2> QED
    BY <2>2, <2>3
<1>4. ASSUME NEW site, NEW s, NEW more, GoCall(th, site, s, more)
      PROVE  threads'[th] # threads[th]
  <2>1. Moves(th, AtCall(th, site, s, more))
    BY <1>4, GoCallMoves, Zenon
  <2>2. AtCall(th, site, s, more).answer = "none yet"
    BY DEF AtCall
  <2>3. threads'[th] = AtCall(th, site, s, more)
    BY <2>1, Zenon DEF Moves
  <2> QED
    BY <2>2, <2>3
<1> QED
  BY <1>2, <1>3, <1>4

LEMMA KeepingIsFenced == ASSUME KeepsRecords PROVE Fenced
BY DEF KeepsRecords, Stays, Fenced

LEMMA ErasingIsFenced ==
  ASSUME Store!TypeOK, NEW th \in Threads, threads'[th] # threads[th],
         threads[th].at \in CallSites \ {"reclaim", "manifest"},
         \/ threads[th].at \in DepartSites /\ threads[th].answer = "None"
         \/ RollsBack(threads[th]),
         NEW release, RemoveIfCurrent(threads[th].copy, release)
  PROVE  Fenced
<1>1. ASSUME NEW d \in Store!LiveDisplays, Copied(threads[th].copy, d)
      PROVE  MayErase(d)
  BY <1>1 DEF MayErase, HoldsGeneration, Holds, Copied
<1>2. ASSUME NEW d \in Store!LiveDisplays, Copied(threads[th].copy, d)
      PROVE  ~(Store!StaysRecord(d) /\ displays'[d].pending /\ ~displays[d].pending)
  <2>1. CASE Current(threads[th].copy)
    BY <1>2, <2>1 DEF Copied, RemoveIfCurrent, Store!RemoveTemporaryDisplay, Store!EraseDisplays,
                      Store!StaysRecord, Store!LiveDisplays
  <2>2. CASE ~Current(threads[th].copy)
    BY <2>2 DEF RemoveIfCurrent, storeVars
  <2> QED
    BY <2>1, <2>2
<1> QED
  BY <1>1, <1>2, RemoveErasesCopied DEF Fenced, Stays

LEMMA MarkingIsFenced ==
  ASSUME Store!TypeOK, NEW th \in Threads, threads'[th] # threads[th],
         threads[th].at \in DepartSites, threads[th].answer = "Failed",
         MarkIfCurrent(threads[th].copy)
  PROVE  Fenced
<1>1. threads[th].at \in CallSites \ {"reclaim", "manifest"}
  BY DEF CallSites, DepartSites
<1>2. ASSUME NEW d \in Store!LiveDisplays, Copied(threads[th].copy, d)
      PROVE  MayMark(d)
  BY <1>1, <1>2 DEF MayMark, HoldsGeneration, Holds, Copied
<1> QED
  BY <1>2, MarkMarksCopied DEF Fenced, Stays

\* An abandoned record is one whose departure was pending.
LEMMA AbandoningIsFenced ==
  ASSUME NEW th \in Threads, threads'[th] # threads[th], threads[th].at = "clearPending", threads[th].answer = "Failed",
         NEW owner, LET s == threads[th].copy
                    IN  Store!AbandonPendingDisplay(s.lease, s.display, s.generation, owner)
  PROVE  Fenced
<1> DEFINE s == threads[th].copy
<1>1. /\ displays' = [d \in DisplayIds |-> IF d \in {s.display} THEN NoDisplay ELSE displays[d]]
      /\ s.display \in Store!LiveDisplays
      /\ displays[s.display].generation = s.generation /\ displays[s.display].pending
  BY DEF Store!AbandonPendingDisplay, Store!AbandonAccepted, Store!EraseDisplays, Store!Carries,
         Store!DisplaysOf
<1>2. MayErase(s.display)
  BY <1>1 DEF MayErase, HoldsGeneration, Holds, CallSites, DepartSites
<1>3. ~(s.display \in Store!LiveDisplays')
  BY <1>1 DEF Store!LiveDisplays
<1>4. \A d \in Store!LiveDisplays : d # s.display => displays'[d] = displays[d] /\ d \in Store!LiveDisplays'
  BY <1>1 DEF Store!LiveDisplays
<1> HIDE DEF s
<1>5. ASSUME NEW d \in Store!LiveDisplays
      PROVE  /\ Store!StaysRecord(d) /\ displays'[d].pending /\ ~displays[d].pending => MayMark(d)
             /\ ~Store!StaysRecord(d) => MayErase(d)
  <2>1. CASE d = s.display
    BY <1>2, <1>3, <2>1 DEF Store!StaysRecord
  <2>2. CASE d # s.display
    BY <1>4, <2>2 DEF Store!StaysRecord
  <2> QED
    BY <2>1, <2>2
<1> QED
  BY <1>5 DEF Fenced

\* The section after a departure.
LEMMA DepartureIsFenced ==
  ASSUME Store!TypeOK, NEW th \in Threads, threads'[th] # threads[th],
         threads[th].at \in DepartSites, threads[th].answer \in {"None", "Failed", "Busy"},
         RecordDeparture(th)
  PROVE  Fenced
<1>1. threads[th].at \in CallSites \ {"reclaim", "manifest"}
  BY DEF CallSites, DepartSites
<1>2. CASE threads[th].answer = "None"
  BY <1>1, <1>2, ErasingIsFenced DEF RecordDeparture
<1>3. CASE threads[th].answer = "Failed"
  BY <1>3, MarkingIsFenced DEF RecordDeparture
<1>4. CASE threads[th].answer = "Busy"
  BY <1>4, UnchangedKeepRecords, KeepingIsFenced DEF RecordDeparture, storeVars
<1> QED
  BY <1>2, <1>3, <1>4

\* A create erases and marks nothing before the answers of its calls.
LEMMA StoreCreateIsFenced ==
  ASSUME Store!TypeOK, NEW th, StoreCreate(th)
  PROVE  Fenced
<1> DEFINE r == threads[th].request.args
           t == threads[th].asked
<1>1. CASE Store!CreateTemporaryDisplay(r, t)
  BY <1>1, CreateKeepsRecords, KeepingIsFenced
<1>2. CASE UNCHANGED displays
  BY <1>2, UnchangedKeepRecords, KeepingIsFenced
<1> QED
  BY <1>1, <1>2 DEF StoreCreate, Store!RefuseCreate, storeVars

LEMMA UnchangedIsFenced == ASSUME UNCHANGED storeVars PROVE Fenced
BY UnchangedKeepRecords, KeepingIsFenced DEF storeVars

LEMMA PendingClearedIsFenced ==
  ASSUME IndInv, Store!TypeOK, NEW th \in Workers, PendingCleared(th)
  PROVE  Fenced
<1> DEFINE s == threads[th].copy
<1>1. /\ th \in Threads /\ threads[th].at = "clearPending" /\ threads[th].answer # "none yet"
      /\ "clearPending" \in DepartSites /\ "clearPending" \in CallSites \ {"reclaim", "manifest"}
  BY DEF Threads, PendingCleared, Return, DepartSites, CallSites
<1>2. CASE threads[th].answer = "None" /\ RemoveIfCurrent(s, FALSE) /\ KeepLockToCreate(th)
  <2>1. threads'[th] # threads[th]
    BY <1>1, <1>2, ThreadLeaves
  <2> QED
    BY <1>1, <1>2, <2>1, ErasingIsFenced
<1>3. CASE /\ KeepLockToCreate(th) /\ threads[th].answer = "Failed"
           /\ Store!AbandonPendingDisplay(s.lease, s.display, s.generation, threads[th].request.args.owner)
  <2>1. threads'[th] # threads[th]
    BY <1>1, <1>3, ThreadLeaves
  <2> QED
    BY <1>1, <1>3, <2>1, AbandoningIsFenced
<1>4. CASE threads[th].answer = "Failed" /\ MarkIfCurrent(s) /\ Finish(th)
  <2>1. threads'[th] # threads[th]
    BY <1>1, <1>4, ThreadLeaves
  <2> QED
    BY <1>1, <1>4, <2>1, MarkingIsFenced
<1>5. CASE UNCHANGED storeVars
  BY <1>5, UnchangedIsFenced
<1> QED
  BY <1>2, <1>3, <1>4, <1>5 DEF PendingCleared

\* What is done with the record of a create that could not be brought up.
LEMMA CreateStepsAreFenced ==
  ASSUME IndInv, Store!TypeOK, NEW th \in Workers,
         \/ Reserved(th) \/ Arrived(th) \/ StaleCleaned(th)
         \/ ArrivalRolledBack(th) \/ PendingArrivalDeparted(th)
  PROVE  Fenced
<1> DEFINE s == threads[th].copy
<1>1. th \in Threads
  BY DEF Threads
<1>2. CASE UNCHANGED storeVars
  BY <1>2, UnchangedIsFenced
<1>3. ASSUME NEW site \in {"reserve", "arrive", "unreserveFailed"}, Return(th, site), Finish(th),
             RollsBack(threads[th]), NEW release, RemoveIfCurrent(s, release)
      PROVE  Fenced
  <2>1. threads[th].at = site /\ threads[th].answer # "none yet"
    BY <1>3 DEF Return
  <2>2. site \in CallSites \ {"reclaim", "manifest"}
    BY DEF CallSites, UnreserveSites
  <2>3. threads'[th] # threads[th]
    BY <1>1, <1>3, <2>1, <2>2, ThreadLeaves
  <2> QED
    BY <1>1, <1>3, <2>1, <2>2, <2>3, ErasingIsFenced
<1>4. CASE PendingArrivalDeparted(th) /\ threads[th].answer = "None"
  <2>1. /\ threads[th].at = "departPending" /\ Finish(th) /\ RemoveIfCurrent(s, FALSE)
        /\ "departPending" \in DepartSites /\ "departPending" \in CallSites \ {"reclaim", "manifest"}
    BY <1>4 DEF PendingArrivalDeparted, Return, CallSites, DepartSites
  <2>2. threads'[th] # threads[th]
    BY <1>1, <1>4, <2>1, ThreadLeaves
  <2> QED
    BY <1>1, <1>4, <2>1, <2>2, ErasingIsFenced
<1>5. CASE Reserved(th)
  BY <1>2, <1>3, <1>5 DEF Reserved, Return, RollsBack
<1>6. CASE Arrived(th)
  BY <1>2, <1>3, <1>6 DEF Arrived, Return, RollsBack
<1>7. CASE StaleCleaned(th)
  BY <1>2, <1>7 DEF StaleCleaned
<1>8. CASE ArrivalRolledBack(th)
  BY <1>3, <1>8 DEF ArrivalRolledBack, Return, RollsBack
<1>9. CASE PendingArrivalDeparted(th)
  BY <1>2, <1>4, <1>9 DEF PendingArrivalDeparted
<1> QED
  BY <1>5, <1>6, <1>7, <1>8, <1>9

\* Removing, releasing and reaping record the answer of the departure they made.
LEMMA DeparturesAreFenced ==
  ASSUME IndInv, Store!TypeOK, NEW th \in Threads,
         Removed(th) \/ \E site \in {"release", "reap"} : Departed(th, site)
  PROVE  Fenced
<1>1. PICK site \in {"remove", "release", "reap"} : Return(th, site) /\ RecordDeparture(th)
  BY DEF Removed, Departed
<1>2. site \in DepartSites /\ site \in CallSites /\ threads[th].at = site
  BY <1>1 DEF DepartSites, CallSites, Return
<1>3. threads[th].answer \in {"None", "Failed", "Busy"}
  BY <1>1 DEF IndInv, ThreadsShape, ThreadShape, Return
<1>4. Finish(th) \/ \E at, s, more : GoCall(th, at, s, more)
  BY DEF Removed, Departed, GoDepart
<1>5. threads'[th] # threads[th]
  BY <1>2, <1>3, <1>4, ThreadLeaves
<1> QED
  BY <1>1, <1>2, <1>3, <1>5, DepartureIsFenced

\* Reclaiming and feeding neither erase nor mark.
LEMMA LeaseStepsAreFenced ==
  ASSUME IndInv, Store!TypeOK, NEW th \in Workers, ReclaimLocked(th) \/ Feed(th)
  PROVE  Fenced
<1> DEFINE r == threads[th].request.args
           t == threads[th].asked
<1>1. ThreadShape(threads[th], th) /\ th \in Threads /\ 0..now \subseteq Nat
  <2>1. now \in Nat
    BY ClockAssumption DEF IndInv, StoreShape
  <2>2. 0..now \subseteq Nat
    BY <2>1
  <2> QED
    BY <2>2 DEF IndInv, ThreadsShape, Threads
<1>2. CASE UNCHANGED storeVars
  BY <1>2, UnchangedIsFenced
<1>3. CASE ReclaimLocked(th) /\ Store!ReclaimTemporaryDisplay(r, t)
  <2>1. threads[th].at = "reclaim"
    BY <1>3 DEF ReclaimLocked, Return
  <2>2. /\ threads[th].request \in Requests /\ threads[th].request.kind = "reclaim"
        /\ threads[th].asked \in Nat
    BY <1>1, <2>1 DEF ThreadShape
  <2>3. r \in Store!ReclaimRequests /\ t \in Nat
    BY <2>2, RequestArgs
  <2> QED
    BY <1>3, <2>3, ReclaimKeepsRecords, KeepingIsFenced
<1>4. CASE Feed(th) /\ Store!FeedLease(r.lease, r.timeout, t)
  <2>1. threads[th].at = "start" /\ threads[th].request.kind = "feed"
    BY <1>4 DEF Feed, Enter
  <2>2. threads[th].request \in Requests /\ threads[th].asked \in Nat
    BY <1>1, <2>1 DEF ThreadShape
  <2>3. r.timeout \in RequestedTimeouts /\ t \in Nat
    BY <2>1, <2>2, RequestArgs DEF FeedArgs
  <2> QED
    BY <1>4, <2>3, FeedKeepsRecords, KeepingIsFenced
<1> QED
  BY <1>2, <1>3, <1>4 DEF ReclaimLocked, Feed

LEMMA StepIsFenced ==
  ASSUME IndInv, Store!TypeOK, [Next]_vars
  PROVE  Fenced
<1>1. \A th \in Workers : th \in Threads
  BY DEF Threads
<1>2. ASSUME NEW th \in Workers, Serve(th)
      PROVE  Fenced
  <2>1. CASE UNCHANGED storeVars
    BY <2>1, UnchangedIsFenced
  <2>2. CASE StoreCreate(th)
    BY <2>2, StoreCreateIsFenced
  <2>3. CASE Removed(th) \/ Departed(th, "release")
    BY <1>1, <2>3, DeparturesAreFenced
  <2>4. \/ UNCHANGED storeVars \/ StoreCreate(th) \/ PendingCleared(th)
        \/ Reserved(th) \/ Arrived(th) \/ StaleCleaned(th)
        \/ ArrivalRolledBack(th) \/ PendingArrivalDeparted(th)
        \/ ReclaimLocked(th) \/ Feed(th) \/ Removed(th) \/ Departed(th, "release")
    BY <1>2 DEF Serve, CreateFresh, CreateOnPending, CreateAfterClearing, Reclaim, Remove, Release,
                SetManifest, ManifestApplied
  <2> QED
    BY <2>1, <2>2, <2>3, <2>4, PendingClearedIsFenced, CreateStepsAreFenced, LeaseStepsAreFenced
<1>3. CASE Departed(Reaper, "reap")
  BY <1>3, DeparturesAreFenced DEF Threads
<1>4. CASE UNCHANGED storeVars
  BY <1>4, UnchangedIsFenced
<1> QED
  BY <1>2, <1>3, <1>4 DEF Next, Tick, Submit, ReaperStep, Reap, Call, TimeOut, vars

\* What is known of the store in particular gives its types.
LEMMA StoreTypes == StoreTheory!IndInv => Store!TypeOK
BY Zenon
DEF StoreTheory!IndInv, Store!TypeOK, StoreTheory!TypeOK, Store!DisplayRecord,
    StoreTheory!DisplayRecord, Store!LeaseRecord, StoreTheory!LeaseRecord,
    Store!TemporaryConnectors, StoreTheory!TemporaryConnectors,
    Store!ConnectorLimit, StoreTheory!ConnectorLimit

\* A record is marked only after its own departure failed, and erased only by a
\* thread that departed, abandoned or could not bring up that very generation
\* (temporary_display_generation_is_current).
THEOREM RecordsAlwaysFenced == Spec => RecordsFenced
<1> DEFINE Step ==
    \A d \in Store!LiveDisplays :
        /\ Store!StaysRecord(d) /\ displays'[d].pending /\ ~displays[d].pending =>
               \E th \in Threads : /\ threads'[th] # threads[th]
                                   /\ HoldsGeneration(th, d, displays[d].generation)
                                   /\ threads[th].at \in DepartSites
                                   /\ threads[th].answer = "Failed"
        /\ ~Store!StaysRecord(d) =>
               \E th \in Threads : /\ threads'[th] # threads[th]
                                   /\ HoldsGeneration(th, d, displays[d].generation)
                                   /\ \/ threads[th].at \in DepartSites /\ threads[th].answer = "None"
                                      \/ threads[th].at = "clearPending" /\ displays[d].pending
                                      \/ threads[th].at \in {"reserve", "arrive", "unreserveFailed"}
<1>1. Fenced => Step
  BY DEF Fenced, MayMark, MayErase, RollsBack
<1>2. IndInv /\ StoreTheory!IndInv /\ [Next]_vars => [Step]_vars
  BY <1>1, StoreTypes, StepIsFenced
<1>3. RecordsFenced <=> [][Step]_vars
  BY DEF RecordsFenced
<1> HIDE DEF Step
<1> QED
  BY <1>2, <1>3, ControllerInvariant, StoreInvariantKept, PTL DEF Spec

-----------------------------------------------------------------------------
(* Who answers for a monitor.  The generation of a create is its own until *)
(* its arrival has brought the monitor up, and a departure that was        *)
(* answered "None" has left no monitor of that generation.                 *)

\* The monitor under d is that of the record, or a create is about to depart it.
Attended(d) ==
    \/ d \in Store!LiveDisplays /\ displays[d].generation = monitors[d]
    \/ \E th \in Workers : /\ threads[th].at \in {"arrive", "departStale"}
                           /\ HoldsGeneration(th, d, monitors[d])

Orphaned(d) == monitors[d] # 0 /\ ~Attended(d)

\* The step of a thread that leaves the monitor under d to nobody: the end of a
\* cleanup that did not get it down, or of a departure that was given up.
OrphanedBy(th, d) ==
    /\ threads'[th] # threads[th]
    /\ HoldsGeneration(th, d, monitors[d])
    /\ \/ threads[th].at = "departStale" /\ threads[th].answer \in {"Failed", "Busy"}
       \/ threads[th].at = "clearPending" /\ threads[th].answer = "Failed" /\ displays[d].pending

\* A create between its record and the end of its arrival, or of taking it back.
Arriving(x) == x.at \in {"reserve", "arrive", "unreserveFailed"}

\* ... whose monitor is not up yet.
Awaits(x) == Arriving(x) /\ ~(x.at = "arrive" /\ x.answer = "None")

\* The very monitor of the copy is up, and is not up after the step.
Up(s) == monitors[s.display] # 0 /\ monitors[s.display] = s.generation
GoesDown(s) == ~(monitors'[s.display] # 0 /\ monitors'[s.display] = s.generation)

MonitorsOld ==
    /\ monitors \in [DisplayIds -> Nat]
    /\ \A d \in DisplayIds : monitors[d] < nextGeneration

ArrivalsOwn ==
    /\ \A th \in Threads : Arriving(threads[th]) =>
           /\ threads[th].copy.generation \in Nat \ {0}
           /\ threads[th].copy.generation < nextGeneration
    /\ \A th, o \in Threads :
           /\ Arriving(threads[th]) /\ Arriving(threads[o])
           /\ threads[th].copy.generation = threads[o].copy.generation
           => th = o

AwaitedDown ==
    \A th \in Threads : Awaits(threads[th]) =>
        \A d \in DisplayIds : monitors[d] # threads[th].copy.generation

DepartedDown ==
    \A th \in Threads : threads[th].at \in DepartSites /\ threads[th].answer = "None" =>
        ~Up(threads[th].copy)

Custody == MonitorsOld /\ ArrivalsOwn /\ AwaitedDown /\ DepartedDown

\* A step of th that is no call: whether it begins an arrival of its own, or goes on with one.
GoesOnArriving(th) ==
    Arriving(threads'[th]) =>
        \/ Awaits(threads[th]) /\ threads'[th].copy = threads[th].copy
        \/ threads'[th].copy.generation = nextGeneration /\ nextGeneration' = nextGeneration + 1

GoesOnUnanswered(th) == threads'[th].at \in CallSites => threads'[th].answer = "none yet"

GoesOn(th) == GoesOnArriving(th) /\ GoesOnUnanswered(th)

\* The ways to go on, one by one.
LEMMA FinishingGoesOn ==
  ASSUME IndInv, NEW th \in Threads, Finish(th)
  PROVE  GoesOn(th)
<1>1. threads'[th] = Idle
  BY DEF Finish, IndInv, ThreadsShape
<1>2. Idle.at = "idle" /\ "idle" \notin CallSites
  BY DEF Idle, CallSites, DepartSites, UnreserveSites
<1> QED
  BY <1>1, <1>2 DEF GoesOn, GoesOnArriving, GoesOnUnanswered, Arriving

LEMMA CallingGoesOn ==
  ASSUME IndInv, NEW th \in Threads, NEW site, NEW s, NEW more, GoCall(th, site, s, more),
         \/ site \notin {"reserve", "arrive", "unreserveFailed"}
         \/ Awaits(threads[th]) /\ s = threads[th].copy
         \/ s.generation = nextGeneration /\ nextGeneration' = nextGeneration + 1
  PROVE  /\ GoesOn(th)
         /\ threads'[th].at = site /\ threads'[th].copy = s
<1>1. Moves(th, AtCall(th, site, s, more))
  BY GoCallMoves, Zenon
<1>2. threads'[th] = AtCall(th, site, s, more)
  BY <1>1, Zenon DEF Moves
<1>3. LET x == AtCall(th, site, s, more)
      IN  x.at = site /\ x.answer = "none yet" /\ x.copy = s
  BY DEF AtCall
<1>4. threads'[th].at = site /\ threads'[th].answer = "none yet" /\ threads'[th].copy = s
  BY <1>2, <1>3
<1> QED
  BY <1>4 DEF GoesOn, GoesOnArriving, GoesOnUnanswered, Arriving

LEMMA KeepingLockGoesOn ==
  ASSUME IndInv, NEW th \in Threads, KeepLockToCreate(th)
  PROVE  GoesOn(th)
<1>1. threads = [o \in Threads |-> threads[o]] /\ IsThread(threads[th])
  BY DEF IndInv, ThreadsShape, ThreadShape
<1>2. threads'[th] = [threads[th] EXCEPT !.at = "create"]
  BY <1>1 DEF KeepLockToCreate
<1>3. threads'[th].at = "create"
  BY <1>1, <1>2 DEF IsThread
<1>4. "create" \notin CallSites
  BY DEF CallSites, DepartSites, UnreserveSites
<1> QED
  BY <1>3, <1>4 DEF GoesOn, GoesOnArriving, GoesOnUnanswered, Arriving

LEMMA StoreCreateGoesOn ==
  ASSUME IndInv, NEW th \in Threads, StoreCreate(th)
  PROVE  GoesOn(th)
<1> DEFINE r == threads[th].request.args
           t == threads[th].asked
<1>1. CASE Store!CreateTemporaryDisplay(r, t)
           /\ GoCall(th, IF r.ephemeral THEN "arrive" ELSE "reserve", Created(r), {})
  <2>1. Created(r).generation = nextGeneration
    BY DEF Created
  <2>2. nextGeneration' = nextGeneration + 1
    BY <1>1 DEF Store!CreateTemporaryDisplay, Store!AdvanceCounters
  <2> QED
    BY <1>1, <2>1, <2>2, CallingGoesOn
<1> QED
  BY <1>1, FinishingGoesOn DEF StoreCreate

LEMMA SubmittingGoesOn ==
  ASSUME IndInv, NEW th \in Workers, NEW r, Submit(th, r)
  PROVE  GoesOn(th)
<1>1. th \in Threads /\ threads = [o \in Threads |-> threads[o]]
  BY DEF Threads, IndInv, ThreadsShape
<1>2. IsThread(Idle)
  BY DEF IsThread, Idle
<1>3. threads' = [threads EXCEPT ![th] = Started(Idle, r, now)]
  BY Zenon DEF Submit, Started
<1>4. threads'[th] = Started(Idle, r, now)
  BY <1>1, <1>3
<1>5. threads'[th].at = "start"
  BY <1>2, <1>4, StartedShape
<1>6. "start" \notin CallSites
  BY DEF CallSites, DepartSites, UnreserveSites
<1> QED
  BY <1>5, <1>6 DEF GoesOn, GoesOnArriving, GoesOnUnanswered, Arriving

\* Waiting in vain for the backend lock changes nothing but the answer.
LEMMA TimingOut ==
  ASSUME IndInv, NEW th \in Threads, TimeOut(th)
  PROVE  /\ GoesOnArriving(th)
         /\ threads'[th].at = threads[th].at /\ threads'[th].copy = threads[th].copy
         /\ threads'[th].answer = "Busy"
<1>1. threads = [o \in Threads |-> threads[o]] /\ IsThread(threads[th])
  BY DEF IndInv, ThreadsShape, ThreadShape
<1>2. threads'[th] = [threads[th] EXCEPT !.answer = "Busy"] /\ threads[th].answer = "none yet"
  BY <1>1 DEF TimeOut, Waiting
<1>3. /\ threads'[th].at = threads[th].at /\ threads'[th].copy = threads[th].copy
      /\ threads'[th].answer = "Busy"
  BY <1>1, <1>2 DEF IsThread
<1> QED
  BY <1>2, <1>3 DEF GoesOnArriving, Arriving, Awaits

\* Every section under the controller lock goes on in one of these ways.
LEMMA ServingGoesOn ==
  ASSUME IndInv, NEW th \in Workers, Serve(th)
  PROVE  GoesOn(th)
<1> DEFINE s == threads[th].copy
<1>1. th \in Threads
  BY DEF Threads
<1>2. ASSUME NEW site \in {"clearPending", "reclaim", "remove", "release", "manifest",
                           "departStale", "departPending", "unreserveStale"},
             NEW c, NEW more, GoCall(th, site, c, more)
      PROVE  GoesOn(th)
  BY <1>1, <1>2, CallingGoesOn
<1>3. CASE CreateFresh(th) \/ CreateAfterClearing(th)
  BY <1>1, <1>3, StoreCreateGoesOn DEF CreateFresh, CreateAfterClearing
<1>4. CASE CreateOnPending(th) \/ Reclaim(th) \/ SetManifest(th)
  BY <1>2, <1>4 DEF CreateOnPending, Reclaim, SetManifest
<1>5. CASE PendingCleared(th)
  BY <1>1, <1>5, KeepingLockGoesOn, FinishingGoesOn DEF PendingCleared
<1>6. CASE Reserved(th)
  <2>1. CASE Finish(th)
    BY <1>1, <2>1, FinishingGoesOn
  <2>2. CASE GoCall(th, IF Current(s) THEN "arrive" ELSE "unreserveStale", s, {})
    <3>1. Awaits(threads[th])
      BY <1>6 DEF Reserved, Return, Awaits, Arriving
    <3> QED
      BY <1>1, <2>2, <3>1, CallingGoesOn
  <2> QED
    BY <1>6, <2>1, <2>2 DEF Reserved
<1>7. CASE Arrived(th)
  <2>1. CASE threads[th].answer # "None" /\ GoCall(th, "unreserveFailed", s, {})
    <3>1. Awaits(threads[th])
      BY <1>7, <2>1 DEF Arrived, Return, Awaits, Arriving
    <3> QED
      BY <1>1, <2>1, <3>1, CallingGoesOn
  <2> QED
    BY <1>1, <1>2, <1>7, <2>1, FinishingGoesOn DEF Arrived
<1>8. CASE StaleCleaned(th) \/ ArrivalRolledBack(th) \/ PendingArrivalDeparted(th)
  BY <1>1, <1>8, FinishingGoesOn DEF StaleCleaned, ArrivalRolledBack, PendingArrivalDeparted
<1>9. CASE ReclaimLocked(th) \/ Removed(th) \/ Feed(th) \/ ManifestApplied(th)
  BY <1>1, <1>9, FinishingGoesOn DEF ReclaimLocked, Removed, Feed, ManifestApplied
<1>10. CASE Remove(th)
  BY <1>1, <1>2, <1>10, FinishingGoesOn DEF Remove
<1>11. CASE Release(th) \/ Departed(th, "release")
  BY <1>1, <1>2, <1>11, FinishingGoesOn DEF Release, Departed, GoDepart
<1> QED
  BY <1>3, <1>4, <1>5, <1>6, <1>7, <1>8, <1>9, <1>10, <1>11 DEF Serve

LEMMA ReapingGoesOn ==
  ASSUME IndInv, ReaperStep
  PROVE  GoesOn(Reaper)
<1>1. Reaper \in Threads
  BY DEF Threads
<1>2. Finish(Reaper) \/ \E c, more : GoCall(Reaper, "reap", c, more)
  BY DEF ReaperStep, Reap, Departed, GoDepart
<1> QED
  BY <1>1, <1>2, FinishingGoesOn, CallingGoesOn

\* Generations are handed out one after the other.
LEMMA GenerationsAdvance ==
  ASSUME IndInv, [Next]_vars
  PROVE  nextGeneration \in Nat /\ nextGeneration' \in {nextGeneration, nextGeneration + 1}
<1>1. nextGeneration \in Nat
  BY DEF IndInv, StoreShape
<1>2. CASE UNCHANGED Store!vars
  BY <1>1, <1>2 DEF Store!vars
<1>3. CASE Store!Next
  BY <1>1, <1>3
  DEF Store!Next, Store!Tick, Store!storeVars, Store!Create, Store!CreateTemporaryDisplay,
      Store!AdvanceCounters, Store!Refuse, Store!RefuseCreate, Store!Reclaim,
      Store!ReclaimTemporaryDisplay, Store!Remove, Store!RemoveTemporaryDisplay, Store!MarkPending,
      Store!MarkPendingDeparture, Store!Abandon, Store!AbandonPendingDisplay, Store!Feed,
      Store!FeedLease, Store!Release, Store!ReleaseLease, Store!Reap, Store!ReapExpired
<1> QED
  BY <1>2, <1>3, StepIsStoreStep

\* A step of one thread that leaves the monitors alone.
LEMMA ThreadKeepsCustody ==
  ASSUME Custody, nextGeneration \in Nat \ {0},
         nextGeneration' \in {nextGeneration, nextGeneration + 1}, monitors' = monitors,
         NEW th \in Threads, \A o \in Threads \ {th} : threads'[o] = threads[o],
         GoesOnArriving(th),
         threads'[th].at \in DepartSites => threads'[th].answer # "None"
  PROVE  Custody'
<1>1. MonitorsOld'
  BY DEF Custody, MonitorsOld
<1>2. ASSUME NEW o \in Threads, Arriving(threads'[o])
      PROVE  \/ o # th /\ threads'[o] = threads[o] /\ Arriving(threads[o])
             \/ o = th /\ Awaits(threads[th]) /\ threads'[th].copy = threads[th].copy
             \/ o = th /\ threads'[th].copy.generation = nextGeneration
                /\ nextGeneration' = nextGeneration + 1
  BY <1>2 DEF GoesOnArriving
<1>3. Awaits(threads[th]) => Arriving(threads[th])
  BY DEF Awaits
<1>4. ArrivalsOwn'
  <2>1. \A o \in Threads : Arriving(threads[o]) =>
            /\ threads[o].copy.generation \in Nat \ {0}
            /\ threads[o].copy.generation < nextGeneration
    BY DEF Custody, ArrivalsOwn
  <2>2. \A o, q \in Threads :
            /\ Arriving(threads[o]) /\ Arriving(threads[q])
            /\ threads[o].copy.generation = threads[q].copy.generation
            => o = q
    BY DEF Custody, ArrivalsOwn
  <2>3. \A o \in Threads : Arriving(threads'[o]) =>
            /\ threads'[o].copy.generation \in Nat \ {0}
            /\ threads'[o].copy.generation < nextGeneration'
    BY <1>2, <1>3, <2>1
  <2>4. ASSUME NEW o \in Threads, NEW q \in Threads, Arriving(threads'[o]), Arriving(threads'[q]),
               threads'[o].copy.generation = threads'[q].copy.generation, o # q
        PROVE  FALSE
    <3>1. PICK e \in Threads : e \in {o, q} /\ e # th
      BY <2>4
    <3>2. threads'[e] = threads[e] /\ Arriving(threads[e])
      BY <1>2, <2>4, <3>1
    <3>3. th \in {o, q}
      BY <1>2, <2>2, <2>4
    <3>4. threads'[th].copy.generation = threads[e].copy.generation /\ Arriving(threads'[th])
      BY <2>4, <3>1, <3>2, <3>3
    <3>5. CASE Awaits(threads[th]) /\ threads'[th].copy = threads[th].copy
      BY <1>3, <2>2, <3>1, <3>2, <3>4, <3>5
    <3>6. CASE threads'[th].copy.generation = nextGeneration
      <4>1. threads[e].copy.generation < nextGeneration /\ threads[e].copy.generation = nextGeneration
        BY <2>1, <3>2, <3>4, <3>6
      <4>2. ~(nextGeneration < nextGeneration)
        OBVIOUS
      <4> QED
        BY <4>1, <4>2
    <3> QED
      BY <1>2, <3>4, <3>5, <3>6
  <2> QED
    BY <2>3, <2>4 DEF ArrivalsOwn
<1>5. AwaitedDown'
  <2>1. ASSUME NEW o \in Threads, Awaits(threads'[o]), NEW d \in DisplayIds
        PROVE  monitors[d] # threads'[o].copy.generation
    <3>1. Arriving(threads'[o])
      BY <2>1 DEF Awaits
    <3>2. monitors[d] \in Nat /\ monitors[d] < nextGeneration
      BY DEF Custody, MonitorsOld
    <3>3. CASE o # th
      BY <2>1, <3>3 DEF Custody, AwaitedDown
    <3>4. CASE o = th /\ Awaits(threads[th]) /\ threads'[th].copy = threads[th].copy
      BY <3>4 DEF Custody, AwaitedDown
    <3>5. CASE o = th /\ threads'[th].copy.generation = nextGeneration
      BY <3>2, <3>5
    <3> QED
      BY <1>2, <3>1, <3>3, <3>4, <3>5
  <2> QED
    BY <2>1 DEF AwaitedDown
<1>6. DepartedDown'
  <2>1. ASSUME NEW o \in Threads, threads'[o].at \in DepartSites, threads'[o].answer = "None"
        PROVE  ~Up(threads'[o].copy)
    <3>1. o # th /\ threads'[o] = threads[o]
      BY <2>1
    <3> QED
      BY <2>1, <3>1 DEF Custody, DepartedDown
  <2> QED
    BY <2>1 DEF DepartedDown, Up
<1> QED
  BY <1>1, <1>4, <1>5, <1>6 DEF Custody

\* A call changes at most the monitor it is for: an arrival brings its own up, a
\* departure that is answered "None" has left none of its generation.
LEMMA CallMonitors ==
  ASSUME IndInv, Custody, NEW th \in Threads, CallAt(th), threads[th].at \in CallSites
  PROVE  LET s == threads[th].copy IN
         \E a \in {"None", "Failed"} :
             /\ threads' = [threads EXCEPT ![th].answer = a]
             /\ \/ monitors' = monitors
                \/ s.display \in DisplayIds /\ monitors' = [monitors EXCEPT ![s.display] = 0]
                \/ /\ threads[th].at = "arrive" /\ a = "None" /\ s.display \in DisplayIds
                   /\ monitors' = [monitors EXCEPT ![s.display] = s.generation]
             /\ threads[th].at = "arrive" /\ a = "None" =>
                    monitors' = [monitors EXCEPT ![s.display] = s.generation]
             /\ threads[th].at \in DepartSites /\ a = "None" => GoesDown(s)
<1> DEFINE site == threads[th].at
           s == threads[th].copy
<1>1. /\ ThreadShape(threads[th], th) /\ monitors \in [DisplayIds -> Nat]
  BY DEF IndInv, ThreadsShape, Custody, MonitorsOld
<1>2. /\ "arrive" \notin DepartSites /\ "reserve" \notin DepartSites
      /\ "manifest" \notin DepartSites /\ "reclaim" \notin DepartSites
      /\ \A x \in UnreserveSites : x \notin DepartSites /\ x # "arrive"
  BY DEF DepartSites, UnreserveSites
<1>3. ASSUME NEW g, g \in {0, s.generation}, site \in DepartSites, Depart(th, s.display, g)
      PROVE  \E a \in {"None", "Failed"} :
                 /\ threads' = [threads EXCEPT ![th].answer = a]
                 /\ \/ monitors' = monitors
                    \/ s.display \in DisplayIds /\ monitors' = [monitors EXCEPT ![s.display] = 0]
                 /\ a = "None" => GoesDown(s)
  <2>1. s.display \in DisplayIds
    BY <1>1, <1>3 DEF ThreadShape, NamesRecord, CallSites, DepartSites
  <2>2. CASE ~Departs(s.display, g) /\ UNCHANGED monitors /\ Answers(th, "None")
    <3>1. ~(monitors[s.display] # 0 /\ g \in {0, monitors[s.display]})
      BY <2>2 DEF Departs
    <3>2. GoesDown(s)
      BY <1>3, <2>2, <3>1 DEF GoesDown
    <3> QED
      BY <2>2, <3>2 DEF Answers
  <2>3. CASE monitors' = [monitors EXCEPT ![s.display] = 0] /\ Answers(th, "None")
    <3>1. monitors'[s.display] = 0
      BY <1>1, <2>1, <2>3
    <3>2. GoesDown(s)
      BY <3>1 DEF GoesDown
    <3> QED
      BY <2>1, <2>3, <3>2 DEF Answers
  <2>4. CASE Answers(th, "Failed") /\ (UNCHANGED monitors \/ monitors' = [monitors EXCEPT ![s.display] = 0])
    BY <2>1, <2>4 DEF Answers
  <2> QED
    BY <1>3, <2>2, <2>3, <2>4 DEF Depart
<1>4. CASE site \in DepartSites /\ \E g \in {0, s.generation} : Depart(th, s.display, g)
  BY <1>2, <1>3, <1>4
<1>5. CASE site = "arrive" /\ Arrive(th, s)
  <2>1. s.display \in DisplayIds
    BY <1>1, <1>5 DEF ThreadShape, NamesRecord
  <2> QED
    BY <1>2, <1>5, <2>1 DEF Arrive, Answers
<1>6. CASE \/ site \in UnreserveSites /\ Unreserve(th, s.display)
           \/ site = "reserve" /\ Reserve(th, s)
  BY <1>2, <1>6 DEF Unreserve, Reserve, Answers
<1>7. CASE \/ site = "manifest" /\ ApplyManifest(th, threads[th].request.args)
           \/ site = "reclaim" /\ Answers(th, "None") /\ UNCHANGED backendVars
  BY <1>2, <1>7 DEF ApplyManifest, Answers, backendVars
<1> QED
  BY <1>4, <1>5, <1>6, <1>7 DEF CallAt, DepartSites

\* While the backend lock is free nobody has an answer, so an answer that comes is news.
LEMMA CallKeepsCustody ==
  ASSUME IndInv, Custody, NEW th \in Threads, Call(th)
  PROVE  Custody'
<1> DEFINE s == threads[th].copy
           y == threads'[th]
<1>1. /\ Waiting(th) /\ backendLock = NoThread /\ CallAt(th)
      /\ nextGeneration' = nextGeneration
  BY DEF Call, storeVars
<1>2. PICK a \in {"None", "Failed"} :
          /\ threads' = [threads EXCEPT ![th].answer = a]
          /\ \/ monitors' = monitors
             \/ s.display \in DisplayIds /\ monitors' = [monitors EXCEPT ![s.display] = 0]
             \/ /\ threads[th].at = "arrive" /\ a = "None" /\ s.display \in DisplayIds
                /\ monitors' = [monitors EXCEPT ![s.display] = s.generation]
          /\ threads[th].at \in DepartSites /\ a = "None" => GoesDown(s)
  BY <1>1, CallMonitors DEF Waiting
<1>3. IsThread(threads[th]) /\ threads = [o \in Threads |-> threads[o]]
  BY DEF IndInv, ThreadsShape, ThreadShape
<1>4. y = [threads[th] EXCEPT !.answer = a] /\ \A o \in Threads \ {th} : threads'[o] = threads[o]
  BY <1>2, <1>3
<1>5. y.answer = a /\ y.at = threads[th].at /\ y.copy = s
  <2> HIDE DEF y
  <2> QED
    BY <1>3, <1>4 DEF IsThread
<1>6. \A o \in Threads : threads'[o].at = threads[o].at /\ threads'[o].copy = threads[o].copy
  BY <1>4, <1>5
<1>7. \A o \in Threads : threads[o].at \in CallSites => threads[o].answer # "None"
  BY <1>1, ThreadsAssumption DEF IndInv, AnsweredHoldsLock, Answered
<1>8. \A o \in Threads : Arriving(threads'[o]) <=> Arriving(threads[o])
  BY <1>6 DEF Arriving
<1>9. /\ monitors \in [DisplayIds -> Nat] /\ nextGeneration \in Nat \ {0}
      /\ \A d \in DisplayIds : monitors[d] < nextGeneration
  BY DEF Custody, MonitorsOld, IndInv, StoreShape
<1>10. threads[th].at = "arrive" => s.generation \in Nat \ {0} /\ s.generation < nextGeneration
  BY DEF Custody, ArrivalsOwn, Arriving
<1> HIDE DEF y
<1>11. \A d \in DisplayIds : \/ monitors'[d] = monitors[d]
                             \/ monitors'[d] = 0
                             \/ threads[th].at = "arrive" /\ a = "None" /\ monitors'[d] = s.generation
  BY <1>2, <1>9
<1>12. MonitorsOld'
  <2>1. monitors' \in [DisplayIds -> Nat]
    BY <1>2, <1>9, <1>10
  <2>2. ASSUME NEW d \in DisplayIds
        PROVE  monitors'[d] < nextGeneration'
    <3>1. CASE monitors'[d] = monitors[d]
      BY <1>1, <1>9, <3>1
    <3>2. CASE monitors'[d] = 0
      BY <1>1, <1>9, <3>2
    <3>3. CASE threads[th].at = "arrive" /\ monitors'[d] = s.generation
      BY <1>1, <1>10, <3>3
    <3> QED
      BY <1>11, <3>1, <3>2, <3>3
  <2> QED
    BY <2>1, <2>2 DEF MonitorsOld
<1>13. ArrivalsOwn'
  BY <1>1, <1>6, <1>8 DEF Custody, ArrivalsOwn
<1>14. AwaitedDown'
  <2>1. ASSUME NEW o \in Threads, Awaits(threads'[o]), NEW d \in DisplayIds
        PROVE  monitors'[d] # threads'[o].copy.generation
    <3>1. Arriving(threads[o]) /\ threads'[o].copy = threads[o].copy
      BY <1>6, <1>8, <2>1 DEF Awaits
    <3>2. threads[o].copy.generation \in Nat \ {0}
      BY <3>1 DEF Custody, ArrivalsOwn
    <3>3. "arrive" \in CallSites
      BY DEF CallSites
    <3>4. Awaits(threads[o])
      BY <1>7, <3>1, <3>3 DEF Awaits
    <3>5. monitors[d] # threads[o].copy.generation
      BY <3>4 DEF Custody, AwaitedDown
    <3>6. CASE threads[th].at = "arrive" /\ a = "None" /\ monitors'[d] = s.generation
      <4>1. Arriving(threads[th])
        BY <3>6 DEF Arriving
      <4>2. o # th
        BY <1>5, <1>6, <2>1, <3>6 DEF Awaits, y
      <4> QED
        BY <3>1, <3>6, <4>1, <4>2 DEF Custody, ArrivalsOwn
    <3> QED
      BY <1>11, <3>1, <3>2, <3>5, <3>6
  <2> QED
    BY <2>1 DEF AwaitedDown
<1>15. DepartedDown'
  <2>1. ASSUME NEW o \in Threads, threads'[o].at \in DepartSites, threads'[o].answer = "None"
        PROVE  GoesDown(threads'[o].copy)
    <3>1. threads[o].at \in DepartSites /\ DepartSites \subseteq CallSites
      BY <1>6, <2>1 DEF CallSites
    <3>2. o = th
      BY <1>4, <1>7, <2>1, <3>1
    <3> QED
      BY <1>2, <1>5, <2>1, <3>1, <3>2 DEF y
  <2> QED
    BY <2>1 DEF DepartedDown, Up, GoesDown
<1> QED
  BY <1>12, <1>13, <1>14, <1>15 DEF Custody

LEMMA InitialCustody == Init => Custody
<1> SUFFICES ASSUME Init PROVE Custody
  OBVIOUS
<1>1. /\ monitors = [d \in DisplayIds |-> 0] /\ nextGeneration = 1
      /\ threads = [th \in Threads |-> Idle]
  BY DEF Init, Store!Init
<1>2. Idle.at \notin DepartSites /\ ~Arriving(Idle)
  BY DEF Idle, DepartSites, Arriving
<1> QED
  BY <1>1, <1>2 DEF Custody, MonitorsOld, ArrivalsOwn, AwaitedDown, DepartedDown, Awaits

\* How a step that is no call goes on.
LEMMA StepGoesOn ==
  ASSUME IndInv, Next
  PROVE  \/ UNCHANGED <<threads, monitors, failures, busy>>
         \/ \E th \in Threads : Call(th)
         \/ \E th \in Threads : /\ \A o \in Threads \ {th} : threads'[o] = threads[o]
                                /\ monitors' = monitors
                                /\ GoesOnArriving(th)
                                /\ \/ failures' = failures /\ busy' = busy /\ GoesOnUnanswered(th)
                                   \/ TimeOut(th)
<1>1. \A th \in Workers : th \in Threads
  BY DEF Threads
<1>2. ASSUME NEW th \in Threads, MovesOn(th)
      PROVE  \A o \in Threads \ {th} : threads'[o] = threads[o]
  BY <1>2 DEF MovesOn, Moves
<1>3. ASSUME NEW th \in Workers, Serve(th)
      PROVE  /\ \A o \in Threads \ {th} : threads'[o] = threads[o]
             /\ monitors' = monitors
  <2>1. MovesOn(th) /\ LetsGo(th)
    <3>1. CASE ReclaimLocked(th)
      BY <3>1, ReclaimLockedMoves
    <3>2. CASE ~ReclaimLocked(th)
      <4>1. Served(th)
        BY <1>3, <3>2, ServedOrReclaims
      <4> QED
        BY <4>1 DEF Served
    <3> QED
      BY <3>1, <3>2
  <2> QED
    BY <1>1, <1>2, <2>1 DEF LetsGo
<1>4. ASSUME NEW th \in Workers, Serve(th)
      PROVE  failures' = failures /\ busy' = busy
  BY <1>4 DEF Serve, CreateFresh, CreateOnPending, PendingCleared, CreateAfterClearing, Reserved,
              Arrived, StaleCleaned, ArrivalRolledBack, PendingArrivalDeparted, Reclaim, ReclaimLocked,
              Remove, Removed, Release, Departed, Feed, SetManifest, ManifestApplied, Enter, Return, bounds
<1>5. CASE \E th \in Workers : Serve(th)
  BY <1>1, <1>3, <1>4, <1>5, ServingGoesOn DEF GoesOn
<1>6. CASE ReaperStep
  <2>1. Reaper \in Threads
    BY DEF Threads
  <2>2. Served(Reaper)
    BY <1>6, <2>1, ReapServes, DepartedServes DEF ReaperStep
  <2>3. failures' = failures /\ busy' = busy
    BY <1>6 DEF ReaperStep, Reap, Departed, Return, bounds
  <2> QED
    BY <1>2, <1>6, <2>1, <2>2, <2>3, ReapingGoesOn DEF Served, LetsGo, GoesOn
<1>7. ASSUME NEW th \in Workers, NEW r \in Requests, Submit(th, r)
      PROVE  /\ \A o \in Threads \ {th} : threads'[o] = threads[o]
             /\ monitors' = monitors /\ GoesOn(th)
             /\ failures' = failures /\ busy' = busy
  <2>1. Served(th) /\ GoesOn(th)
    BY <1>7, SubmitServes, SubmittingGoesOn
  <2> QED
    BY <1>1, <1>2, <1>7, <2>1 DEF Served, LetsGo, Submit
<1>8. ASSUME NEW th \in Threads, TimeOut(th)
      PROVE  /\ \A o \in Threads \ {th} : threads'[o] = threads[o]
             /\ monitors' = monitors /\ GoesOnArriving(th)
  BY <1>2, <1>8, TimeOutServes, TimingOut DEF Served, LetsGo
<1>9. CASE Tick
  BY <1>9 DEF Tick, backendVars, bounds
<1> QED
  BY <1>1, <1>5, <1>6, <1>7, <1>8, <1>9 DEF Next, GoesOn

LEMMA StepKeepsCustody == IndInv /\ Custody /\ [Next]_vars => Custody'
<1> SUFFICES ASSUME IndInv, Custody, [Next]_vars PROVE Custody'
  OBVIOUS
<1>1. nextGeneration \in Nat \ {0} /\ nextGeneration' \in {nextGeneration, nextGeneration + 1}
  BY GenerationsAdvance DEF IndInv, StoreShape
<1>2. CASE UNCHANGED <<threads, monitors>>
  <2>1. MonitorsOld'
    BY <1>1, <1>2 DEF Custody, MonitorsOld
  <2>2. ArrivalsOwn'
    BY <1>1, <1>2 DEF Custody, ArrivalsOwn
  <2>3. AwaitedDown' /\ DepartedDown'
    BY <1>2 DEF Custody, AwaitedDown, DepartedDown, Up
  <2> QED
    BY <2>1, <2>2, <2>3 DEF Custody
<1>3. ASSUME NEW th \in Threads, \A o \in Threads \ {th} : threads'[o] = threads[o],
             monitors' = monitors, GoesOnArriving(th), GoesOnUnanswered(th) \/ TimeOut(th)
      PROVE  Custody'
  <2>1. threads'[th].at \in DepartSites => threads'[th].answer # "None"
    <3>1. DepartSites \subseteq CallSites
      BY DEF CallSites
    <3> QED
      BY <1>3, <3>1, TimingOut DEF GoesOnUnanswered
  <2> QED
    BY <1>1, <1>3, <2>1, ThreadKeepsCustody
<1>4. CASE UNCHANGED vars
  BY <1>2, <1>4 DEF vars, backendVars
<1> QED
  BY <1>2, <1>3, <1>4, StepGoesOn, CallKeepsCustody

\* What the end of an arrival or of its cleanup has.
LEMMA ServedAtCall ==
  ASSUME NEW th \in Workers, Serve(th), threads[th].at \in {"arrive", "departStale"}
  PROVE  /\ threads[th].answer # "none yet"
         /\ threads[th].at = "arrive" => Arrived(th)
BY DEF Serve, CreateFresh, CreateOnPending, PendingCleared, CreateAfterClearing, Reserved, Arrived,
       StaleCleaned, ArrivalRolledBack, PendingArrivalDeparted, Reclaim, ReclaimLocked,
       Remove, Removed, Release, Departed, Feed, SetManifest, ManifestApplied, Enter, Return

\* A worker that goes on is served, calls, waits in vain, or takes a request.
LEMMA WhoMoves ==
  ASSUME IndInv, [Next]_vars, NEW th \in Workers, threads'[th] # threads[th]
  PROVE  \/ Serve(th) \/ Call(th) \/ TimeOut(th)
         \/ threads[th].at = "idle"
<1>1. /\ \A o \in Workers : o \in Threads
      /\ Reaper \in Threads /\ th # Reaper
  BY ThreadsAssumption DEF Threads
<1>2. ASSUME NEW o \in Threads, MovesOn(o)
      PROVE  o = th
  BY <1>1, <1>2 DEF MovesOn, Moves
<1>3. ASSUME NEW o \in Workers, Serve(o)
      PROVE  o = th
  BY <1>1, <1>2, <1>3, ServedOrReclaims, ReclaimLockedMoves DEF Served
<1>4. ASSUME NEW o \in Threads, Call(o)
      PROVE  o = th
  <2>1. threads = [e \in Threads |-> threads[e]]
    BY DEF IndInv, ThreadsShape
  <2>2. threads[o].at \in CallSites /\ CallAt(o)
    BY <1>4 DEF Call, Waiting
  <2>3. PICK a \in {"None", "Failed"} : threads' = [threads EXCEPT ![o].answer = a]
    BY <2>2, CallEffects
  <2> QED
    BY <1>1, <2>1, <2>3
<1>5. ASSUME NEW o \in Threads, TimeOut(o)
      PROVE  o = th
  BY <1>2, <1>5, TimeOutServes DEF Served
<1>6. ~ReaperStep
  BY <1>1, <1>2, ReapServes, DepartedServes DEF ReaperStep, Served
<1>7. ASSUME NEW o \in Workers, NEW r \in Requests, Submit(o, r)
      PROVE  o = th
  BY <1>1, <1>2, <1>7, SubmitServes DEF Served
<1>8. ~Tick /\ ~UNCHANGED vars
  BY DEF Tick, vars
<1> QED
  BY <1>1, <1>3, <1>4, <1>5, <1>6, <1>7, <1>8 DEF Next, Submit

\* What brings a monitor up or takes it away, whatever the thread that calls.
LEMMA MonitorChanges ==
  ASSUME IndInv, Custody, [Next]_vars, NEW d \in DisplayIds, monitors'[d] \notin {0, monitors[d]}
  PROVE  Attended(d)'
<1>1. PICK th \in Threads : Call(th)
  BY StepGoesOn DEF vars, backendVars
<1> DEFINE s == threads[th].copy
<1>2. PICK a \in {"None", "Failed"} :
          /\ threads' = [threads EXCEPT ![th].answer = a]
          /\ \/ monitors' = monitors
             \/ s.display \in DisplayIds /\ monitors' = [monitors EXCEPT ![s.display] = 0]
             \/ /\ threads[th].at = "arrive" /\ a = "None" /\ s.display \in DisplayIds
                /\ monitors' = [monitors EXCEPT ![s.display] = s.generation]
  BY <1>1, CallMonitors DEF Call, Waiting
<1>3. monitors \in [DisplayIds -> Nat]
  BY DEF Custody, MonitorsOld
<1>4. threads[th].at = "arrive" /\ s.display = d /\ monitors'[d] = s.generation
  BY <1>2, <1>3
<1>5. ThreadShape(threads[th], th) /\ threads = [o \in Threads |-> threads[o]]
  BY DEF IndInv, ThreadsShape
<1>6. th \in Workers /\ IsThread(threads[th])
  BY <1>4, <1>5 DEF ThreadShape, CreateSites
<1>7. threads'[th] = [threads[th] EXCEPT !.answer = a]
  BY <1>2, <1>5
<1>8. threads'[th].at = threads[th].at /\ threads'[th].copy = s
  BY <1>6, <1>7 DEF IsThread
<1>9. "arrive" \in CallSites \ {"reclaim", "manifest"}
  BY DEF CallSites
<1> QED
  BY <1>4, <1>6, <1>8, <1>9 DEF Attended, HoldsGeneration, Holds

\* A monitor whose record goes: only a create that gives up a departure leaves it up.
LEMMA RecordLost ==
  ASSUME IndInv, Custody, Store!TypeOK, [Next]_vars, NEW d \in Store!LiveDisplays,
         displays[d].generation = monitors[d], monitors[d] # 0, ~Store!StaysRecord(d)
  PROVE  \E th \in Workers : OrphanedBy(th, d)
<1>1. d \in DisplayIds /\ MayErase(d)
  BY StepIsFenced, LiveRecords DEF Fenced
<1>2. PICK th \in Threads : /\ threads'[th] # threads[th]
                            /\ HoldsGeneration(th, d, monitors[d])
                            /\ \/ threads[th].at \in DepartSites /\ threads[th].answer = "None"
                               \/ /\ threads[th].at = "clearPending" /\ threads[th].answer = "Failed"
                                  /\ displays[d].pending
                               \/ RollsBack(threads[th])
  BY <1>1 DEF MayErase
<1>3. threads[th].copy.display = d /\ threads[th].copy.generation = monitors[d]
  BY <1>2 DEF HoldsGeneration, Holds
<1>4. ~(threads[th].at \in DepartSites /\ threads[th].answer = "None")
  BY <1>3 DEF Custody, DepartedDown, Up
<1>5. ~RollsBack(threads[th])
  <2>1. RollsBack(threads[th]) => Awaits(threads[th])
    BY DEF RollsBack, Awaits, Arriving
  <2> QED
    BY <1>1, <1>3, <2>1 DEF Custody, AwaitedDown
<1>6. threads[th].at = "clearPending" => th \in Workers
  BY DEF IndInv, ThreadsShape, ThreadShape, CreateSites
<1> QED
  BY <1>2, <1>4, <1>5, <1>6 DEF OrphanedBy

\* A monitor that a create answers for: only its failed cleanup leaves it up.
LEMMA CreateLost ==
  ASSUME IndInv, Custody, [Next]_vars, NEW d \in DisplayIds, monitors'[d] = monitors[d], monitors[d] # 0,
         NEW th \in Workers, threads[th].at \in {"arrive", "departStale"},
         HoldsGeneration(th, d, monitors[d])
  PROVE  Attended(d)' \/ OrphanedBy(th, d)
<1> DEFINE s == threads[th].copy
<1>1. th \in Threads /\ s.display = d /\ s.generation = monitors[d]
  BY DEF Threads, HoldsGeneration, Holds
<1>2. {"arrive", "departStale"} \subseteq CallSites \ {"reclaim", "manifest"} /\ "departStale" \in DepartSites
  BY DEF CallSites, DepartSites
<1>3. ASSUME threads'[th].at \in {"arrive", "departStale"}, threads'[th].copy = s
      PROVE  Attended(d)'
  BY <1>1, <1>2, <1>3 DEF Attended, HoldsGeneration, Holds
<1>4. CASE threads'[th] = threads[th]
  BY <1>3, <1>4
<1>5. CASE Call(th)
  <2>1. PICK a \in {"None", "Failed"} : threads' = [threads EXCEPT ![th].answer = a]
    BY <1>1, <1>5, CallEffects DEF Call, Waiting
  <2>2. IsThread(threads[th]) /\ threads = [o \in Threads |-> threads[o]]
    BY <1>1 DEF IndInv, ThreadsShape, ThreadShape
  <2>3. threads'[th] = [threads[th] EXCEPT !.answer = a]
    BY <1>1, <2>1, <2>2
  <2>4. threads'[th].at = threads[th].at /\ threads'[th].copy = s
    BY <2>2, <2>3 DEF IsThread
  <2> QED
    BY <1>3, <2>4
<1>6. CASE TimeOut(th)
  BY <1>1, <1>3, <1>6, TimingOut
<1>7. CASE Serve(th) /\ threads[th].at = "departStale" /\ threads'[th] # threads[th]
  <2>1. threads[th].answer \in {"Failed", "Busy"}
    <3>1. threads[th].answer # "none yet"
      BY <1>7, ServedAtCall
    <3>2. threads[th].answer # "None"
      BY <1>1, <1>2, <1>7 DEF Custody, DepartedDown, Up
    <3> QED
      BY <1>1, <3>1, <3>2 DEF IndInv, ThreadsShape, ThreadShape
  <2> QED
    BY <1>7, <2>1 DEF OrphanedBy
<1>8. CASE Serve(th) /\ threads[th].at = "arrive"
  <2>1. ~Awaits(threads[th])
    BY <1>1 DEF Custody, AwaitedDown
  <2>2. threads[th].answer = "None" /\ Arrived(th)
    BY <1>8, <2>1, ServedAtCall DEF Awaits, Arriving
  <2>3. CASE GoCall(th, "departStale", s, {})
    <3>1. threads'[th].at = "departStale" /\ threads'[th].copy = s
      BY <1>1, <2>3, CallingGoesOn
    <3> QED
      BY <1>3, <3>1
  <2>4. CASE Current(s) /\ UNCHANGED storeVars
    BY <1>1, <2>4 DEF Current, storeVars, Attended, Store!LiveDisplays
  <2> QED
    BY <2>2, <2>3, <2>4 DEF Arrived
<1>9. threads[th].at # "idle"
  OBVIOUS
<1> QED
  BY <1>4, <1>5, <1>6, <1>7, <1>8, <1>9, WhoMoves

\* A monitor is left without a record and without a create that will depart it by
\* nothing but a cleanup that failed or never got the backend, or by a create that
\* gave up departing the display it was to take.
LEMMA OrphanStep ==
  ASSUME IndInv, Custody, Store!TypeOK, [Next]_vars,
         NEW d \in DisplayIds, ~Orphaned(d), Orphaned(d)'
  PROVE  \E th \in Workers : OrphanedBy(th, d)
<1>1. monitors'[d] # 0 /\ ~Attended(d)'
  BY DEF Orphaned
<1>2. monitors'[d] = monitors[d]
  BY <1>1, MonitorChanges
<1>3. Attended(d)
  BY <1>1, <1>2 DEF Orphaned
<1>4. CASE d \in Store!LiveDisplays /\ displays[d].generation = monitors[d]
  <2>1. ~Store!StaysRecord(d)
    BY <1>1, <1>2, <1>4 DEF Attended, Store!StaysRecord, Store!LiveDisplays
  <2> QED
    BY <1>1, <1>2, <1>4, <2>1, RecordLost
<1>5. CASE \E th \in Workers : /\ threads[th].at \in {"arrive", "departStale"}
                               /\ HoldsGeneration(th, d, monitors[d])
  BY <1>1, <1>2, <1>5, CreateLost
<1> QED
  BY <1>3, <1>4, <1>5 DEF Attended

LEMMA CustodyKept == Spec => []Custody
BY InitialCustody, StepKeepsCustody, ControllerInvariant, PTL DEF Spec

\* The controller may fail to get a monitor down, but it never loses one otherwise:
\* what leaves a monitor to nobody is the cleanup of a create that failed or timed
\* out (its answer is not looked at), or the takeover of a display whose departure
\* failed, and it is the monitor of the very generation that was to depart.
THEOREM MonitorsOrphanedOnlyByFailures ==
  Spec => [][\A d \in DisplayIds : Orphaned(d)' /\ ~Orphaned(d) =>
                 \E th \in Workers : OrphanedBy(th, d)]_vars
<1> DEFINE Step == \A d \in DisplayIds : Orphaned(d)' /\ ~Orphaned(d) =>
                       \E th \in Workers : OrphanedBy(th, d)
<1>1. IndInv /\ Custody /\ StoreTheory!IndInv /\ [Next]_vars => [Step]_vars
  BY StoreTypes, OrphanStep
<1> HIDE DEF Step
<1>2. Spec => [][Step]_vars
  BY <1>1, ControllerInvariant, CustodyKept, StoreInvariantKept, PTL DEF Spec
<1> QED
  BY <1>2 DEF Step

\* No answer that a thread has is a failure.
NothingFailed ==
    \A th \in Threads : threads[th].at \in CallSites => threads[th].answer \in {"none yet", "None"}

\* While no call has failed and no wait has timed out, no answer is a failure.
FaultFree ==
    /\ failures \in Nat /\ busy \in Nat
    /\ failures = 0 /\ busy = 0 => NothingFailed /\ EveryMonitorHasCustodian

LEMMA CustodiansAreAttendants == EveryMonitorHasCustodian <=> \A d \in DisplayIds : ~Orphaned(d)
BY DEF EveryMonitorHasCustodian, Orphaned, Attended

LEMMA CallKeepsAnswers ==
  ASSUME IndInv, FaultFree, NEW th \in Threads, Call(th)
  PROVE  /\ failures' \in {failures, failures + 1} /\ busy' = busy
         /\ failures' = 0 /\ busy' = 0 => NothingFailed'
<1>1. threads[th].at \in CallSites /\ CallAt(th) /\ busy' = busy
  BY DEF Call, Waiting
<1>2. PICK a : Answers(th, a)
  BY <1>1 DEF CallAt, Depart, Unreserve, Reserve, Arrive, ApplyManifest
<1>3. IsThread(threads[th]) /\ threads = [o \in Threads |-> threads[o]]
  BY DEF IndInv, ThreadsShape, ThreadShape
<1>4. /\ threads'[th] = [threads[th] EXCEPT !.answer = a]
      /\ \A o \in Threads \ {th} : threads'[o] = threads[o]
  BY <1>2, <1>3 DEF Answers
<1>5. threads'[th].answer = a
  BY <1>3, <1>4 DEF IsThread
<1>6. PICK b \in {"None", "Failed"} : threads' = [threads EXCEPT ![th].answer = b]
  BY <1>1, CallEffects
<1>7. a \in {"None", "Failed"}
  <2>1. threads'[th] = [threads[th] EXCEPT !.answer = b]
    BY <1>3, <1>6
  <2>2. threads'[th].answer = b
    BY <1>3, <2>1 DEF IsThread
  <2> QED
    BY <1>5, <2>2
<1>8. failures' = IF a = "Failed" THEN failures + 1 ELSE failures
  BY <1>2 DEF Answers
<1>9. failures \in Nat
  BY DEF FaultFree
<1>10. failures' = 0 => failures = 0 /\ a = "None"
  BY <1>7, <1>8, <1>9
<1> QED
  BY <1>1, <1>4, <1>5, <1>8, <1>10 DEF FaultFree, NothingFailed

LEMMA StepKeepsAnswers ==
  ASSUME IndInv, FaultFree, [Next]_vars
  PROVE  /\ failures' \in Nat /\ busy' \in Nat
         /\ failures' = 0 /\ busy' = 0 =>
                failures = 0 /\ busy = 0 /\ NothingFailed'
<1>1. failures \in Nat /\ busy \in Nat
  BY DEF FaultFree
<1>2. CASE UNCHANGED <<threads, failures, busy>>
  BY <1>1, <1>2 DEF FaultFree, NothingFailed
<1>3. ASSUME NEW th \in Threads, Call(th)
      PROVE  /\ failures' \in {failures, failures + 1} /\ busy' = busy
             /\ failures' = 0 /\ busy' = 0 => NothingFailed'
  BY <1>3, CallKeepsAnswers
<1>4. ASSUME NEW th \in Threads, \A o \in Threads \ {th} : threads'[o] = threads[o],
             failures' = failures, busy' = busy, GoesOnUnanswered(th)
      PROVE  failures' = 0 /\ busy' = 0 => NothingFailed'
  BY <1>4 DEF FaultFree, NothingFailed, GoesOnUnanswered
<1>5. ASSUME NEW th \in Threads, TimeOut(th)
      PROVE  failures' = failures /\ busy' = busy + 1
  BY <1>5 DEF TimeOut
<1>6. CASE \E th \in Threads : Call(th)
  <2>1. PICK th \in Threads : Call(th)
    BY <1>6
  <2>2. /\ failures' \in {failures, failures + 1} /\ busy' = busy
        /\ failures' = 0 /\ busy' = 0 => NothingFailed'
    BY <1>3, <2>1
  <2>3. /\ failures' \in Nat /\ busy' \in Nat
        /\ failures' = 0 /\ busy' = 0 => failures = 0 /\ busy = 0
    BY <1>1, <2>2
  <2> QED
    BY <2>2, <2>3, Zenon
<1>7. CASE \E th \in Threads : TimeOut(th)
  <2>1. failures' = failures /\ busy' = busy + 1
    BY <1>5, <1>7
  <2>2. failures' \in Nat /\ busy' \in Nat /\ busy' # 0
    BY <1>1, <2>1
  <2> QED
    BY <2>2, Zenon
<1>8. ASSUME NEW th \in Threads, \A o \in Threads \ {th} : threads'[o] = threads[o],
             failures' = failures, busy' = busy, GoesOnUnanswered(th)
      PROVE  /\ failures' \in Nat /\ busy' \in Nat
             /\ failures' = 0 /\ busy' = 0 =>
                    failures = 0 /\ busy = 0 /\ NothingFailed'
  <2>1. failures' = 0 /\ busy' = 0 => NothingFailed'
    BY <1>4, <1>8
  <2>2. /\ failures' \in Nat /\ busy' \in Nat
        /\ failures' = 0 /\ busy' = 0 => failures = 0 /\ busy = 0
    BY <1>1, <1>8
  <2> QED
    BY <2>1, <2>2
<1>9. CASE UNCHANGED vars
  BY <1>2, <1>9 DEF vars, bounds
<1>10. CASE Next
  BY <1>2, <1>6, <1>7, <1>8, <1>10, StepGoesOn
<1> QED
  BY <1>9, <1>10

LEMMA StepKeepsFaultFree ==
  ASSUME IndInv, Custody, Store!TypeOK, FaultFree, [Next]_vars
  PROVE  FaultFree'
<1>1. ASSUME failures' = 0, busy' = 0
      PROVE  EveryMonitorHasCustodian'
  <2>1. EveryMonitorHasCustodian /\ NothingFailed
    BY <1>1, StepKeepsAnswers DEF FaultFree
  <2>2. ASSUME NEW d \in DisplayIds, Orphaned(d)'
        PROVE  FALSE
    <3>1. ~Orphaned(d)
      BY <2>1, CustodiansAreAttendants
    <3>2. PICK th \in Workers : OrphanedBy(th, d)
      BY <2>2, <3>1, OrphanStep
    <3>3. th \in Threads /\ {"departStale", "clearPending"} \subseteq CallSites
      BY DEF Threads, CallSites, DepartSites
    <3> QED
      BY <2>1, <3>2, <3>3 DEF OrphanedBy, NothingFailed
  <2>3. \A d \in DisplayIds : ~Orphaned(d)'
    BY <2>2
  <2> QED
    BY <2>3 DEF EveryMonitorHasCustodian, Orphaned, Attended
<1> QED
  BY <1>1, StepKeepsAnswers DEF FaultFree

\* A backend that answers every call leaves no monitor behind, however the creates,
\* departures and expiries of the displays overlap.
THEOREM EveryMonitorAnsweredFor == Spec => [](failures = 0 /\ busy = 0 => EveryMonitorHasCustodian)
<1>1. Init => FaultFree
  <2> SUFFICES ASSUME Init PROVE FaultFree
    OBVIOUS
  <2>1. /\ monitors = [d \in DisplayIds |-> 0] /\ threads = [th \in Threads |-> Idle]
        /\ failures = 0 /\ busy = 0
    BY DEF Init
  <2> QED
    BY <2>1 DEF FaultFree, NothingFailed, EveryMonitorHasCustodian, Idle
<1>2. IndInv /\ Custody /\ StoreTheory!IndInv /\ FaultFree /\ [Next]_vars => FaultFree'
  BY StoreTypes, StepKeepsFaultFree
<1>3. FaultFree => (failures = 0 /\ busy = 0 => EveryMonitorHasCustodian)
  BY DEF FaultFree
<1> QED
  BY <1>1, <1>2, <1>3, ControllerInvariant, CustodyKept, StoreInvariantKept, PTL DEF Spec
=============================================================================
