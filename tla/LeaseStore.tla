------------------------------ MODULE LeaseStore ------------------------------
(***************************************************************************)
(* DisplayStore (src/driver/lease_store.cpp): the in-memory table of the   *)
(* temporary displays, the leases that keep them alive, the connector      *)
(* reservations and the connectors quarantined until the driver restarts.  *)
(*                                                                         *)
(* A std::map is a total function whose absent entries hold a null value.  *)
(* Sizes, names and modes of a display are left out: no decision of the    *)
(* store reads them.  timeout_ms is left out of the records as well; what  *)
(* the store decides on is expires_at.                                     *)
(*                                                                         *)
(* Every operation is an action with its request as parameter.  It is      *)
(* enabled when the code would accept the request; RefuseCreate is the one *)
(* refusal that changes state.  DriverController drives these actions from *)
(* its threads; Next lets a single caller issue any of them.               *)
(*                                                                         *)
(* A definition whose name adds a fault to that of the definition after it *)
(* (AbandonKeepingReservation, FeedLeaseRevivingPending, ...) is a faulty  *)
(* variant of that one, which a property must tell apart; no specification *)
(* uses it.                                                                *)
(***************************************************************************)
EXTENDS Integers, FiniteSets, FiniteSetsExt

CONSTANTS
    DisplayIds,         \* the display ids clients use
    LeaseIds,           \* the lease ids clients use
    Capabilities,       \* owner capabilities
    Edids,              \* EDID identities: product code and serial number
    RetainedEdid,       \* the identity computed from a display id
    EphemeralEdid,      \* the identity computed from an ephemeral counter value
    MaxPermanent,       \* max_permanent_displays_
    MaxTemporary,       \* max_temporary_displays_
    MaxIndex,           \* std::numeric_limits<std::uint32_t>::max()
    DefaultTimeout,     \* kDefaultLeaseTimeoutMs
    MinTimeout,         \* kMinLeaseTimeoutMs
    MaxTimeout,         \* kMaxLeaseTimeoutMs
    RequestedTimeouts,  \* the requested_timeout_ms values clients send
    NoDisplay, NoLease, NoCapability, NoConnector,
    MaxGeneration,      \* bound on next_temporary_display_generation_
    MaxEphemeral,       \* bound on next_ephemeral_identity_
    MaxTime,            \* bound on the clock
    MaxClockLag         \* how old the request's clock reading may be

VARIABLES
    displays,           \* displays_by_id_
    leases,             \* leases_by_id_
    reservations,       \* connector_reservations_by_display_id_
    quarantined,        \* quarantined_connectors_
    nextGeneration,     \* next_temporary_display_generation_
    nextEphemeral,      \* next_ephemeral_identity_
    now                 \* the clock the callers read

storeVars == <<displays, leases, reservations, quarantined, nextGeneration, nextEphemeral>>
vars == <<displays, leases, reservations, quarantined, nextGeneration, nextEphemeral, now>>

ASSUME SizesAssumption ==
    /\ MaxPermanent \in Nat /\ MaxTemporary \in Nat /\ MaxIndex \in Nat
    /\ MaxPermanent <= MaxIndex
    /\ MaxGeneration \in Nat /\ MaxEphemeral \in Nat
    /\ MaxTime \in Nat /\ MaxClockLag \in Nat

ASSUME TimeoutsAssumption ==
    /\ MinTimeout \in Nat \ {0} /\ MaxTimeout \in Nat
    /\ MinTimeout <= DefaultTimeout /\ DefaultTimeout <= MaxTimeout
    /\ DefaultTimeout \in Nat
    /\ RequestedTimeouts \subseteq Nat

ASSUME IdentityAssumption ==
    /\ RetainedEdid \in [DisplayIds -> Edids]
    /\ EphemeralEdid \in [1..MaxEphemeral -> Edids]

-----------------------------------------------------------------------------
(* Connectors.  Temporary connectors follow the permanent ones; the upper  *)
(* end saturates at the largest index.                                     *)

ConnectorLimit ==
    IF MaxTemporary > MaxIndex - MaxPermanent THEN MaxIndex ELSE MaxPermanent + MaxTemporary

TemporaryConnectors == MaxPermanent .. (ConnectorLimit - 1)

DisplayRecord ==
    [lease : LeaseIds, connector : TemporaryConnectors, expires : Nat, retain : BOOLEAN,
     edid : Edids, generation : Nat, pending : BOOLEAN]

LeaseRecord == [expires : Nat, owner : Capabilities \cup {NoCapability}]

ASSUME NullsAssumption ==
    /\ NoDisplay \notin DisplayRecord
    /\ NoLease \notin LeaseRecord
    /\ NoCapability \notin Capabilities
    /\ NoConnector \notin TemporaryConnectors

CreateRequests ==
    [display : DisplayIds, lease : LeaseIds, owner : Capabilities \cup {NoCapability},
     ephemeral : BOOLEAN, timeout : RequestedTimeouts]

ReclaimRequests ==
    [display : DisplayIds, newLease : LeaseIds, owner : Capabilities, timeout : RequestedTimeouts]

\* normalize_timeout_ms: zero asks for the default, the rest is clamped.
NormalizeTimeout(requested) ==
    IF requested = 0 THEN DefaultTimeout
    ELSE IF requested < MinTimeout THEN MinTimeout
    ELSE IF requested > MaxTimeout THEN MaxTimeout
    ELSE requested

-----------------------------------------------------------------------------
(* Queries over the current tables.                                        *)

LiveDisplays == {d \in DisplayIds : displays[d] # NoDisplay}
DisplaysOf(l) == {d \in LiveDisplays : displays[d].lease = l}
Carries(l, d) == d \in DisplaysOf(l)
HasPendingDeparture(l) == \E d \in DisplaysOf(l) : displays[d].pending
HasExpiredPendingDeparture(l, t) ==
    \E d \in DisplaysOf(l) : displays[d].pending /\ displays[d].expires <= t

ActiveConnectors == {displays[d].connector : d \in LiveDisplays}
ActiveEdids == {displays[d].edid : d \in LiveDisplays}
FreeConnectors == TemporaryConnectors \ (ActiveConnectors \cup quarantined)

\* A retained display ignores its own reservation, an ephemeral one does not.
UnclaimedConnectors(d, retain) ==
    {c \in FreeConnectors : \A e \in DisplayIds : reservations[e] = c => (retain /\ e = d)}

HasUsableReservationShortRange(d) ==
    reservations[d] \in (TemporaryConnectors \ ActiveConnectors) \ {ConnectorLimit - 1}

HasUsableReservation(d) == reservations[d] \in TemporaryConnectors \ ActiveConnectors

\* connector_index_for_display: the index it returns ...
ConnectorFor(d, retain) ==
    IF retain /\ HasUsableReservation(d) THEN reservations[d]
    ELSE IF UnclaimedConnectors(d, retain) # {} THEN Min(UnclaimedConnectors(d, retain))
    ELSE IF FreeConnectors # {} THEN Min(FreeConnectors)
    ELSE ConnectorLimit

\* remove_connector_reservation
WithoutOthersOn(c, d) ==
    [e \in DisplayIds |-> IF e # d /\ reservations[e] = c THEN NoConnector ELSE reservations[e]]

\* ... and what it does to the reservations on the way: only the last search evicts.
ReservationsAfterSearch(d, retain) ==
    IF (retain /\ HasUsableReservation(d)) \/ UnclaimedConnectors(d, retain) # {} \/ FreeConnectors = {}
    THEN reservations
    ELSE WithoutOthersOn(ConnectorFor(d, retain), d)

EphemeralCandidatesUnchecked == nextEphemeral..MaxEphemeral

\* The ephemeral counter skips the values whose identity is active.
EphemeralCandidates == {k \in nextEphemeral..MaxEphemeral : EphemeralEdid[k] \notin ActiveEdids}

-----------------------------------------------------------------------------
(* Operations.                                                             *)

LeaseRefusesCreate(r, t) ==
    /\ leases[r.lease] # NoLease
    /\ \/ leases[r.lease].expires <= t
       \/ HasPendingDeparture(r.lease)
       \/ /\ NoCapability \notin {r.owner, leases[r.lease].owner}
          /\ leases[r.lease].owner # r.owner

CreateErrorWithoutConnectorLimit(r, t) ==
    IF r.display \in LiveDisplays THEN "DisplayAlreadyExists"
    ELSE IF Cardinality(LiveDisplays) >= MaxTemporary THEN "TemporaryDisplayLimitReached"
    ELSE IF LeaseRefusesCreate(r, t) THEN "LeaseNotFound"
    ELSE IF ~r.ephemeral /\ RetainedEdid[r.display] \in ActiveEdids THEN "DuplicateDisplayIdentity"
    ELSE "None"

\* The early returns of create_temporary_display_impl, in their order.
CreateError(r, t) ==
    IF r.display \in LiveDisplays THEN "DisplayAlreadyExists"
    ELSE IF Cardinality(LiveDisplays) >= MaxTemporary THEN "TemporaryDisplayLimitReached"
    ELSE IF LeaseRefusesCreate(r, t) THEN "LeaseNotFound"
    ELSE IF ConnectorFor(r.display, ~r.ephemeral) \notin TemporaryConnectors
         THEN "TemporaryDisplayLimitReached"
    ELSE IF ~r.ephemeral /\ RetainedEdid[r.display] \in ActiveEdids THEN "DuplicateDisplayIdentity"
    ELSE "None"

\* The new record, with the identity it takes and the lease expiry it joins.
NewRecord(r, t) ==
    [lease      |-> r.lease,
     connector  |-> ConnectorFor(r.display, ~r.ephemeral),
     expires    |-> IF leases[r.lease] = NoLease THEN t + NormalizeTimeout(r.timeout)
                    ELSE leases[r.lease].expires,
     retain     |-> ~r.ephemeral,
     edid       |-> IF r.ephemeral THEN EphemeralEdid[Min(EphemeralCandidates)]
                    ELSE RetainedEdid[r.display],
     generation |-> nextGeneration,
     pending    |-> FALSE]

\* A lease without an owner takes the owner of the display that joins it.
LeaseAfterCreate(r, t) ==
    [expires |-> NewRecord(r, t).expires,
     owner   |-> IF leases[r.lease] = NoLease \/ leases[r.lease].owner = NoCapability
                 THEN r.owner ELSE leases[r.lease].owner]

\* Every record takes the next generation, an ephemeral one the next identity.
AdvanceCounters(r) ==
    /\ nextGeneration' = nextGeneration + 1
    /\ nextEphemeral' = IF r.ephemeral THEN Min(EphemeralCandidates) + 1 ELSE nextEphemeral

CreateTemporaryDisplay(r, t) ==
    LET d == r.display
        c == ConnectorFor(d, ~r.ephemeral)
    IN  /\ CreateError(r, t) = "None"
        /\ nextGeneration <= MaxGeneration
        /\ r.ephemeral => EphemeralCandidates # {}
        /\ displays' = [displays EXCEPT ![d] = NewRecord(r, t)]
        /\ leases' = [leases EXCEPT ![r.lease] = LeaseAfterCreate(r, t)]
        /\ reservations' = IF r.ephemeral THEN ReservationsAfterSearch(d, FALSE)
                           ELSE [WithoutOthersOn(c, d) EXCEPT ![d] = c]
        /\ AdvanceCounters(r)
        /\ UNCHANGED quarantined

\* The identity is checked after the connector search has evicted.
RefuseCreate(r, t) ==
    /\ CreateError(r, t) = "DuplicateDisplayIdentity"
    /\ reservations' = ReservationsAfterSearch(r.display, TRUE)
    /\ UNCHANGED <<displays, leases, quarantined, nextGeneration, nextEphemeral>>

ReclaimAcceptedIntoLiveLease(r, t) ==
    LET old == displays[r.display].lease
    IN  /\ r.display \in LiveDisplays
        /\ leases[old].expires > t
        /\ ~HasPendingDeparture(old)
        /\ leases[old].owner = r.owner
        /\ r.newLease # old

ReclaimAccepted(r, t) ==
    LET d == r.display
        old == displays[d].lease
    IN  /\ d \in LiveDisplays
        /\ leases[old] # NoLease
        /\ leases[old].expires > t
        /\ ~HasPendingDeparture(old)
        /\ leases[old].owner = r.owner
        /\ r.newLease # old
        /\ leases[r.newLease] = NoLease

\* reclaim_temporary_display: rotate every display of the lease to a new lease.
ReclaimTemporaryDisplay(r, t) ==
    LET old == displays[r.display].lease
        expiry == t + NormalizeTimeout(r.timeout)
    IN  /\ ReclaimAccepted(r, t)
        /\ displays' = [d \in DisplayIds |->
               IF d \in DisplaysOf(old)
               THEN [displays[d] EXCEPT !.lease = r.newLease, !.expires = expiry]
               ELSE displays[d]]
        /\ leases' = [leases EXCEPT ![old] = NoLease,
                                    ![r.newLease] = [expires |-> expiry, owner |-> r.owner]]
        /\ UNCHANGED <<reservations, quarantined, nextGeneration, nextEphemeral>>

EraseDisplaysKeepingLeases(D) ==
    /\ displays' = [d \in DisplayIds |-> IF d \in D THEN NoDisplay ELSE displays[d]]
    /\ leases' = leases

\* Erase the records of D, and every lease that thereby loses its last display.
EraseDisplays(D) ==
    /\ displays' = [d \in DisplayIds |-> IF d \in D THEN NoDisplay ELSE displays[d]]
    /\ leases' = [l \in LeaseIds |->
           IF D \cap DisplaysOf(l) # {} /\ DisplaysOf(l) \subseteq D THEN NoLease ELSE leases[l]]

\* release says whether the connector reservation goes with the record.
RemoveTemporaryDisplay(l, d, release) ==
    /\ Carries(l, d)
    /\ EraseDisplays({d})
    /\ reservations' = IF release THEN [reservations EXCEPT ![d] = NoConnector] ELSE reservations
    /\ UNCHANGED <<quarantined, nextGeneration, nextEphemeral>>

MarkPendingDeparture(l, d) ==
    /\ Carries(l, d)
    /\ displays' = [displays EXCEPT ![d].pending = TRUE]
    /\ UNCHANGED <<leases, reservations, quarantined, nextGeneration, nextEphemeral>>

AbandonAccepted(l, d, generation, owner) ==
    /\ Carries(l, d)
    /\ displays[d].generation = generation
    /\ displays[d].pending
    /\ leases[l] # NoLease
    /\ leases[l].owner = owner

AbandonKeepingReservation(l, d, generation, owner) ==
    /\ AbandonAccepted(l, d, generation, owner)
    /\ quarantined' = quarantined \cup {displays[d].connector}
    /\ EraseDisplays({d})
    /\ UNCHANGED <<reservations, nextGeneration, nextEphemeral>>

\* abandon_pending_temporary_display
AbandonPendingDisplay(l, d, generation, owner) ==
    /\ AbandonAccepted(l, d, generation, owner)
    /\ quarantined' = quarantined \cup {displays[d].connector}
    /\ reservations' = [reservations EXCEPT ![d] = NoConnector]
    /\ EraseDisplays({d})
    /\ UNCHANGED <<nextGeneration, nextEphemeral>>

FeedAccepted(l, t) ==
    /\ leases[l] # NoLease
    /\ leases[l].expires > t
    /\ ~HasExpiredPendingDeparture(l, t)

FeedLeaseRevivingPending(l, timeout, t) ==
    /\ FeedAccepted(l, t)
    /\ leases' = [leases EXCEPT ![l].expires = t + NormalizeTimeout(timeout)]
    /\ displays' = [d \in DisplayIds |->
           IF Carries(l, d) THEN [displays[d] EXCEPT !.expires = t + NormalizeTimeout(timeout), !.pending = FALSE]
           ELSE displays[d]]
    /\ UNCHANGED <<reservations, quarantined, nextGeneration, nextEphemeral>>

\* A pending display keeps the expiry it had: the feed does not prolong it.
FeedLease(l, timeout, t) ==
    LET expiry == t + NormalizeTimeout(timeout)
    IN  /\ FeedAccepted(l, t)
        /\ leases' = [leases EXCEPT ![l].expires = expiry]
        /\ displays' = [d \in DisplayIds |->
               IF Carries(l, d) /\ ~displays[d].pending
               THEN [displays[d] EXCEPT !.expires = expiry] ELSE displays[d]]
        /\ UNCHANGED <<reservations, quarantined, nextGeneration, nextEphemeral>>

ReleaseLease(l) ==
    /\ leases[l] # NoLease
    /\ displays' = [d \in DisplayIds |-> IF Carries(l, d) THEN NoDisplay ELSE displays[d]]
    /\ leases' = [leases EXCEPT ![l] = NoLease]
    /\ UNCHANGED <<reservations, quarantined, nextGeneration, nextEphemeral>>

ExpiredDisplays(t) == {d \in LiveDisplays : displays[d].expires <= t}

ReapExpired(t) ==
    /\ EraseDisplays(ExpiredDisplays(t))
    /\ UNCHANGED <<reservations, quarantined, nextGeneration, nextEphemeral>>

\* authorize_temporary_display_owner: may this owner export the pixels of d?
AuthorizesOwner(l, d, owner, t) ==
    /\ Carries(l, d)
    /\ leases[l] # NoLease
    /\ ~displays[d].pending
    /\ leases[l].expires > t
    /\ displays[d].expires > t
    /\ leases[l].owner = owner

-----------------------------------------------------------------------------
(* The store on its own: one caller after the other, each request carrying *)
(* a clock reading taken shortly before it is served.                      *)

RequestTimes == {t \in 0..now : now - t <= MaxClockLag}

\* The reservations come from the profiles kept in the registry; the parser
\* checks their range, not that two displays do not name one connector.
Init ==
    /\ displays = [d \in DisplayIds |-> NoDisplay]
    /\ leases = [l \in LeaseIds |-> NoLease]
    /\ reservations \in [DisplayIds -> TemporaryConnectors \cup {NoConnector}]
    /\ quarantined = {}
    /\ nextGeneration = 1
    /\ nextEphemeral = 1
    /\ now = 0

Tick == now < MaxTime /\ now' = now + 1 /\ UNCHANGED storeVars

Create == \E r \in CreateRequests, t \in RequestTimes : CreateTemporaryDisplay(r, t) /\ UNCHANGED now
Refuse == \E r \in CreateRequests, t \in RequestTimes : RefuseCreate(r, t) /\ UNCHANGED now
Reclaim == \E r \in ReclaimRequests, t \in RequestTimes : ReclaimTemporaryDisplay(r, t) /\ UNCHANGED now
Remove == \E l \in LeaseIds, d \in DisplayIds, release \in BOOLEAN :
              RemoveTemporaryDisplay(l, d, release) /\ UNCHANGED now
MarkPending == \E l \in LeaseIds, d \in DisplayIds : MarkPendingDeparture(l, d) /\ UNCHANGED now
Abandon == \E l \in LeaseIds, d \in DisplayIds, g \in 1..MaxGeneration, owner \in Capabilities :
               AbandonPendingDisplay(l, d, g, owner) /\ UNCHANGED now
Feed == \E l \in LeaseIds, timeout \in RequestedTimeouts, t \in RequestTimes :
            FeedLease(l, timeout, t) /\ UNCHANGED now
Release == \E l \in LeaseIds : ReleaseLease(l) /\ UNCHANGED now
Reap == \E t \in RequestTimes : ReapExpired(t) /\ UNCHANGED now

Next ==
    \/ Tick
    \/ Create
    \/ Refuse
    \/ Reclaim
    \/ Remove
    \/ MarkPending
    \/ Abandon
    \/ Feed
    \/ Release
    \/ Reap

Spec == Init /\ [][Next]_vars

-----------------------------------------------------------------------------
(* Safety.                                                                 *)

TypeOK ==
    /\ displays \in [DisplayIds -> DisplayRecord \cup {NoDisplay}]
    /\ leases \in [LeaseIds -> LeaseRecord \cup {NoLease}]
    /\ reservations \in [DisplayIds -> TemporaryConnectors \cup {NoConnector}]
    /\ quarantined \subseteq TemporaryConnectors
    /\ nextGeneration \in Nat /\ nextEphemeral \in Nat \ {0} /\ now \in Nat

\* Two live displays never share a connector, and none sits on a connector
\* that an abandoned departure has left wedged.
ConnectorsExclusive ==
    /\ \A d, e \in LiveDisplays : displays[d].connector = displays[e].connector => d = e
    /\ \A d \in LiveDisplays : displays[d].connector \notin quarantined

\* Nobody else holds a reservation on the connector of a live display, and no
\* reservation names a quarantined connector: connector_index_for_display
\* returns a reserved connector without looking at the quarantine.
ConnectorsUncontested ==
    /\ \A d \in LiveDisplays, e \in DisplayIds :
           reservations[e] = displays[d].connector => e = d
    /\ \A e \in DisplayIds : reservations[e] \notin quarantined

\* Nobody is on a connector of another display, now or when a dormant one returns.
ConnectorsSafe == ConnectorsExclusive /\ ConnectorsUncontested

\* No two live displays show Windows the same EDID product and serial number,
\* although display ids and the ephemeral counter both fold into them.
IdentitiesExclusive ==
    \A d, e \in LiveDisplays : displays[d].edid = displays[e].edid => d = e

\* Generations are unique among the records and below the next one.
GenerationsFresh ==
    /\ \A d \in LiveDisplays : displays[d].generation < nextGeneration
    /\ \A d, e \in LiveDisplays : displays[d].generation = displays[e].generation => d = e

\* What tells displays apart does: the identity for Windows, the generation for
\* the threads that hold copies of a record.
IdentitiesUnique == IdentitiesExclusive /\ GenerationsFresh

\* A lease exists exactly as long as a display depends on it: neither a lease
\* nobody can observe nor a display nobody can feed.
LeasesCovered ==
    \A l \in LeaseIds : leases[l] # NoLease <=> DisplaysOf(l) # {}

\* The displays of a lease expire with it, except those being departed.
ExpiryShared ==
    \A d \in LiveDisplays :
        ~displays[d].pending => displays[d].expires = leases[displays[d].lease].expires

\* Leases and the displays they keep alive come, expire and go together.
LeasesMatch == LeasesCovered /\ ExpiryShared

-----------------------------------------------------------------------------
(* What one step may do.                                                   *)

\* The record of d before and after the step is the same one.
StaysRecord(d) ==
    /\ d \in LiveDisplays /\ d \in LiveDisplays'
    /\ displays[d].generation = displays'[d].generation

\* The step keeps what a generation stands for.
FencesLifetime ==
    \A d \in DisplayIds :
        /\ StaysRecord(d) =>
               /\ displays'[d].connector = displays[d].connector
               /\ displays'[d].edid = displays[d].edid
               /\ displays[d].pending => displays'[d].pending
        /\ d \in LiveDisplays' /\ ~StaysRecord(d) =>
               displays'[d].generation >= nextGeneration

\* A generation names one lifetime of a display: within it the connector and
\* the identity never change and a pending departure is never forgotten; a
\* record with another generation is newer than all there ever were.
GenerationFencesLifetime == [][FencesLifetime]_vars

\* The step gives a retained display that comes back its own connector.
HonoursReservations ==
    \A d \in DisplayIds :
        /\ d \notin LiveDisplays /\ reservations[d] # NoConnector
        /\ d \in LiveDisplays' /\ displays'[d].retain
        => displays'[d].connector = reservations[d]

\* A retained display that comes back gets the connector reserved for it.
ReservationHonoured == [][HonoursReservations]_vars

\* Nobody takes over a lease that has an owner.
KeepsOwners ==
    \A l \in LeaseIds :
        leases[l] # NoLease /\ leases[l].owner # NoCapability /\ leases'[l] # NoLease =>
            leases'[l].owner = leases[l].owner

\* A display changes its lease only by a reclaim: the old lease is gone, its
\* displays moved together, and the new lease is fresh and has the same owner.
FencesOldLeases ==
    \A d \in DisplayIds :
        StaysRecord(d) /\ displays'[d].lease # displays[d].lease =>
            LET old == displays[d].lease
                new == displays'[d].lease
            IN  /\ leases'[old] = NoLease
                /\ leases[new] = NoLease
                /\ leases'[new].owner = leases[old].owner
                /\ \A e \in DisplaysOf(old) : e \in LiveDisplays' /\ displays'[e].lease = new

\* A display whose lease ran out before the oldest clock reading still in use
\* is never brought back to life.
RevivesNobody ==
    \A d \in LiveDisplays :
        StaysRecord(d) /\ displays[d].expires + MaxClockLag <= now =>
            displays'[d].expires = displays[d].expires

\* A dormant display loses its reservation only when every free connector is
\* reserved, or to a display that had a claim on the same connector.
EvictsLast ==
    \A d \in DisplayIds \ LiveDisplays :
        reservations[d] # NoConnector /\ reservations'[d] # reservations[d] =>
            \/ FreeConnectors \subseteq {reservations[e] : e \in DisplayIds}
            \/ \E e \in DisplayIds \ {d} : reservations[e] = reservations[d]

\* Nothing that somebody holds is taken over: not a lease by another owner, not
\* a display by the lease it was reclaimed from or after its expiry, not a
\* reservation while there is another connector.
ClaimsRespected == [][KeepsOwners /\ FencesOldLeases /\ RevivesNobody /\ EvictsLast]_vars
=============================================================================
