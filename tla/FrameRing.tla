------------------------------- MODULE FrameRing -------------------------------
(***************************************************************************)
(* FrameRingServer and FrameRingLifetime (src/driver/frame_ring_server.cpp *)
(* and frame_ring_lifetime.cpp): which client's frame ring the producer of *)
(* a display may publish to.                                               *)
(*                                                                         *)
(* Everything here runs under the controller lock of the device, so a      *)
(* request, a wake-up of the reaper and a snapshot are one step each; the  *)
(* store changes between them.  Requests carry the clock reading they came *)
(* with.  The server keeps an entry per display that remembers the newest  *)
(* cookie of its client, also when the ring is gone (a tombstone); the     *)
(* lifetime keeps the registered rings, each with a publication gate that  *)
(* the snapshots of the producers share.                                   *)
(*                                                                         *)
(* RegisterFailedKeepingRing, ClearErasingTombstone and ReapEntriesOnly    *)
(* are faulty variants of the definition that follows each of them; no     *)
(* specification uses them.                                                *)
(***************************************************************************)
EXTENDS Integers, FiniteSets

CONSTANTS
    DisplayIds, LeaseIds, Capabilities, Edids, RetainedEdid, EphemeralEdid,
    MaxPermanent, MaxTemporary, MaxIndex, DefaultTimeout, MinTimeout, MaxTimeout,
    RequestedTimeouts, NoDisplay, NoLease, NoCapability, NoConnector,
    MaxGeneration, MaxEphemeral, MaxTime, MaxClockLag,
    Peers,              \* client processes
    MaxCookie,          \* bound on client_cookie
    MaxRing,            \* largest ring generation: 2^64 - 1
    NoEntry, NoRing

VARIABLES
    displays, leases, reservations, quarantined, nextGeneration, nextEphemeral, now,
    entries,            \* entries_ of the server
    rings,              \* rings_ of the lifetime
    nextRing,           \* next_ring_generation_
    enabled,            \* ring generations whose publication gate is open
    bound,              \* history: who registered or cancelled which cookie for
                        \* a display since it joined its present lease
    forgotten           \* history: the clock reading of the reap that dropped the
                        \* entry which remembered them, 0 while there was none

Store == INSTANCE LeaseStore WITH now <- now

storeVars == <<displays, leases, reservations, quarantined, nextGeneration, nextEphemeral, now>>
ringVars == <<entries, rings, nextRing, enabled>>
vars == <<storeVars, ringVars, bound, forgotten>>

\* What the store asks of its constants.
ASSUME StoreAssumption ==
    /\ Store!SizesAssumption /\ Store!TimeoutsAssumption
    /\ Store!IdentityAssumption /\ Store!NullsAssumption

ASSUME BoundsAssumption == MaxCookie \in Nat \ {0} /\ MaxRing \in Nat \ {0}

Cookies == 1..MaxCookie

\* Whose a ring is: FrameRingOwner without the display id.
Owner == [lease : LeaseIds, generation : 1..MaxGeneration, owner : Capabilities]

Request(d, o, p, c) ==
    [display |-> d, lease |-> o.lease, generation |-> o.generation, owner |-> o.owner,
     peer |-> p, cookie |-> c]

Requests == {Request(d, o, p, c) : d \in DisplayIds, o \in Owner, p \in Peers, c \in Cookies}

Entry(r, g) ==
    [peer |-> r.peer, lease |-> r.lease, generation |-> r.generation, owner |-> r.owner,
     cookie |-> r.cookie, ring |-> g]

Ring(r, g) == [lease |-> r.lease, generation |-> r.generation, owner |-> r.owner, ring |-> g]

\* The entry of a request without a ring has ring 0, a registered ring is never 0.
EntryRecord ==
    [peer : Peers, lease : LeaseIds, generation : 1..MaxGeneration, owner : Capabilities,
     cookie : Cookies, ring : 0..MaxRing]
RingRecord ==
    [lease : LeaseIds, generation : 1..MaxGeneration, owner : Capabilities, ring : 1..MaxRing]

ASSUME NullsAssumption == NoEntry \notin EntryRecord /\ NoRing \notin RingRecord

\* FrameRingLifetime::authorized, of anything that names a lease, a display
\* generation and an owner.
Authorized(d, o, t) ==
    /\ Store!AuthorizesOwner(o.lease, d, o.owner, t)
    /\ displays[d].generation = o.generation

-----------------------------------------------------------------------------
(* The registered rings.                                                   *)

\* retire_ring, on a table of rings.
Retire(R, d, generation, g) ==
    IF R[d] # NoRing /\ R[d].generation = generation /\ R[d].ring = g
    THEN [R EXCEPT ![d] = NoRing] ELSE R

\* retire_unavailable, on a table of rings.
RetireUnavailable(R, t) ==
    [d \in DisplayIds |-> IF R[d] # NoRing /\ ~Authorized(d, R[d], t) THEN NoRing ELSE R[d]]

NumbersOf(R) == {R[d].ring : d \in {e \in DisplayIds : R[e] # NoRing}}

\* The rings that leave the table have their publication revoked.
ReplaceRings(R) ==
    /\ rings' = R
    /\ enabled' = enabled \ (NumbersOf(rings) \ NumbersOf(R))

-----------------------------------------------------------------------------
(* FrameRingServer::reap, which also opens every request.                  *)

\* An authorized entry asks for a snapshot of its ring.
Publishable(d, t) ==
    /\ rings[d] # NoRing
    /\ rings[d].generation = entries[d].generation
    /\ Authorized(d, rings[d], t)
    /\ rings[d].ring \in enabled
    /\ rings[d].ring = entries[d].ring

EntriesAfterReap(t) ==
    [d \in DisplayIds |->
        IF entries[d] = NoEntry \/ ~Authorized(d, entries[d], t) THEN NoEntry
        ELSE IF entries[d].ring # 0 /\ ~Publishable(d, t) THEN [entries[d] EXCEPT !.ring = 0]
        ELSE entries[d]]

\* Which rings go: those of the erased entries, and a ring whose owner a
\* snapshot finds unauthorized.
RingsAfterReap(t) ==
    [d \in DisplayIds |->
        IF /\ entries[d] # NoEntry /\ rings[d] # NoRing
           /\ rings[d].generation = entries[d].generation
           /\ \/ ~Authorized(d, entries[d], t) /\ rings[d].ring = entries[d].ring
              \/ /\ Authorized(d, entries[d], t) /\ entries[d].ring # 0
                 /\ ~Authorized(d, rings[d], t)
        THEN NoRing ELSE rings[d]]

-----------------------------------------------------------------------------
(* Requests.                                                               *)

\* History of a request or a wake-up of the reaper with clock reading t: the
\* displays whose cookies nothing remembers any more.
ForgottenAfterReap(t) ==
    [d \in DisplayIds |->
        IF bound[d] # {} /\ entries[d] # NoEntry /\ EntriesAfterReap(t)[d] = NoEntry
        THEN t ELSE forgotten[d]]

OnlyReaps(t) == forgotten' = ForgottenAfterReap(t) /\ UNCHANGED bound

\* History of a request that uses its cookie up.  It is late if it read the clock
\* before the reap that dropped the entry did: the history then starts with it.
Late(d, t) == t < forgotten[d]

Bind(r, t) ==
    LET d == r.display
    IN  /\ bound' = [bound EXCEPT ![d] = (IF Late(d, t) THEN {} ELSE @) \cup {<<r.peer, r.cookie>>}]
        /\ forgotten' = IF Late(d, t) THEN [ForgottenAfterReap(t) EXCEPT ![d] = 0]
                        ELSE ForgottenAfterReap(t)

\* Nothing but the reap: another client's entry, or a cookie that was used
\* (the same request again gets the same answer).
RegisterStale(r, t) ==
    LET e == EntriesAfterReap(t)[r.display]
    IN  /\ Authorized(r.display, r, t)
        /\ e # NoEntry
        /\ e.peer # r.peer \/ r.cookie <= e.cookie
        /\ entries' = EntriesAfterReap(t)
        /\ ReplaceRings(RingsAfterReap(t))
        /\ OnlyReaps(t)
        /\ UNCHANGED <<storeVars, nextRing>>

NewerCookie(r, t) ==
    LET e == EntriesAfterReap(t)[r.display]
    IN  /\ Authorized(r.display, r, t)
        /\ e # NoEntry => e.peer = r.peer /\ r.cookie > e.cookie

\* The import worked and there is a ring generation left.
Register(r, t) ==
    LET d == r.display
        R == RetireUnavailable(RingsAfterReap(t), t)
    IN  /\ NewerCookie(r, t)
        /\ nextRing # 0
        /\ entries' = [EntriesAfterReap(t) EXCEPT ![d] = Entry(r, nextRing)]
        /\ rings' = [R EXCEPT ![d] = Ring(r, nextRing)]
        /\ enabled' = (enabled \ (NumbersOf(rings) \ NumbersOf([R EXCEPT ![d] = NoRing]))) \cup {nextRing}
        /\ nextRing' = (nextRing + 1) % (MaxRing + 1)
        /\ Bind(r, t)
        /\ UNCHANGED storeVars

RegisterFailedKeepingRing(r, t) ==
    /\ NewerCookie(r, t)
    /\ entries' = [EntriesAfterReap(t) EXCEPT ![r.display] = Entry(r, 0)]
    /\ ReplaceRings(RingsAfterReap(t))
    /\ Bind(r, t)
    /\ UNCHANGED <<storeVars, nextRing>>

\* The import failed, or the ring generations are used up: the cookie is used
\* up as well, and the ring it was to replace is retired.
RegisterFailed(r, t) ==
    LET d == r.display
        e == EntriesAfterReap(t)[d]
        R == RingsAfterReap(t)
    IN  /\ NewerCookie(r, t)
        /\ entries' = [EntriesAfterReap(t) EXCEPT ![d] = Entry(r, 0)]
        /\ ReplaceRings(IF e = NoEntry THEN R ELSE Retire(R, d, e.generation, e.ring))
        /\ Bind(r, t)
        /\ UNCHANGED <<storeVars, nextRing>>

\* g = 0 cancels a registration that was not acknowledged; it may come first.
ClearAccepted(r, g, t) ==
    LET e == EntriesAfterReap(t)[r.display]
    IN  /\ Authorized(r.display, r, t)
        /\ IF e = NoEntry THEN g = 0
           ELSE /\ e.peer = r.peer /\ e.owner = r.owner /\ e.lease = r.lease
                /\ e.generation = r.generation
                /\ IF g = 0 THEN r.cookie >= e.cookie ELSE r.cookie = e.cookie /\ g = e.ring

\* Nothing but the reap.
ClearRefused(r, g, t) ==
    /\ Authorized(r.display, r, t)
    /\ ~ClearAccepted(r, g, t)
    /\ entries' = EntriesAfterReap(t)
    /\ ReplaceRings(RingsAfterReap(t))
    /\ OnlyReaps(t)
    /\ UNCHANGED <<storeVars, nextRing>>

ClearErasingTombstone(r, g, t) ==
    LET d == r.display
        e == EntriesAfterReap(t)[d]
        R == RingsAfterReap(t)
    IN  /\ ClearAccepted(r, g, t)
        /\ entries' = [EntriesAfterReap(t) EXCEPT ![d] = NoEntry]
        /\ ReplaceRings(IF e = NoEntry THEN R ELSE Retire(R, d, e.generation, e.ring))
        /\ Bind(r, t)
        /\ UNCHANGED <<storeVars, nextRing>>

Clear(r, g, t) ==
    LET d == r.display
        e == EntriesAfterReap(t)[d]
        R == RingsAfterReap(t)
    IN  /\ ClearAccepted(r, g, t)
        /\ entries' = [EntriesAfterReap(t) EXCEPT ![d] =
               IF e = NoEntry THEN Entry(r, 0) ELSE [e EXCEPT !.cookie = r.cookie, !.ring = 0]]
        /\ ReplaceRings(IF e = NoEntry THEN R ELSE Retire(R, d, e.generation, e.ring))
        /\ Bind(r, t)
        /\ UNCHANGED <<storeVars, nextRing>>

-----------------------------------------------------------------------------
(* The reaper, the producers and the shutdown.                             *)

ReapEntriesOnly(t) ==
    /\ entries' = EntriesAfterReap(t)
    /\ OnlyReaps(t)
    /\ UNCHANGED <<storeVars, rings, enabled, nextRing>>

\* The reaper reads the clock again for retire_unavailable.
Reap(t) ==
    /\ entries' = EntriesAfterReap(t)
    /\ ReplaceRings(RetireUnavailable(RingsAfterReap(t), now))
    /\ OnlyReaps(t)
    /\ UNCHANGED <<storeVars, nextRing>>

\* A producer of generation g asks for the ring of its display; an owner that
\* is no longer authorized loses it.
Snapshot(d, g) ==
    /\ rings[d] # NoRing /\ rings[d].generation = g
    /\ ~Authorized(d, rings[d], now)
    /\ ReplaceRings([rings EXCEPT ![d] = NoRing])
    /\ UNCHANGED <<storeVars, entries, nextRing, bound, forgotten>>

\* A producer closes the gate of its ring: the mode changed or a frame failed.
ProducerRetires(g) ==
    /\ g \in enabled
    /\ enabled' = enabled \ {g}
    /\ UNCHANGED <<storeVars, entries, rings, nextRing, bound, forgotten>>

Reset ==
    /\ entries' = [d \in DisplayIds |-> IF entries[d] = NoEntry THEN NoEntry ELSE [entries[d] EXCEPT !.ring = 0]]
    /\ ReplaceRings([d \in DisplayIds |-> NoRing])
    /\ UNCHANGED <<storeVars, nextRing, bound, forgotten>>

\* The history of d goes on over a step of the store: d stays with its lease, and
\* the lease, had it run out when the entry was dropped, is not brought back.  Only
\* a feed that is late in the sense of Late can bring it back.
KeepsHistory(d) ==
    /\ Store!StaysRecord(d) /\ displays'[d].lease = displays[d].lease
    /\ displays[d].expires <= forgotten[d] => displays'[d].expires <= forgotten[d]

\* What the controller does to the store in between.
StoreStep ==
    /\ \/ Store!Tick
       \/ Store!Create
       \/ Store!Reclaim
       \/ Store!Remove
       \/ Store!MarkPending
       \/ Store!Feed
    /\ bound' = [d \in DisplayIds |-> IF KeepsHistory(d) THEN bound[d] ELSE {}]
    /\ forgotten' = [d \in DisplayIds |-> IF KeepsHistory(d) THEN forgotten[d] ELSE 0]
    /\ UNCHANGED ringVars

-----------------------------------------------------------------------------

Init ==
    /\ Store!Init
    /\ entries = [d \in DisplayIds |-> NoEntry]
    /\ rings = [d \in DisplayIds |-> NoRing]
    /\ nextRing = 1
    /\ enabled = {}
    /\ bound = [d \in DisplayIds |-> {}]
    /\ forgotten = [d \in DisplayIds |-> 0]

Reaper == \E t \in Store!RequestTimes : Reap(t)

Next ==
    \/ StoreStep
    \/ \E r \in Requests, t \in Store!RequestTimes :
           \/ RegisterStale(r, t)
           \/ Register(r, t)
           \/ RegisterFailed(r, t)
           \/ \E g \in 0..MaxRing : Clear(r, g, t)
           \/ \E g \in 0..MaxRing : ClearRefused(r, g, t)
    \/ Reaper
    \/ \E d \in DisplayIds, g \in 1..MaxGeneration : Snapshot(d, g)
    \/ \E g \in enabled : ProducerRetires(g)
    \/ Reset

Spec == Init /\ [][Next]_vars

\* The reaper thread wakes every second for as long as the driver runs.
FairSpec == Spec /\ WF_vars(Reaper)

-----------------------------------------------------------------------------
(* Properties.                                                             *)

\* A ring that can still be published to is registered for its display, and
\* the server's entry for the display names it, so that its client can clear
\* it: no gate outlives its registration, no registration its entry.
OpenRingsAccountedFor ==
    \A g \in enabled : \E d \in DisplayIds :
        /\ rings[d] # NoRing /\ rings[d].ring = g
        /\ entries[d] # NoEntry /\ entries[d].ring = g
        /\ entries[d].lease = rings[d].lease /\ entries[d].owner = rings[d].owner
        /\ entries[d].generation = rings[d].generation

\* "A late duplicate can never resurrect" a ring (frame_ring_server.cpp 44-45): for
\* as long as a display stays with its lease, each ring that is registered belongs
\* to the one process that came first and has a cookie newer than all it registered
\* or cancelled.  The one exception is the code's: requests read the clock before
\* they wait for the lock, and a reap drops an entry whose lease has run out at its
\* own reading (137).  A registration with an older reading, or one after a feed
\* with an older reading has brought the lease back, meets no entry; what came
\* before it is fenced no more, what comes after it is.
LateDuplicatesFenced ==
    [][\A d \in DisplayIds :
         rings'[d] # NoRing /\ (rings[d] = NoRing \/ rings'[d].ring # rings[d].ring) =>
             \/ \A b \in bound[d] : b[1] = entries'[d].peer /\ b[2] < entries'[d].cookie
             \/ forgotten[d] # 0 /\ forgotten'[d] = 0]_vars

\* A ring whose owner lost the display is retired, even if no producer asks.
LostOwnersRetired ==
    \A d \in DisplayIds :
        rings[d] # NoRing /\ ~Authorized(d, rings[d], now) ~>
            rings[d] = NoRing \/ Authorized(d, rings[d], now)
=============================================================================
