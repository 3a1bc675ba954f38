-------------------------- MODULE LeaseStore_proofs --------------------------
(***************************************************************************)
(* The safety of the display store for every number of displays, leases,   *)
(* owners and connectors.  The store's invariants are inductive only       *)
(* together: a reserved connector is handed out without a look at the      *)
(* quarantine, which is right because no reservation names a quarantined   *)
(* connector, which in turn needs that nobody else holds a reservation on  *)
(* the connector of a live display.                                        *)
(***************************************************************************)
EXTENDS LeaseStore, TLAPS, WellFoundedInduction

IndInv ==
    /\ TypeOK
    /\ ConnectorsExclusive
    /\ ConnectorsUncontested
    /\ IdentitiesExclusive
    /\ LeasesCovered
    /\ ExpiryShared
    /\ GenerationsFresh

-----------------------------------------------------------------------------
(* Least elements: the first connector and the first ephemeral identity.   *)

NatLess == {ss \in Nat \X Nat : ss[1] < ss[2]}

\* The order in which the connector search walks the indices is well-founded.
LEMMA NatLessWellFounded == IsWellFoundedOn(NatLess, Nat)
<1>1. OpToRel(<, Nat) = NatLess
  BY Zenon DEF OpToRel, NatLess
<1> QED
  BY <1>1, NatLessThanWellFounded, Zenon

\* A search over indices that has a match returns one of the matches.
LEMMA MinIsElement ==
  ASSUME NEW S, S \subseteq Nat, S # {}
  PROVE  Min(S) \in S
<1>1. PICK x \in S : \A y \in S : ~(<<y, x>> \in NatLess)
  BY WFMin, NatLessWellFounded
<1>2. ASSUME NEW y \in S
      PROVE  x <= y
  <2>1. <<y, x>> \in Nat \X Nat
    OBVIOUS
  <2>2. ~(<<y, x>>[1] < <<y, x>>[2])
    BY <1>1, <2>1, Zenon DEF NatLess
  <2> QED
    BY <2>2
<1> QED
  BY <1>2 DEF Min

-----------------------------------------------------------------------------
(* What the operators of the store return.                                 *)

\* Temporary connector indices are natural numbers below the limit.
LEMMA ConnectorRange ==
  /\ ConnectorLimit \in Nat
  /\ TemporaryConnectors \subseteq Nat
  /\ ConnectorLimit \notin TemporaryConnectors
<1>1. ConnectorLimit \in Nat
  BY SizesAssumption DEF ConnectorLimit
<1> QED
  BY <1>1, SizesAssumption DEF TemporaryConnectors

\* A normalized timeout is a positive duration.
LEMMA TimeoutIsNat ==
  ASSUME NEW x \in RequestedTimeouts
  PROVE  NormalizeTimeout(x) \in Nat
BY TimeoutsAssumption DEF NormalizeTimeout

\* connector_index_for_display returns a connector nobody uses, or the limit.
LEMMA ConnectorForIsFree ==
  ASSUME TypeOK, ConnectorsUncontested,
         NEW d \in DisplayIds, NEW retain \in BOOLEAN,
         ConnectorFor(d, retain) \in TemporaryConnectors
  PROVE  ConnectorFor(d, retain) \in FreeConnectors
<1>1. CASE retain /\ HasUsableReservation(d)
  BY <1>1 DEF ConnectorFor, HasUsableReservation, FreeConnectors, ConnectorsUncontested
<1>2. CASE ~(retain /\ HasUsableReservation(d)) /\ UnclaimedConnectors(d, retain) # {}
  <2>1. UnclaimedConnectors(d, retain) \subseteq FreeConnectors
    BY DEF UnclaimedConnectors
  <2>2. UnclaimedConnectors(d, retain) \subseteq Nat
    BY <2>1, ConnectorRange DEF FreeConnectors
  <2>3. Min(UnclaimedConnectors(d, retain)) \in UnclaimedConnectors(d, retain)
    BY <1>2, <2>2, MinIsElement
  <2> QED
    BY <1>2, <2>1, <2>3 DEF ConnectorFor
<1>3. CASE /\ ~(retain /\ HasUsableReservation(d))
           /\ UnclaimedConnectors(d, retain) = {}
           /\ FreeConnectors # {}
  <2>1. FreeConnectors \subseteq Nat
    BY ConnectorRange DEF FreeConnectors
  <2>2. Min(FreeConnectors) \in FreeConnectors
    BY <1>3, <2>1, MinIsElement
  <2> QED
    BY <1>3, <2>2 DEF ConnectorFor
<1>4. CASE /\ ~(retain /\ HasUsableReservation(d))
           /\ UnclaimedConnectors(d, retain) = {}
           /\ FreeConnectors = {}
  BY <1>4, ConnectorRange DEF ConnectorFor
<1> QED
  BY <1>1, <1>2, <1>3, <1>4

\* The search only ever drops reservations.
LEMMA SearchDropsReservations ==
  ASSUME TypeOK, NEW d \in DisplayIds, NEW retain \in BOOLEAN
  PROVE  /\ ReservationsAfterSearch(d, retain)
              \in [DisplayIds -> TemporaryConnectors \cup {NoConnector}]
         /\ \A e \in DisplayIds :
              ReservationsAfterSearch(d, retain)[e] \in {reservations[e], NoConnector}
BY DEF TypeOK, ReservationsAfterSearch, WithoutOthersOn

\* After the search nobody but the display itself holds the connector found.
LEMMA SearchClearsConnector ==
  ASSUME TypeOK, NEW d \in DisplayIds,
         ConnectorFor(d, FALSE) \in TemporaryConnectors,
         NEW e \in DisplayIds, e # d
  PROVE  ReservationsAfterSearch(d, FALSE)[e] # ConnectorFor(d, FALSE)
<1>1. CASE UnclaimedConnectors(d, FALSE) # {}
  <2>1. UnclaimedConnectors(d, FALSE) \subseteq Nat
    BY ConnectorRange DEF UnclaimedConnectors, FreeConnectors
  <2>2. ConnectorFor(d, FALSE) \in UnclaimedConnectors(d, FALSE)
    BY <1>1, <2>1, MinIsElement DEF ConnectorFor
  <2>3. ReservationsAfterSearch(d, FALSE) = reservations
    BY <1>1 DEF ReservationsAfterSearch
  <2> QED
    BY <2>2, <2>3 DEF UnclaimedConnectors
<1>2. CASE UnclaimedConnectors(d, FALSE) = {} /\ FreeConnectors # {}
  <2>1. ReservationsAfterSearch(d, FALSE) = WithoutOthersOn(ConnectorFor(d, FALSE), d)
    BY <1>2 DEF ReservationsAfterSearch
  <2> QED
    BY <2>1, NullsAssumption DEF WithoutOthersOn
<1>3. CASE UnclaimedConnectors(d, FALSE) = {} /\ FreeConnectors = {}
  BY <1>3, ConnectorRange DEF ConnectorFor
<1> QED
  BY <1>1, <1>2, <1>3

-----------------------------------------------------------------------------
(* One action at a time: each preserves the invariant.                     *)

\* What create_temporary_display needs to know of the record it stores.
LEMMA NewRecordIsSound ==
  ASSUME IndInv, NEW r \in CreateRequests, NEW t \in Nat,
         CreateError(r, t) = "None",
         r.ephemeral => EphemeralCandidates # {}
  PROVE  /\ NewRecord(r, t) \in DisplayRecord
         /\ NewRecord(r, t).connector \in FreeConnectors
         /\ NewRecord(r, t).edid \notin ActiveEdids
         /\ NewRecord(r, t).lease = r.lease
         /\ NewRecord(r, t).generation = nextGeneration
         /\ r.display \in DisplayIds /\ r.display \notin LiveDisplays
         /\ leases[r.lease] # NoLease => NewRecord(r, t).expires = leases[r.lease].expires
<1> USE DEF IndInv
<1>1. /\ r.display \in DisplayIds /\ r.lease \in LeaseIds /\ r.ephemeral \in BOOLEAN
      /\ r.timeout \in RequestedTimeouts
  BY DEF CreateRequests
<1>2. /\ r.display \notin LiveDisplays
      /\ ConnectorFor(r.display, ~r.ephemeral) \in TemporaryConnectors
      /\ ~r.ephemeral => RetainedEdid[r.display] \notin ActiveEdids
  BY DEF CreateError
<1>3. ConnectorFor(r.display, ~r.ephemeral) \in FreeConnectors
  BY <1>1, <1>2, ConnectorForIsFree
<1>4. CASE r.ephemeral
  <2>1. EphemeralCandidates \subseteq 1..MaxEphemeral \cap Nat
    BY SizesAssumption DEF EphemeralCandidates, TypeOK
  <2>2. Min(EphemeralCandidates) \in EphemeralCandidates
    BY <1>4, <2>1, MinIsElement
  <2>3. /\ EphemeralEdid[Min(EphemeralCandidates)] \in Edids
        /\ EphemeralEdid[Min(EphemeralCandidates)] \notin ActiveEdids
    BY <2>1, <2>2, IdentityAssumption DEF EphemeralCandidates
  <2> QED
    BY <1>1, <1>2, <1>3, <1>4, <2>3, TimeoutIsNat
    DEF NewRecord, DisplayRecord, FreeConnectors, TypeOK, LeaseRecord
<1>5. CASE ~r.ephemeral
  BY <1>1, <1>2, <1>3, <1>5, TimeoutIsNat, IdentityAssumption
  DEF NewRecord, DisplayRecord, FreeConnectors, TypeOK, LeaseRecord
<1> QED
  BY <1>1, <1>4, <1>5

\* create_temporary_display
LEMMA CreatePreserves ==
  ASSUME IndInv, NEW r \in CreateRequests, NEW t \in Nat,
         CreateTemporaryDisplay(r, t), now' = now
  PROVE  IndInv'
<1> DEFINE d == r.display
           n == NewRecord(r, t)
<1> USE DEF IndInv
<1>1. CreateError(r, t) = "None" /\ (r.ephemeral => EphemeralCandidates # {})
  BY DEF CreateTemporaryDisplay
<1>2. /\ n \in DisplayRecord /\ n.connector \in FreeConnectors /\ n.edid \notin ActiveEdids
      /\ n.lease = r.lease /\ n.generation = nextGeneration
      /\ d \in DisplayIds /\ d \notin LiveDisplays
      /\ leases[r.lease] # NoLease => n.expires = leases[r.lease].expires
  BY <1>1, NewRecordIsSound
<1>3. n.connector = ConnectorFor(d, ~r.ephemeral) /\ r.ephemeral \in BOOLEAN
  BY DEF NewRecord, CreateRequests
<1>4. /\ displays' = [displays EXCEPT ![d] = n]
      /\ leases' = [leases EXCEPT ![r.lease] = LeaseAfterCreate(r, t)]
      /\ quarantined' = quarantined
  BY DEF CreateTemporaryDisplay
<1>5. LeaseAfterCreate(r, t) \in LeaseRecord /\ LeaseAfterCreate(r, t).expires = n.expires
  <2>1. r.owner \in Capabilities \cup {NoCapability} /\ r.lease \in LeaseIds
    BY DEF CreateRequests
  <2> QED
    BY <1>2, <2>1 DEF LeaseAfterCreate, LeaseRecord, DisplayRecord, TypeOK
<1>6. n # NoDisplay /\ LeaseAfterCreate(r, t) # NoLease /\ r.lease \in LeaseIds
  BY <1>2, <1>5, NullsAssumption DEF CreateRequests
<1>7. /\ LiveDisplays' = LiveDisplays \cup {d}
      /\ displays'[d] = n
      /\ \A e \in LiveDisplays : displays'[e] = displays[e]
  BY <1>2, <1>4, <1>6 DEF LiveDisplays, TypeOK
<1>8. /\ reservations' \in [DisplayIds -> TemporaryConnectors \cup {NoConnector}]
      /\ \A e \in DisplayIds \ {d} : reservations'[e] # n.connector
      /\ \A e \in DisplayIds : reservations'[e] \in {reservations[e], NoConnector, n.connector}
  <2>1. n.connector \in TemporaryConnectors
    BY <1>2 DEF FreeConnectors
  <2>2. CASE r.ephemeral
    <3>1. reservations' = ReservationsAfterSearch(d, FALSE)
      BY <2>2 DEF CreateTemporaryDisplay
    <3> QED
      BY <1>2, <1>3, <2>1, <2>2, <3>1, SearchDropsReservations, SearchClearsConnector
  <2>3. CASE ~r.ephemeral
    <3>1. reservations' = [WithoutOthersOn(n.connector, d) EXCEPT ![d] = n.connector]
      BY <1>3, <2>3 DEF CreateTemporaryDisplay
    <3> QED
      BY <1>2, <2>1, <3>1, NullsAssumption DEF WithoutOthersOn, TypeOK
  <2> QED
    BY <1>3, <2>2, <2>3
<1>9. TypeOK'
  <2>1. nextGeneration' \in Nat /\ nextEphemeral' \in Nat \ {0}
    <3>1. EphemeralCandidates \subseteq Nat
      BY SizesAssumption DEF EphemeralCandidates, TypeOK
    <3>2. r.ephemeral => Min(EphemeralCandidates) \in Nat
      BY <1>1, <3>1, MinIsElement
    <3> QED
      BY <3>2 DEF CreateTemporaryDisplay, AdvanceCounters, TypeOK
  <2> QED
    BY <1>2, <1>4, <1>5, <1>8, <2>1 DEF TypeOK
<1>10. ConnectorsExclusive'
  BY <1>2, <1>4, <1>7 DEF ConnectorsExclusive, FreeConnectors, ActiveConnectors
<1>11. ConnectorsUncontested'
  <2>1. \A e \in LiveDisplays : displays[e].connector # n.connector
    BY <1>2 DEF FreeConnectors, ActiveConnectors
  <2>2. n.connector \notin quarantined
    BY <1>2 DEF FreeConnectors
  <2>3. \A e \in LiveDisplays : displays[e].connector \in TemporaryConnectors
    BY DEF TypeOK, LiveDisplays, DisplayRecord
  <2>4. NoConnector \notin TemporaryConnectors /\ NoConnector \notin quarantined
    BY NullsAssumption DEF TypeOK
  <2> QED
    BY <1>4, <1>7, <1>8, <2>1, <2>2, <2>3, <2>4 DEF ConnectorsUncontested
<1>12. IdentitiesExclusive'
  BY <1>2, <1>7 DEF IdentitiesExclusive, ActiveEdids
<1>13. LeasesCovered'
  <2>1. \A l \in LeaseIds :
           DisplaysOf(l)' = IF l = r.lease THEN DisplaysOf(l) \cup {d} ELSE DisplaysOf(l)
    BY <1>2, <1>7 DEF DisplaysOf
  <2> QED
    BY <1>4, <1>6, <2>1 DEF LeasesCovered, TypeOK
<1>14. ExpiryShared'
  <2>1. \A e \in LiveDisplays : displays[e].lease \in LeaseIds
    BY DEF TypeOK, LiveDisplays, DisplayRecord
  <2>2. \A e \in LiveDisplays : leases[displays[e].lease] # NoLease
    BY <2>1 DEF LeasesCovered, DisplaysOf
  <2>3. leases'[r.lease].expires = n.expires
    BY <1>4, <1>5, <1>6 DEF TypeOK
  <2>4. \A l \in LeaseIds : leases[l] # NoLease => leases'[l].expires = leases[l].expires
    BY <1>2, <1>4, <2>3 DEF TypeOK
  <2> QED
    BY <1>2, <1>7, <2>1, <2>2, <2>3, <2>4 DEF ExpiryShared
<1>15. GenerationsFresh'
  <2>1. \A e \in LiveDisplays : displays[e].generation \in Nat
    BY DEF TypeOK, LiveDisplays, DisplayRecord
  <2>2. nextGeneration' = nextGeneration + 1
    BY DEF CreateTemporaryDisplay, AdvanceCounters
  <2> QED
    BY <1>2, <1>7, <2>1, <2>2 DEF GenerationsFresh, TypeOK
<1> QED
  BY <1>9, <1>10, <1>11, <1>12, <1>13, <1>14, <1>15

\* Erasing records keeps what only relates live displays, whatever happens to
\* the reservations of the erased ones.
LEMMA ErasePreserves ==
  ASSUME IndInv, NEW D, D \subseteq LiveDisplays, EraseDisplays(D),
         reservations' \in [DisplayIds -> TemporaryConnectors \cup {NoConnector}],
         \A e \in DisplayIds : reservations'[e] \in {reservations[e], NoConnector},
         quarantined' \subseteq TemporaryConnectors,
         \A c \in quarantined' \ quarantined : \A e \in DisplayIds : reservations'[e] # c,
         \A c \in quarantined' \ quarantined : \E e \in D : displays[e].connector = c,
         nextGeneration' = nextGeneration, nextEphemeral' = nextEphemeral, now' = now
  PROVE  IndInv'
<1> USE DEF IndInv
<1>1. /\ LiveDisplays' = LiveDisplays \ D
      /\ \A e \in LiveDisplays' : displays'[e] = displays[e]
      /\ \A l \in LeaseIds : DisplaysOf(l)' = DisplaysOf(l) \ D
  BY DEF EraseDisplays, LiveDisplays, DisplaysOf, TypeOK
<1>2. \A e \in LiveDisplays : displays[e] \in DisplayRecord
  BY DEF LiveDisplays, TypeOK
<1>3. TypeOK'
  BY DEF TypeOK, EraseDisplays
<1>4. ConnectorsExclusive'
  BY <1>1 DEF ConnectorsExclusive
<1>5. ConnectorsUncontested'
  BY <1>1, <1>2, NullsAssumption DEF ConnectorsUncontested, DisplayRecord, TypeOK
<1>6. IdentitiesExclusive'
  BY <1>1 DEF IdentitiesExclusive
<1>7. LeasesCovered'
  <2>1. \A l \in LeaseIds :
           leases'[l] = IF D \cap DisplaysOf(l) # {} /\ DisplaysOf(l) \subseteq D
                        THEN NoLease ELSE leases[l]
    BY DEF EraseDisplays
  <2>2. \A l \in LeaseIds : leases[l] # NoLease <=> DisplaysOf(l) # {}
    BY DEF LeasesCovered
  <2> QED
    BY <1>1, <2>1, <2>2 DEF LeasesCovered
<1>8. ExpiryShared'
  <2>1. ASSUME NEW e \in LiveDisplays'
        PROVE  leases'[displays[e].lease] = leases[displays[e].lease]
    BY <1>1, <1>2 DEF EraseDisplays, DisplaysOf, DisplayRecord
  <2> QED
    BY <1>1, <2>1 DEF ExpiryShared
<1>9. GenerationsFresh'
  BY <1>1 DEF GenerationsFresh
<1> QED
  BY <1>3, <1>4, <1>5, <1>6, <1>7, <1>8, <1>9

\* remove_temporary_display
LEMMA RemovePreserves ==
  ASSUME IndInv, NEW l \in LeaseIds, NEW d \in DisplayIds, NEW release \in BOOLEAN,
         RemoveTemporaryDisplay(l, d, release), now' = now
  PROVE  IndInv'
<1>1. {d} \subseteq LiveDisplays
  BY DEF RemoveTemporaryDisplay, Carries, DisplaysOf
<1> QED
  BY <1>1, ErasePreserves DEF RemoveTemporaryDisplay, IndInv, TypeOK

\* abandon_pending_temporary_display
LEMMA AbandonPreserves ==
  ASSUME IndInv, NEW l \in LeaseIds, NEW d \in DisplayIds, NEW g, NEW owner,
         AbandonPendingDisplay(l, d, g, owner), now' = now
  PROVE  IndInv'
<1> USE DEF IndInv
<1>1. d \in LiveDisplays /\ displays[d] \in DisplayRecord
  BY DEF AbandonPendingDisplay, AbandonAccepted, Carries, DisplaysOf, LiveDisplays, TypeOK
<1>2. displays[d].connector \in TemporaryConnectors
  BY <1>1 DEF DisplayRecord
<1>3. /\ quarantined' = quarantined \cup {displays[d].connector}
      /\ reservations' = [reservations EXCEPT ![d] = NoConnector]
      /\ EraseDisplays({d})
      /\ nextGeneration' = nextGeneration /\ nextEphemeral' = nextEphemeral
  BY DEF AbandonPendingDisplay
<1>4. \A e \in DisplayIds : reservations'[e] # displays[d].connector
  BY <1>1, <1>2, <1>3, NullsAssumption DEF ConnectorsUncontested, TypeOK
<1> QED
  BY <1>1, <1>2, <1>3, <1>4, ErasePreserves DEF TypeOK

\* reap_expired
LEMMA ReapPreserves ==
  ASSUME IndInv, NEW t \in Nat, ReapExpired(t), now' = now
  PROVE  IndInv'
<1>1. ExpiredDisplays(t) \subseteq LiveDisplays
  BY DEF ExpiredDisplays
<1> QED
  BY <1>1, ErasePreserves DEF ReapExpired, IndInv, TypeOK

\* release_lease
LEMMA ReleasePreserves ==
  ASSUME IndInv, NEW l \in LeaseIds, ReleaseLease(l), now' = now
  PROVE  IndInv'
<1> USE DEF IndInv
<1>1. DisplaysOf(l) \subseteq LiveDisplays /\ DisplaysOf(l) # {}
  BY DEF ReleaseLease, LeasesCovered, DisplaysOf
<1>2. \A k \in LeaseIds \ {l} : DisplaysOf(l) \cap DisplaysOf(k) = {}
  BY DEF DisplaysOf
<1>3. EraseDisplays(DisplaysOf(l))
  <2>1. \A k \in LeaseIds : leases'[k] = IF k = l THEN NoLease ELSE leases[k]
    BY DEF ReleaseLease, TypeOK
  <2>2. \A k \in LeaseIds :
           (DisplaysOf(l) \cap DisplaysOf(k) # {} /\ DisplaysOf(k) \subseteq DisplaysOf(l)) <=> k = l
    BY <1>1, <1>2
  <2>3. leases' = [k \in LeaseIds |-> leases'[k]]
    BY DEF ReleaseLease, TypeOK
  <2>4. leases' = [k \in LeaseIds |->
           IF DisplaysOf(l) \cap DisplaysOf(k) # {} /\ DisplaysOf(k) \subseteq DisplaysOf(l)
           THEN NoLease ELSE leases[k]]
    BY <2>1, <2>2, <2>3
  <2>5. displays' = [d \in DisplayIds |-> IF d \in DisplaysOf(l) THEN NoDisplay ELSE displays[d]]
    BY DEF ReleaseLease, Carries
  <2> QED
    BY <2>4, <2>5 DEF EraseDisplays
<1> QED
  BY <1>1, <1>3, ErasePreserves DEF ReleaseLease, TypeOK

\* The early return of create_temporary_display that has already evicted.
LEMMA RefusePreserves ==
  ASSUME IndInv, NEW r \in CreateRequests, NEW t, RefuseCreate(r, t), now' = now
  PROVE  IndInv'
<1> USE DEF IndInv
<1>1. r.display \in DisplayIds
  BY DEF CreateRequests
<1>2. /\ reservations' \in [DisplayIds -> TemporaryConnectors \cup {NoConnector}]
      /\ \A e \in DisplayIds : reservations'[e] \in {reservations[e], NoConnector}
  BY <1>1, SearchDropsReservations DEF RefuseCreate
<1>3. EraseDisplays({})
  BY DEF RefuseCreate, EraseDisplays, TypeOK
<1> QED
  BY <1>2, <1>3, ErasePreserves DEF RefuseCreate, TypeOK

\* Changes to lease, expiry and pending mark of records that stay live.
LEMMA RebindPreserves ==
  ASSUME IndInv, TypeOK',
         LiveDisplays' = LiveDisplays,
         \A d \in LiveDisplays : /\ displays'[d].connector = displays[d].connector
                                 /\ displays'[d].edid = displays[d].edid
                                 /\ displays'[d].generation = displays[d].generation,
         LeasesCovered', ExpiryShared',
         reservations' = reservations, quarantined' = quarantined,
         nextGeneration' = nextGeneration
  PROVE  IndInv'
<1> USE DEF IndInv
<1>1. ConnectorsExclusive'
  BY DEF ConnectorsExclusive
<1>2. ConnectorsUncontested'
  BY DEF ConnectorsUncontested
<1>3. IdentitiesExclusive'
  BY DEF IdentitiesExclusive
<1>4. GenerationsFresh'
  BY DEF GenerationsFresh
<1> QED
  BY <1>1, <1>2, <1>3, <1>4

\* reclaim_temporary_display
LEMMA ReclaimPreserves ==
  ASSUME IndInv, NEW r \in ReclaimRequests, NEW t \in Nat,
         ReclaimTemporaryDisplay(r, t), now' = now
  PROVE  IndInv'
<1> DEFINE old == displays[r.display].lease
           new == r.newLease
           expiry == t + NormalizeTimeout(r.timeout)
<1> USE DEF IndInv
<1>1. /\ new \in LeaseIds /\ r.owner \in Capabilities /\ r.timeout \in RequestedTimeouts
      /\ expiry \in Nat
  BY TimeoutIsNat DEF ReclaimRequests
<1>2. r.display \in LiveDisplays /\ leases[old] # NoLease /\ leases[new] = NoLease /\ new # old
  BY DEF ReclaimTemporaryDisplay, ReclaimAccepted
<1>3. \A d \in LiveDisplays : displays[d] \in DisplayRecord /\ displays[d] # NoDisplay
  BY DEF LiveDisplays, TypeOK
<1>4. old \in LeaseIds
  BY <1>2, <1>3 DEF DisplayRecord
<1>5. /\ displays' = [d \in DisplayIds |->
             IF d \in DisplaysOf(old)
             THEN [displays[d] EXCEPT !.lease = new, !.expires = expiry] ELSE displays[d]]
      /\ leases' = [leases EXCEPT ![old] = NoLease,
                                  ![new] = [expires |-> expiry, owner |-> r.owner]]
      /\ reservations' = reservations /\ quarantined' = quarantined
      /\ nextGeneration' = nextGeneration /\ nextEphemeral' = nextEphemeral
  BY DEF ReclaimTemporaryDisplay
<1>6. \A d \in DisplaysOf(old) : d \in DisplayIds /\ d \in LiveDisplays
  BY DEF DisplaysOf, LiveDisplays
<1>7. \A d \in DisplaysOf(old) :
         [displays[d] EXCEPT !.lease = new, !.expires = expiry] \in DisplayRecord
  BY <1>1, <1>3, <1>6 DEF DisplayRecord
<1>8. [expires |-> expiry, owner |-> r.owner] \in LeaseRecord
  BY <1>1 DEF LeaseRecord
<1>9. TypeOK'
  BY <1>5, <1>7, <1>8 DEF TypeOK
<1>10. LiveDisplays' = LiveDisplays
  BY <1>5, <1>6, <1>7, NullsAssumption DEF LiveDisplays
<1>11. \A d \in LiveDisplays :
          /\ displays'[d].connector = displays[d].connector
          /\ displays'[d].edid = displays[d].edid
          /\ displays'[d].generation = displays[d].generation
          /\ displays'[d].lease = IF d \in DisplaysOf(old) THEN new ELSE displays[d].lease
          /\ displays'[d].expires = IF d \in DisplaysOf(old) THEN expiry ELSE displays[d].expires
          /\ displays'[d].pending = displays[d].pending
  BY <1>3, <1>5 DEF LiveDisplays, DisplayRecord
<1>12. /\ leases'[old] = NoLease
       /\ leases'[new] # NoLease /\ leases'[new].expires = expiry
       /\ \A l \in LeaseIds \ {old, new} : leases'[l] = leases[l]
  BY <1>1, <1>2, <1>4, <1>5, <1>8, NullsAssumption DEF TypeOK
<1>13. DisplaysOf(new) = {}
  BY <1>1, <1>2 DEF LeasesCovered
<1>14. LeasesCovered'
  <2>1. \A l \in LeaseIds :
           DisplaysOf(l)' = {d \in LiveDisplays :
                               l = IF d \in DisplaysOf(old) THEN new ELSE displays[d].lease}
    BY <1>10, <1>11 DEF DisplaysOf
  <2>2. \A l \in LeaseIds :
           DisplaysOf(l)' = IF l = old THEN {} ELSE IF l = new THEN DisplaysOf(old)
                            ELSE DisplaysOf(l)
    BY <1>2, <1>13, <2>1 DEF DisplaysOf
  <2>3. r.display \in DisplaysOf(old)
    BY <1>2 DEF DisplaysOf
  <2>4. \A l \in LeaseIds : leases[l] # NoLease <=> DisplaysOf(l) # {}
    BY DEF LeasesCovered
  <2> QED
    BY <1>2, <1>12, <2>2, <2>3, <2>4 DEF LeasesCovered
<1>15. ExpiryShared'
  <2> SUFFICES ASSUME NEW d \in LiveDisplays, ~displays[d].pending
               PROVE  displays'[d].expires = leases'[displays'[d].lease].expires
    BY <1>10, <1>11 DEF ExpiryShared
  <2>1. CASE d \in DisplaysOf(old)
    BY <1>11, <1>12, <2>1
  <2>2. CASE d \notin DisplaysOf(old)
    <3>1. displays[d].lease \in LeaseIds \ {old, new}
      BY <1>3, <1>13, <2>2 DEF DisplaysOf, DisplayRecord
    <3> QED
      BY <1>11, <1>12, <2>2, <3>1 DEF ExpiryShared
  <2> QED
    BY <2>1, <2>2
<1> QED
  BY <1>5, <1>9, <1>10, <1>11, <1>14, <1>15, RebindPreserves

\* mark_temporary_display_departure_pending
LEMMA MarkPendingPreserves ==
  ASSUME IndInv, NEW l \in LeaseIds, NEW d \in DisplayIds,
         MarkPendingDeparture(l, d), now' = now
  PROVE  IndInv'
<1> USE DEF IndInv
<1>1. \A e \in LiveDisplays : displays[e] \in DisplayRecord
  BY DEF LiveDisplays, TypeOK
<1>2. d \in LiveDisplays
  BY DEF MarkPendingDeparture, Carries, DisplaysOf
<1>3. [displays[d] EXCEPT !.pending = TRUE] \in DisplayRecord
  BY <1>1, <1>2 DEF DisplayRecord
<1>4. TypeOK'
  BY <1>3 DEF MarkPendingDeparture, TypeOK
<1>5. LiveDisplays' = LiveDisplays
  BY <1>2, <1>3, NullsAssumption DEF MarkPendingDeparture, LiveDisplays, TypeOK
<1>6. \A e \in LiveDisplays :
         /\ displays'[e].connector = displays[e].connector
         /\ displays'[e].edid = displays[e].edid
         /\ displays'[e].generation = displays[e].generation
         /\ displays'[e].lease = displays[e].lease
         /\ displays'[e].expires = displays[e].expires
         /\ displays[e].pending => displays'[e].pending
  <2>1. displays' = [displays EXCEPT ![d].pending = TRUE]
    BY DEF MarkPendingDeparture
  <2> QED
    BY <1>1, <1>2, <2>1 DEF LiveDisplays, DisplayRecord, TypeOK
<1>7. LeasesCovered'
  BY <1>5, <1>6 DEF LeasesCovered, DisplaysOf, MarkPendingDeparture
<1>8. ExpiryShared'
  BY <1>1, <1>5, <1>6 DEF ExpiryShared, MarkPendingDeparture, DisplayRecord
<1> QED
  BY <1>4, <1>5, <1>6, <1>7, <1>8, RebindPreserves DEF MarkPendingDeparture

\* feed_lease
LEMMA FeedPreserves ==
  ASSUME IndInv, NEW l \in LeaseIds, NEW timeout \in RequestedTimeouts, NEW t \in Nat,
         FeedLease(l, timeout, t), now' = now
  PROVE  IndInv'
<1> DEFINE expiry == t + NormalizeTimeout(timeout)
<1> USE DEF IndInv
<1>1. expiry \in Nat
  BY TimeoutIsNat
<1>2. \A e \in LiveDisplays : displays[e] \in DisplayRecord
  BY DEF LiveDisplays, TypeOK
<1>3. /\ leases' = [leases EXCEPT ![l].expires = expiry]
      /\ displays' = [e \in DisplayIds |->
             IF Carries(l, e) /\ ~displays[e].pending
             THEN [displays[e] EXCEPT !.expires = expiry] ELSE displays[e]]
  BY DEF FeedLease
<1>4. leases[l] # NoLease /\ leases[l] \in LeaseRecord
  BY DEF FeedLease, FeedAccepted, TypeOK
<1>5. \A e \in DisplayIds : Carries(l, e) <=> e \in LiveDisplays /\ displays[e].lease = l
  BY DEF Carries, DisplaysOf
<1>6. \A e \in LiveDisplays : [displays[e] EXCEPT !.expires = expiry] \in DisplayRecord
  BY <1>1, <1>2 DEF DisplayRecord
<1>7. [leases[l] EXCEPT !.expires = expiry] \in LeaseRecord
  BY <1>1, <1>4 DEF LeaseRecord
<1>8. TypeOK'
  BY <1>3, <1>5, <1>6, <1>7 DEF FeedLease, TypeOK
<1>9. LiveDisplays' = LiveDisplays
  BY <1>3, <1>5, <1>6, NullsAssumption DEF LiveDisplays
<1>10. \A e \in LiveDisplays :
         /\ displays'[e].connector = displays[e].connector
         /\ displays'[e].edid = displays[e].edid
         /\ displays'[e].generation = displays[e].generation
         /\ displays'[e].lease = displays[e].lease
         /\ displays'[e].pending = displays[e].pending
         /\ displays'[e].expires = IF displays[e].lease = l /\ ~displays[e].pending
                                   THEN expiry ELSE displays[e].expires
  BY <1>2, <1>3, <1>5 DEF LiveDisplays, DisplayRecord
<1>11. /\ leases'[l] # NoLease /\ leases'[l].expires = expiry
       /\ \A k \in LeaseIds \ {l} : leases'[k] = leases[k]
  BY <1>3, <1>4, <1>7, NullsAssumption DEF TypeOK, LeaseRecord
<1>12. LeasesCovered'
  BY <1>4, <1>9, <1>10, <1>11 DEF LeasesCovered, DisplaysOf
<1>13. ExpiryShared'
  BY <1>2, <1>9, <1>10, <1>11 DEF ExpiryShared, DisplayRecord
<1> QED
  BY <1>8, <1>9, <1>10, <1>12, <1>13, RebindPreserves DEF FeedLease

-----------------------------------------------------------------------------
(* The specification.                                                      *)

\* A fresh store satisfies the invariant whatever profiles it was given.
LEMMA InitEstablishes ==
  ASSUME Init
  PROVE  IndInv
<1>1. LiveDisplays = {} /\ \A l \in LeaseIds : DisplaysOf(l) = {}
  BY DEF Init, LiveDisplays, DisplaysOf
<1>2. TypeOK
  BY DEF Init, TypeOK
<1> QED
  BY <1>1, <1>2 DEF Init, IndInv, ConnectorsExclusive, ConnectorsUncontested,
                    IdentitiesExclusive, LeasesCovered, ExpiryShared, GenerationsFresh

\* The clock readings that requests carry are natural numbers.
LEMMA RequestTimesAreNat == RequestTimes \subseteq Nat
BY DEF RequestTimes

\* Every step of the store preserves the invariant.
LEMMA NextPreserves ==
  ASSUME IndInv, [Next]_vars
  PROVE  IndInv'
<1>1. CASE Tick
  <2>1. now' \in Nat
    BY <1>1 DEF Tick, IndInv, TypeOK
  <2> QED
    BY <1>1, <2>1 DEF Tick, storeVars, IndInv, TypeOK, ConnectorsExclusive,
       ConnectorsUncontested, IdentitiesExclusive, LeasesCovered, ExpiryShared,
       GenerationsFresh, LiveDisplays, DisplaysOf
<1>2. CASE Create
  BY <1>2, CreatePreserves, RequestTimesAreNat DEF Create
<1>3. CASE Refuse
  BY <1>3, RefusePreserves DEF Refuse
<1>4. CASE Reclaim
  BY <1>4, ReclaimPreserves, RequestTimesAreNat DEF Reclaim
<1>5. CASE Remove
  BY <1>5, RemovePreserves DEF Remove
<1>6. CASE MarkPending
  BY <1>6, MarkPendingPreserves DEF MarkPending
<1>7. CASE Abandon
  BY <1>7, AbandonPreserves DEF Abandon
<1>8. CASE Feed
  BY <1>8, FeedPreserves, RequestTimesAreNat DEF Feed
<1>9. CASE Release
  BY <1>9, ReleasePreserves DEF Release
<1>10. CASE Reap
  BY <1>10, ReapPreserves, RequestTimesAreNat DEF Reap
<1>11. CASE UNCHANGED vars
  BY <1>11 DEF vars, IndInv, TypeOK, ConnectorsExclusive,
     ConnectorsUncontested, IdentitiesExclusive, LeasesCovered, ExpiryShared,
     GenerationsFresh, LiveDisplays, DisplaysOf
<1> QED
  BY <1>1, <1>2, <1>3, <1>4, <1>5, <1>6, <1>7, <1>8, <1>9, <1>10, <1>11 DEF Next

\* The invariant of the store.
THEOREM StoreInvariant == Spec => []IndInv
<1>1. Init => IndInv
  BY InitEstablishes
<1>2. IndInv /\ [Next]_vars => IndInv'
  BY NextPreserves
<1> QED
  BY <1>1, <1>2, PTL DEF Spec

\* The tables hold what the source's types say: in particular the connector
\* search never hands out an index outside the temporary range.
THEOREM TypeCorrect == Spec => []TypeOK
<1>1. IndInv => TypeOK
  BY DEF IndInv
<1> QED
  BY <1>1, StoreInvariant, PTL

\* No two live displays share a connector, none is on a wedged one, and no
\* reservation contests one (connector_index_for_display).
THEOREM ConnectorsNeverShared == Spec => []ConnectorsSafe
<1>1. IndInv => ConnectorsSafe
  BY DEF IndInv, ConnectorsSafe
<1> QED
  BY <1>1, StoreInvariant, PTL

\* No two live displays present the same EDID identity or carry the same
\* generation (reserve_temporary_display).
THEOREM IdentitiesNeverShared == Spec => []IdentitiesUnique
<1>1. IndInv => IdentitiesUnique
  BY DEF IndInv, IdentitiesUnique
<1> QED
  BY <1>1, StoreInvariant, PTL

\* Leases and the displays they keep alive come, expire and go together
\* (erase_display, extend of a lease).
THEOREM LeasesMatchDisplays == Spec => []LeasesMatch
<1>1. IndInv => LeasesMatch
  BY DEF IndInv, LeasesMatch
<1> QED
  BY <1>1, StoreInvariant, PTL

-----------------------------------------------------------------------------
(* What one step may do.                                                   *)

KeepsRecord(d) ==
    /\ d \in LiveDisplays
    /\ displays'[d].connector = displays[d].connector
    /\ displays'[d].edid = displays[d].edid
    /\ displays'[d].generation = displays[d].generation
    /\ displays[d].pending => displays'[d].pending

\* Only create_temporary_display begins a lifetime.
LEMMA OnlyCreateBegins ==
  ASSUME IndInv, [Next]_vars, ~Create, NEW d \in DisplayIds, d \in LiveDisplays'
  PROVE  KeepsRecord(d)
<1> USE DEF KeepsRecord
<1>1. d \in LiveDisplays => displays[d] \in DisplayRecord /\ displays[d] # NoDisplay
  BY DEF LiveDisplays, IndInv, TypeOK
<1>2. displays \in [DisplayIds -> DisplayRecord \cup {NoDisplay}] /\ displays'[d] # NoDisplay
  BY DEF IndInv, TypeOK, LiveDisplays
<1>3. CASE UNCHANGED displays
  BY <1>3 DEF LiveDisplays
<1>4. ASSUME NEW D, EraseDisplays(D)
      PROVE  KeepsRecord(d)
  BY <1>2, <1>4 DEF EraseDisplays, LiveDisplays
<1>5. CASE Reclaim
  <2>1. PICK r \in ReclaimRequests, t \in RequestTimes : ReclaimTemporaryDisplay(r, t)
    BY <1>5 DEF Reclaim
  <2> DEFINE moved == [displays[d] EXCEPT !.lease = r.newLease,
                                          !.expires = t + NormalizeTimeout(r.timeout)]
  <2>2. displays'[d] = IF d \in DisplaysOf(displays[r.display].lease) THEN moved ELSE displays[d]
    BY <2>1 DEF ReclaimTemporaryDisplay
  <2>3. d \in LiveDisplays
    BY <1>2, <2>2 DEF DisplaysOf, LiveDisplays
  <2>4. /\ moved.connector = displays[d].connector /\ moved.edid = displays[d].edid
        /\ moved.generation = displays[d].generation /\ moved.pending = displays[d].pending
    BY <1>1, <2>3 DEF DisplayRecord
  <2> QED
    BY <2>2, <2>3, <2>4
<1>6. CASE Remove
  BY <1>4, <1>6 DEF Remove, RemoveTemporaryDisplay
<1>7. CASE MarkPending
  <2>1. PICK l \in LeaseIds, e \in DisplayIds : MarkPendingDeparture(l, e)
    BY <1>7 DEF MarkPending
  <2>2. e \in LiveDisplays
    BY <2>1 DEF MarkPendingDeparture, Carries, DisplaysOf
  <2>3. displays' = [displays EXCEPT ![e].pending = TRUE]
    BY <2>1 DEF MarkPendingDeparture
  <2>4. CASE d = e
    <3>1. displays'[d] = [displays[d] EXCEPT !.pending = TRUE]
      BY <1>2, <2>3, <2>4
    <3> QED
      BY <1>1, <2>2, <2>4, <3>1 DEF DisplayRecord
  <2>5. CASE d # e
    BY <1>2, <2>3, <2>5 DEF LiveDisplays
  <2> QED
    BY <2>4, <2>5
<1>8. CASE Abandon
  BY <1>4, <1>8 DEF Abandon, AbandonPendingDisplay
<1>9. CASE Feed
  <2>1. PICK l \in LeaseIds, timeout \in RequestedTimeouts, t \in RequestTimes :
           FeedLease(l, timeout, t)
    BY <1>9 DEF Feed
  <2>2. displays'[d] = IF Carries(l, d) /\ ~displays[d].pending
                       THEN [displays[d] EXCEPT !.expires = t + NormalizeTimeout(timeout)]
                       ELSE displays[d]
    BY <2>1 DEF FeedLease
  <2> QED
    BY <1>1, <1>2, <2>2 DEF Carries, DisplaysOf, LiveDisplays, DisplayRecord
<1>10. CASE Release
  BY <1>2, <1>10 DEF Release, ReleaseLease, LiveDisplays
<1>11. CASE Reap
  BY <1>4, <1>11 DEF Reap, ReapExpired
<1> QED
  BY <1>3, <1>5, <1>6, <1>7, <1>8, <1>9, <1>10, <1>11
  DEF Next, Tick, Refuse, RefuseCreate, storeVars, vars

\* What create_temporary_display adds, and what it leaves alone.
LEMMA CreateBegins ==
  ASSUME IndInv, NEW r \in CreateRequests, NEW t \in Nat, CreateTemporaryDisplay(r, t)
  PROVE  /\ r.display \in DisplayIds /\ r.display \notin LiveDisplays
         /\ displays'[r.display] = NewRecord(r, t)
         /\ \A d \in DisplayIds \ {r.display} : displays'[d] = displays[d]
<1>1. CreateError(r, t) = "None" /\ (r.ephemeral => EphemeralCandidates # {})
  BY DEF CreateTemporaryDisplay
<1>2. r.display \in DisplayIds /\ r.display \notin LiveDisplays
  BY <1>1, NewRecordIsSound
<1> QED
  BY <1>2 DEF CreateTemporaryDisplay, IndInv, TypeOK

\* A record changes neither its connector nor its identity, and stays pending; one with
\* another generation is newer than all before it.
LEMMA LifetimesFenced ==
  ASSUME IndInv, [Next]_vars
  PROVE  FencesLifetime
<1>1. CASE ~Create
  BY <1>1, OnlyCreateBegins DEF FencesLifetime, KeepsRecord, StaysRecord
<1>2. CASE Create
  <2>1. PICK r \in CreateRequests, t \in RequestTimes : CreateTemporaryDisplay(r, t)
    BY <1>2 DEF Create
  <2>2. t \in Nat
    BY RequestTimesAreNat
  <2>3. /\ r.display \in DisplayIds /\ r.display \notin LiveDisplays
        /\ displays'[r.display] = NewRecord(r, t)
        /\ \A d \in DisplayIds \ {r.display} : displays'[d] = displays[d]
    BY <2>1, <2>2, CreateBegins
  <2>4. NewRecord(r, t).generation = nextGeneration /\ nextGeneration \in Nat
    BY DEF NewRecord, IndInv, TypeOK
  <2> QED
    BY <2>3, <2>4 DEF FencesLifetime, StaysRecord, LiveDisplays
<1> QED
  BY <1>1, <1>2

\* A generation names one lifetime: within it connector and identity are
\* fixed and a pending departure stays pending.
THEOREM GenerationFence == Spec => GenerationFencesLifetime
<1>1. GenerationFencesLifetime <=> [][FencesLifetime]_vars
  BY DEF GenerationFencesLifetime
<1> QED
  BY <1>1, LifetimesFenced, StoreInvariant, PTL DEF Spec

\* A retained display that comes back gets the connector reserved for it:
\* ConnectorsUncontested makes the reservation usable.
THEOREM ReservationsHonoured == Spec => ReservationHonoured
<1>1. ASSUME IndInv, [Next]_vars
      PROVE  [HonoursReservations]_vars
  <2>1. CASE ~Create
    BY <1>1, <2>1, OnlyCreateBegins DEF HonoursReservations, KeepsRecord
  <2>2. CASE Create
    <3>1. PICK r \in CreateRequests, t \in RequestTimes : CreateTemporaryDisplay(r, t)
      BY <2>2 DEF Create
    <3>2. t \in Nat
      BY RequestTimesAreNat
    <3>3. /\ r.display \in DisplayIds /\ r.display \notin LiveDisplays
          /\ displays'[r.display] = NewRecord(r, t)
          /\ \A d \in DisplayIds \ {r.display} : displays'[d] = displays[d]
      BY <1>1, <3>1, <3>2, CreateBegins
    <3>4. ASSUME reservations[r.display] # NoConnector
          PROVE  HasUsableReservation(r.display)
      <4>1. reservations[r.display] \in TemporaryConnectors
        BY <1>1, <3>3, <3>4 DEF IndInv, TypeOK
      <4>2. reservations[r.display] \notin ActiveConnectors
        BY <1>1, <3>3 DEF IndInv, ConnectorsUncontested, ActiveConnectors
      <4> QED
        BY <4>1, <4>2 DEF HasUsableReservation
    <3>5. ASSUME reservations[r.display] # NoConnector, NewRecord(r, t).retain
          PROVE  NewRecord(r, t).connector = reservations[r.display]
      BY <3>4, <3>5 DEF NewRecord, ConnectorFor
    <3> QED
      BY <3>3, <3>5 DEF HonoursReservations, LiveDisplays
  <2> QED
    BY <2>1, <2>2
<1>2. ReservationHonoured <=> [][HonoursReservations]_vars
  BY DEF ReservationHonoured
<1> QED
  BY <1>1, <1>2, StoreInvariant, PTL DEF Spec

-----------------------------------------------------------------------------
(* Whose a lease, a display or a reservation is.                           *)

\* Reclaim: what happens to the lease and to each record.
LEMMA ReclaimMoves ==
  ASSUME IndInv, NEW r \in ReclaimRequests, NEW t \in Nat, ReclaimTemporaryDisplay(r, t)
  PROVE  LET old == displays[r.display].lease
             new == r.newLease
         IN  /\ leases[old].expires > t /\ ~HasPendingDeparture(old)
             /\ leases[old].owner = r.owner
             /\ leases[new] = NoLease /\ leases'[old] = NoLease /\ leases'[new].owner = r.owner
             /\ \A l \in LeaseIds \ {old, new} : leases'[l] = leases[l]
             /\ \A d \in DisplaysOf(old) : d \in LiveDisplays' /\ displays'[d].lease = new
             /\ \A d \in DisplayIds \ DisplaysOf(old) : displays'[d] = displays[d]
<1> DEFINE old == displays[r.display].lease
           new == r.newLease
           expiry == t + NormalizeTimeout(r.timeout)
<1> USE DEF IndInv
<1>1. new \in LeaseIds /\ expiry \in Nat
  BY TimeoutIsNat DEF ReclaimRequests
<1>2. /\ leases[old].expires > t /\ ~HasPendingDeparture(old) /\ leases[old].owner = r.owner
      /\ r.display \in LiveDisplays /\ leases[new] = NoLease /\ new # old
  BY DEF ReclaimTemporaryDisplay, ReclaimAccepted
<1>3. \A d \in LiveDisplays : displays[d] \in DisplayRecord
  BY DEF LiveDisplays, TypeOK
<1>4. old \in LeaseIds
  BY <1>2, <1>3 DEF DisplayRecord
<1>5. /\ displays' = [d \in DisplayIds |->
             IF d \in DisplaysOf(old)
             THEN [displays[d] EXCEPT !.lease = new, !.expires = expiry] ELSE displays[d]]
      /\ leases' = [leases EXCEPT ![old] = NoLease,
                                  ![new] = [expires |-> expiry, owner |-> r.owner]]
  BY DEF ReclaimTemporaryDisplay
<1>6. /\ leases'[old] = NoLease /\ leases'[new].owner = r.owner
      /\ \A l \in LeaseIds \ {old, new} : leases'[l] = leases[l]
  BY <1>1, <1>2, <1>4, <1>5 DEF TypeOK
<1>7. ASSUME NEW d \in DisplaysOf(old)
      PROVE  d \in LiveDisplays' /\ displays'[d].lease = new
  <2> DEFINE x == [displays[d] EXCEPT !.lease = new, !.expires = expiry]
  <2>1. d \in LiveDisplays /\ d \in DisplayIds
    BY DEF DisplaysOf, LiveDisplays
  <2>2. x \in DisplayRecord /\ x.lease = new
    BY <1>1, <1>3, <2>1 DEF DisplayRecord
  <2>3. displays'[d] = x
    BY <1>5, <2>1
  <2> HIDE DEF x
  <2> QED
    BY <2>1, <2>2, <2>3, NullsAssumption DEF LiveDisplays
<1> HIDE DEF old, new, expiry
<1>8. \A d \in DisplayIds \ DisplaysOf(old) : displays'[d] = displays[d]
  BY <1>5
<1> QED
  BY <1>2, <1>6, <1>7, <1>8 DEF old, new

\* Feed: what happens to the lease and to each record.
LEMMA FeedProlongs ==
  ASSUME IndInv, NEW l \in LeaseIds, NEW timeout \in RequestedTimeouts, NEW t \in Nat,
         FeedLease(l, timeout, t)
  PROVE  /\ leases[l].expires > t /\ leases'[l].owner = leases[l].owner
         /\ \A k \in LeaseIds \ {l} : leases'[k] = leases[k]
         /\ \A d \in LiveDisplays :
              /\ displays'[d].lease = displays[d].lease
              /\ displays[d].lease # l \/ displays[d].pending => displays'[d] = displays[d]
<1> USE DEF IndInv
<1>1. leases[l] # NoLease /\ leases[l] \in LeaseRecord /\ leases[l].expires > t
  BY DEF FeedLease, FeedAccepted, TypeOK
<1>2. PICK expiry :
          /\ leases' = [leases EXCEPT ![l].expires = expiry]
          /\ displays' = [e \in DisplayIds |->
                 IF Carries(l, e) /\ ~displays[e].pending
                 THEN [displays[e] EXCEPT !.expires = expiry] ELSE displays[e]]
  BY DEF FeedLease
<1>3. \A e \in LiveDisplays : displays[e] \in DisplayRecord /\ e \in DisplayIds
  BY DEF LiveDisplays, TypeOK
<1>4. \A e \in LiveDisplays : Carries(l, e) <=> displays[e].lease = l
  BY DEF Carries, DisplaysOf
<1>5. leases'[l].owner = leases[l].owner /\ \A k \in LeaseIds \ {l} : leases'[k] = leases[k]
  BY <1>1, <1>2 DEF TypeOK, LeaseRecord
<1>6. \A d \in LiveDisplays : displays'[d].lease = displays[d].lease
  BY <1>2, <1>3 DEF DisplayRecord
<1>7. \A d \in LiveDisplays :
          displays[d].lease # l \/ displays[d].pending => displays'[d] = displays[d]
  BY <1>2, <1>3, <1>4
<1> QED
  BY <1>1, <1>5, <1>6, <1>7

\* An erasure takes leases away and changes none.
LEMMA EraseKeepsClaims ==
  ASSUME IndInv, NEW D, EraseDisplays(D)
  PROVE  /\ \A l \in LeaseIds : leases'[l] \in {leases[l], NoLease}
         /\ \A d \in LiveDisplays' : displays'[d] = displays[d]
BY DEF EraseDisplays, LiveDisplays, IndInv, TypeOK

\* What is the same in a step that neither creates, reclaims nor feeds.
LEMMA OthersKeepClaims ==
  ASSUME IndInv, [Next]_vars, ~Create, ~Reclaim, ~Feed
  PROVE  /\ \A l \in LeaseIds : leases'[l] \in {leases[l], NoLease}
         /\ \A d \in LiveDisplays \cap LiveDisplays' :
              /\ displays'[d].lease = displays[d].lease
              /\ displays'[d].expires = displays[d].expires
<1> DEFINE Kept == /\ \A l \in LeaseIds : leases'[l] \in {leases[l], NoLease}
                   /\ \A d \in LiveDisplays \cap LiveDisplays' :
                        /\ displays'[d].lease = displays[d].lease
                        /\ displays'[d].expires = displays[d].expires
<1>1. CASE UNCHANGED <<displays, leases>>
  BY <1>1
<1>2. ASSUME NEW D, EraseDisplays(D)
      PROVE  Kept
  BY <1>2, EraseKeepsClaims
<1>3. CASE Remove
  BY <1>2, <1>3 DEF Remove, RemoveTemporaryDisplay
<1>4. CASE MarkPending
  <2>1. PICK l \in LeaseIds, e \in DisplayIds : MarkPendingDeparture(l, e)
    BY <1>4 DEF MarkPending
  <2>2. displays' = [displays EXCEPT ![e].pending = TRUE] /\ leases' = leases
    BY <2>1 DEF MarkPendingDeparture
  <2>3. \A d \in LiveDisplays : displays[d] \in DisplayRecord /\ d \in DisplayIds
    BY DEF IndInv, TypeOK, LiveDisplays
  <2>4. \A d \in LiveDisplays :
            displays'[d] = IF d = e THEN [displays[d] EXCEPT !.pending = TRUE] ELSE displays[d]
    BY <2>2, <2>3 DEF IndInv, TypeOK
  <2>5. \A d \in LiveDisplays : /\ displays'[d].lease = displays[d].lease
                                /\ displays'[d].expires = displays[d].expires
    BY <2>3, <2>4 DEF DisplayRecord
  <2> QED
    BY <2>2, <2>5
<1>5. CASE Abandon
  BY <1>2, <1>5 DEF Abandon, AbandonPendingDisplay
<1>6. CASE Release
  BY <1>6 DEF Release, ReleaseLease, LiveDisplays, IndInv, TypeOK
<1>7. CASE Reap
  BY <1>2, <1>7 DEF Reap, ReapExpired
<1> QED
  BY <1>1, <1>3, <1>4, <1>5, <1>6, <1>7 DEF Next, Tick, Refuse, RefuseCreate, storeVars, vars

LEMMA CreateKeepsOwners ==
  ASSUME IndInv, NEW r \in CreateRequests, NEW t \in Nat, CreateTemporaryDisplay(r, t)
  PROVE  KeepsOwners
<1>1. leases' = [leases EXCEPT ![r.lease] = LeaseAfterCreate(r, t)]
  BY DEF CreateTemporaryDisplay
<1>2. leases[r.lease] # NoLease /\ leases[r.lease].owner # NoCapability =>
          LeaseAfterCreate(r, t).owner = leases[r.lease].owner
  BY DEF LeaseAfterCreate
<1> QED
  BY <1>1, <1>2 DEF KeepsOwners, IndInv, TypeOK

\* Nobody takes over a lease that has an owner.
LEMMA OwnersKept ==
  ASSUME IndInv, [Next]_vars
  PROVE  KeepsOwners
<1>1. CASE Create
  BY <1>1, CreateKeepsOwners, RequestTimesAreNat DEF Create
<1>2. CASE Reclaim
  <2>1. PICK r \in ReclaimRequests, t \in RequestTimes : ReclaimTemporaryDisplay(r, t)
    BY <1>2 DEF Reclaim
  <2> QED
    BY <2>1, ReclaimMoves, RequestTimesAreNat DEF KeepsOwners
<1>3. CASE Feed
  <2>1. PICK l \in LeaseIds, timeout \in RequestedTimeouts, t \in RequestTimes :
            FeedLease(l, timeout, t)
    BY <1>3 DEF Feed
  <2> QED
    BY <2>1, FeedProlongs, RequestTimesAreNat DEF KeepsOwners
<1>4. CASE ~Create /\ ~Reclaim /\ ~Feed
  BY <1>4, OthersKeepClaims DEF KeepsOwners
<1> QED
  BY <1>1, <1>2, <1>3, <1>4

\* A display changes its lease only with all the others of that lease.
LEMMA OldLeasesFenced ==
  ASSUME IndInv, [Next]_vars
  PROVE  FencesOldLeases
<1>1. CASE Create
  <2>1. PICK r \in CreateRequests, t \in RequestTimes : CreateTemporaryDisplay(r, t)
    BY <1>1 DEF Create
  <2>2. r.display \notin LiveDisplays /\ \A d \in DisplayIds \ {r.display} : displays'[d] = displays[d]
    BY <2>1, CreateBegins, RequestTimesAreNat
  <2> QED
    BY <2>2 DEF FencesOldLeases, StaysRecord, LiveDisplays
<1>2. CASE Reclaim
  <2>1. PICK r \in ReclaimRequests, t \in RequestTimes : ReclaimTemporaryDisplay(r, t)
    BY <1>2 DEF Reclaim
  <2> DEFINE old == displays[r.display].lease
  <2>2. /\ leases[old].owner = r.owner
        /\ leases[r.newLease] = NoLease /\ leases'[old] = NoLease /\ leases'[r.newLease].owner = r.owner
        /\ \A d \in DisplaysOf(old) : d \in LiveDisplays' /\ displays'[d].lease = r.newLease
        /\ \A d \in DisplayIds \ DisplaysOf(old) : displays'[d] = displays[d]
    BY <2>1, ReclaimMoves, RequestTimesAreNat
  <2> HIDE DEF old
  <2>3. ASSUME NEW d \in DisplayIds, StaysRecord(d), displays'[d].lease # displays[d].lease
        PROVE  displays[d].lease = old /\ displays'[d].lease = r.newLease
    BY <2>2, <2>3 DEF DisplaysOf
  <2> QED
    BY <2>2, <2>3 DEF FencesOldLeases
<1>3. CASE Feed
  <2>1. PICK l \in LeaseIds, timeout \in RequestedTimeouts, t \in RequestTimes :
            FeedLease(l, timeout, t)
    BY <1>3 DEF Feed
  <2>2. \A d \in LiveDisplays : displays'[d].lease = displays[d].lease
    BY <2>1, FeedProlongs, RequestTimesAreNat
  <2> QED
    BY <2>2 DEF FencesOldLeases, StaysRecord
<1>4. CASE ~Create /\ ~Reclaim /\ ~Feed
  BY <1>4, OthersKeepClaims DEF FencesOldLeases, StaysRecord
<1> QED
  BY <1>1, <1>2, <1>3, <1>4

\* A clock reading is not older than the lag allows.
LEMMA RequestTimesAreRecent ==
  ASSUME IndInv
  PROVE  \A t \in RequestTimes : t \in Nat /\ now <= t + MaxClockLag
BY SizesAssumption DEF RequestTimes, IndInv, TypeOK

\* A display of a lease that is alive by a clock reading in use is not long expired.
LEMMA LiveLeaseNotStale ==
  ASSUME IndInv, NEW t \in RequestTimes, NEW d \in LiveDisplays,
         ~displays[d].pending, leases[displays[d].lease].expires > t
  PROVE  ~(displays[d].expires + MaxClockLag <= now)
<1>1. displays[d].expires \in Nat /\ displays[d].expires = leases[displays[d].lease].expires
  BY DEF IndInv, TypeOK, DisplayRecord, ExpiryShared, LiveDisplays
<1>2. t \in Nat /\ now <= t + MaxClockLag /\ now \in Nat
  BY RequestTimesAreRecent DEF IndInv, TypeOK
<1> QED
  BY <1>1, <1>2, SizesAssumption

\* A display that is expired by every clock reading in use is not revived.
LEMMA NobodyRevived ==
  ASSUME IndInv, [Next]_vars
  PROVE  RevivesNobody
<1>1. CASE Create
  <2>1. PICK r \in CreateRequests, t \in RequestTimes : CreateTemporaryDisplay(r, t)
    BY <1>1 DEF Create
  <2>2. r.display \notin LiveDisplays /\ \A d \in DisplayIds \ {r.display} : displays'[d] = displays[d]
    BY <2>1, CreateBegins, RequestTimesAreNat
  <2> QED
    BY <2>2 DEF RevivesNobody, LiveDisplays
<1>2. CASE Reclaim
  <2>1. PICK r \in ReclaimRequests, t \in RequestTimes : ReclaimTemporaryDisplay(r, t)
    BY <1>2 DEF Reclaim
  <2> DEFINE old == displays[r.display].lease
  <2>2. /\ leases[old].expires > t /\ ~HasPendingDeparture(old)
        /\ \A d \in DisplayIds \ DisplaysOf(old) : displays'[d] = displays[d]
    BY <2>1, ReclaimMoves, RequestTimesAreNat
  <2> HIDE DEF old
  <2>3. ASSUME NEW d \in DisplaysOf(old)
        PROVE  ~(displays[d].expires + MaxClockLag <= now)
    <3>1. d \in LiveDisplays /\ displays[d].lease = old /\ displays[d].pending \in BOOLEAN
      BY DEF DisplaysOf, IndInv, TypeOK, DisplayRecord, LiveDisplays
    <3>2. ~displays[d].pending
      BY <2>2, <3>1 DEF HasPendingDeparture
    <3> QED
      BY <2>2, <3>1, <3>2, LiveLeaseNotStale
  <2> QED
    BY <2>2, <2>3 DEF RevivesNobody, LiveDisplays
<1>3. CASE Feed
  <2>1. PICK l \in LeaseIds, timeout \in RequestedTimeouts, t \in RequestTimes :
            FeedLease(l, timeout, t)
    BY <1>3 DEF Feed
  <2>2. /\ leases[l].expires > t
        /\ \A d \in LiveDisplays :
             displays[d].lease # l \/ displays[d].pending => displays'[d] = displays[d]
    BY <2>1, FeedProlongs, RequestTimesAreNat
  <2>3. ASSUME NEW d \in LiveDisplays, displays[d].lease = l, ~displays[d].pending
        PROVE  ~(displays[d].expires + MaxClockLag <= now)
    BY <2>2, <2>3, LiveLeaseNotStale
  <2> QED
    BY <2>2, <2>3 DEF RevivesNobody
<1>4. CASE ~Create /\ ~Reclaim /\ ~Feed
  BY <1>4, OthersKeepClaims DEF RevivesNobody, StaysRecord
<1> QED
  BY <1>1, <1>2, <1>3, <1>4

\* Where the search drops a reservation, every free connector has one.
LEMMA SearchEvictsLast ==
  ASSUME IndInv, NEW d \in DisplayIds, NEW retain \in BOOLEAN, NEW e \in DisplayIds,
         ReservationsAfterSearch(d, retain)[e] # reservations[e]
  PROVE  FreeConnectors \subseteq {reservations[o] : o \in DisplayIds}
<1>1. UnclaimedConnectors(d, retain) = {}
  BY DEF ReservationsAfterSearch
<1> QED
  BY <1>1 DEF UnclaimedConnectors

\* Where a new display takes a connector from a reservation, it had a claim on it
\* itself, or every free connector is reserved.
LEMMA TakenConnectorEvictsLast ==
  ASSUME IndInv, NEW d \in DisplayIds, NEW e \in DisplayIds, e # d,
         reservations[e] = ConnectorFor(d, TRUE),
         ConnectorFor(d, TRUE) \in TemporaryConnectors
  PROVE  \/ FreeConnectors \subseteq {reservations[o] : o \in DisplayIds}
         \/ reservations[d] = reservations[e]
<1>1. CASE HasUsableReservation(d)
  BY <1>1 DEF ConnectorFor
<1>2. CASE ~HasUsableReservation(d) /\ UnclaimedConnectors(d, TRUE) # {}
  <2>1. UnclaimedConnectors(d, TRUE) \subseteq Nat
    BY ConnectorRange DEF UnclaimedConnectors, FreeConnectors
  <2>2. ConnectorFor(d, TRUE) \in UnclaimedConnectors(d, TRUE)
    BY <1>2, <2>1, MinIsElement DEF ConnectorFor
  <2> QED
    BY <2>2 DEF UnclaimedConnectors
<1>3. CASE UnclaimedConnectors(d, TRUE) = {}
  BY <1>3 DEF UnclaimedConnectors
<1> QED
  BY <1>1, <1>2, <1>3

\* What a retained display that comes back has reserved is what it gets.
LEMMA OwnReservationUsable ==
  ASSUME IndInv, NEW d \in DisplayIds \ LiveDisplays, reservations[d] # NoConnector
  PROVE  ConnectorFor(d, TRUE) = reservations[d]
<1>1. reservations[d] \in TemporaryConnectors
  BY DEF IndInv, TypeOK
<1>2. reservations[d] \notin ActiveConnectors
  BY DEF IndInv, ConnectorsUncontested, ActiveConnectors
<1> QED
  BY <1>1, <1>2 DEF HasUsableReservation, ConnectorFor

\* A dormant display loses its reservation only as the last resort.
LEMMA LastEvicted ==
  ASSUME IndInv, [Next]_vars
  PROVE  EvictsLast
<1>1. CASE Create
  <2>1. PICK r \in CreateRequests, t \in RequestTimes : CreateTemporaryDisplay(r, t)
    BY <1>1 DEF Create
  <2> DEFINE d == r.display
             c == ConnectorFor(d, ~r.ephemeral)
  <2>2. d \in DisplayIds /\ d \notin LiveDisplays /\ r.ephemeral \in BOOLEAN
    BY <2>1, CreateBegins, RequestTimesAreNat DEF CreateRequests
  <2>3. CASE r.ephemeral
    <3>1. reservations' = ReservationsAfterSearch(d, FALSE)
      BY <2>1, <2>3 DEF CreateTemporaryDisplay
    <3> QED
      BY <2>2, <3>1, SearchEvictsLast DEF EvictsLast
  <2>4. CASE ~r.ephemeral
    <3>1. reservations' = [WithoutOthersOn(ConnectorFor(d, TRUE), d) EXCEPT ![d] = ConnectorFor(d, TRUE)]
      BY <2>1, <2>4 DEF CreateTemporaryDisplay
    <3>2. ConnectorFor(d, TRUE) \in TemporaryConnectors
      BY <2>1, <2>4 DEF CreateTemporaryDisplay, CreateError
    <3>3. reservations'[d] = ConnectorFor(d, TRUE)
      BY <2>2, <3>1 DEF WithoutOthersOn
    <3>4. ASSUME NEW e \in DisplayIds, e # d, reservations'[e] # reservations[e]
          PROVE  reservations[e] = ConnectorFor(d, TRUE)
      BY <3>1, <3>4 DEF WithoutOthersOn
    <3>5. reservations[d] # NoConnector => reservations'[d] = reservations[d]
      BY <2>2, <3>3, OwnReservationUsable
    <3> HIDE DEF d
    <3>6. ASSUME NEW e \in DisplayIds, e # d, reservations'[e] # reservations[e]
          PROVE  \/ FreeConnectors \subseteq {reservations[o] : o \in DisplayIds}
                 \/ reservations[d] = reservations[e]
      BY <2>2, <3>2, <3>4, <3>6, TakenConnectorEvictsLast
    <3> QED
      BY <2>2, <3>5, <3>6 DEF EvictsLast
  <2> QED
    BY <2>2, <2>3, <2>4
<1>2. CASE Refuse
  <2>1. PICK r \in CreateRequests, t \in RequestTimes : RefuseCreate(r, t)
    BY <1>2 DEF Refuse
  <2>2. reservations' = ReservationsAfterSearch(r.display, TRUE) /\ r.display \in DisplayIds
    BY <2>1 DEF RefuseCreate, CreateRequests
  <2> QED
    BY <2>2, SearchEvictsLast DEF EvictsLast
<1>3. CASE Remove
  <2>1. PICK l \in LeaseIds, d \in DisplayIds, release \in BOOLEAN : RemoveTemporaryDisplay(l, d, release)
    BY <1>3 DEF Remove
  <2>2. d \in LiveDisplays /\ \A e \in DisplayIds \ {d} : reservations'[e] = reservations[e]
    BY <2>1 DEF RemoveTemporaryDisplay, Carries, DisplaysOf, IndInv, TypeOK
  <2> QED
    BY <2>2 DEF EvictsLast
<1>4. CASE Abandon
  <2>1. PICK l \in LeaseIds, d \in DisplayIds, g \in 1..MaxGeneration, owner \in Capabilities :
            AbandonPendingDisplay(l, d, g, owner)
    BY <1>4 DEF Abandon
  <2>2. d \in LiveDisplays /\ \A e \in DisplayIds \ {d} : reservations'[e] = reservations[e]
    BY <2>1 DEF AbandonPendingDisplay, AbandonAccepted, Carries, DisplaysOf, IndInv, TypeOK
  <2> QED
    BY <2>2 DEF EvictsLast
<1>5. CASE UNCHANGED reservations
  BY <1>5 DEF EvictsLast
<1> QED
  BY <1>1, <1>2, <1>3, <1>4, <1>5
  DEF Next, Tick, Reclaim, ReclaimTemporaryDisplay, MarkPending, MarkPendingDeparture,
      Feed, FeedLease, Release, ReleaseLease, Reap, ReapExpired, storeVars, vars

\* Nothing that somebody holds is taken over: a lease keeps its owner, a display
\* leaves its lease only with all the others and never comes back from its
\* expiry, and a reservation is evicted last (reclaim_temporary_display,
\* feed_lease, connector_index_for_display).
THEOREM ClaimsAlwaysRespected == Spec => ClaimsRespected
<1> DEFINE A == KeepsOwners /\ FencesOldLeases /\ RevivesNobody /\ EvictsLast
<1>1. IndInv /\ [Next]_vars => [A]_vars
  BY OwnersKept, OldLeasesFenced, NobodyRevived, LastEvicted
<1>2. ClaimsRespected <=> [][A]_vars
  BY DEF ClaimsRespected
<1> HIDE DEF A
<1> QED
  BY <1>1, <1>2, StoreInvariant, PTL DEF Spec
=============================================================================
