------------------------ MODULE FrameRingSlots_proofs ------------------------
(***************************************************************************)
(* What the two looks at the gate of a ring and the keyed mutexes of its   *)
(* slots are for, proved for any number of rings, slots, workers and       *)
(* frames.                                                                 *)
(*                                                                         *)
(* A worker that fills a slot holds it, so nobody else writes the slot or  *)
(* its metadata until it gives the slot back.  A gate that is closed stays *)
(* closed and is not closed while a worker has the mutex of the gate.  So  *)
(* a frame is handed over as it was stamped, or its worker has failed and  *)
(* will close the gate, or the gate is closed.                             *)
(***************************************************************************)
EXTENDS FrameRingSlots, TLAPS

RingRecord == [open : BOOLEAN, lock : 0..WorkerCount, sequence : 0..MaxSequence, event : BOOLEAN,
               mode : Modes \cup {NoMode}]
SlotRecord == [key : {0, 1}, holder : 0..Abandoned, pixels : Nat, frame : Nat,
               sequence : 0..MaxSequence]

\* Where a worker uses a ring, a slot, and where it holds that slot.
Holding == {"copying", "dropping", "releasing", "publishing"}
AtSlot == Holding \cup {"scanning"}
AtRing == AtSlot \cup {"mismatched", "signalling", "failed"}
Elsewhere == {"absent", "waiting", "acquired", "ended", "destroyed"}

WorkerRecord == [at : AtRing \cup Elsewhere, stop : BOOLEAN, ring : 0..MaxRing, slot : 0..SlotCount,
                 key : {0, 1}, frame : Nat, mode : Modes \cup {NoMode}, surface : Modes \cup {NoMode}]
ClientRecord == [ring : 0..MaxRing, last : 0..MaxSequence, slot : 0..SlotCount, reading : BOOLEAN]

TypeOK ==
    /\ rings \in [Rings -> RingRecord]
    /\ slots \in [Rings -> [Slots -> SlotRecord]]
    /\ workers \in [Workers -> WorkerRecord]
    /\ client \in ClientRecord
    /\ registered \in 0..MaxRing /\ nextRing \in 1..MaxRing + 1
    /\ assigned \in 0..WorkerCount /\ frames \in Nat /\ faults \in Nat

\* A ring that is not registered yet is closed, empty and unknown to everybody.
RingsFresh ==
    /\ \A r \in Rings : r >= nextRing =>
           ~rings[r].open /\ \A i \in Slots : slots[r][i].key = 0 /\ slots[r][i].sequence = 0
    /\ registered < nextRing /\ client.ring < nextRing
    /\ \A w \in Workers : workers[w].ring < nextRing

\* A worker has the ring and the slot its place needs, and has its slot to itself.
WorkersHold ==
    \A w \in Workers :
        /\ w > assigned => workers[w].at = "absent"
        /\ workers[w].at \in AtRing => workers[w].ring # 0
        /\ workers[w].at \in AtSlot => workers[w].slot # 0
        /\ workers[w].at \in Holding => slots[workers[w].ring][workers[w].slot].holder = w

ClientHolds ==
    /\ client.slot # 0 => client.ring # 0
    /\ client.reading => client.slot # 0 /\ slots[client.ring][client.slot].holder = ByClient

\* What a worker has seen of its ring and done with its slot is still so.
LooksStillTrue ==
    \A w \in Workers :
        /\ workers[w].at = "signalling" =>
               rings[workers[w].ring].open /\ rings[workers[w].ring].lock = w
        /\ workers[w].at = "dropping" => ~rings[workers[w].ring].open
        /\ workers[w].at = "publishing" =>
               slots[workers[w].ring][workers[w].slot].pixels = workers[w].frame

\* The client tells the frames of a ring apart by their numbers.
SequencesDistinct ==
    \A r \in Rings, i \in Slots :
        /\ slots[r][i].sequence <= rings[r].sequence
        /\ \A j \in Slots : slots[r][i].sequence = slots[r][j].sequence => i = j \/ slots[r][i].sequence = 0

IndInv ==
    /\ TypeOK
    /\ RingsFresh
    /\ WorkersHold
    /\ ClientHolds
    /\ LooksStillTrue
    /\ SequencesDistinct
    /\ VisibleFramesWhole

-----------------------------------------------------------------------------

USE DEF Rings, Slots, Workers, ByClient, Abandoned

LEMMA InitEstablishes == Init => IndInv
<1> SUFFICES ASSUME Init
             PROVE  IndInv
  OBVIOUS
<1> USE BoundsAssumption DEF Init, UnusedRing, EmptySlot, NoWorker, NoClient
<1>1. TypeOK
  BY DEF TypeOK, RingRecord, SlotRecord, WorkerRecord, ClientRecord, Elsewhere
<1>2. RingsFresh /\ WorkersHold /\ ClientHolds /\ LooksStillTrue /\ SequencesDistinct
  BY DEF RingsFresh, WorkersHold, ClientHolds, LooksStillTrue, SequencesDistinct,
         AtRing, AtSlot, Holding
<1>3. VisibleFramesWhole
  BY DEF VisibleFramesWhole, Visible
<1> QED
  BY <1>1, <1>2, <1>3 DEF IndInv


\* What a step of worker w may do: it goes from its record to ww, slot i of ring r becomes ss and
\* the ring rr.
Allowed(w, ww, r, i, ss, rr) ==
    /\ workers[w].at # "absent" /\ ww.ring < nextRing
    /\ r < nextRing \/ (ss = slots[r][i] /\ rr = rings[r])
    /\ ss # slots[r][i] => slots[r][i].holder \in {0, w} /\ ss.holder # ByClient
    /\ ss.sequence # slots[r][i].sequence =>
           rings[r].sequence < ss.sequence /\ ss.sequence = rr.sequence
    /\ rings[r].sequence <= rr.sequence
    /\ rr = rings[r] \/ rings[r].lock \in {0, w}
    /\ rr.open => rings[r].open
    /\ ww.at \in AtRing => ww.ring = r
    /\ ww.at \in AtSlot => ww.slot # 0
    /\ ww.at \in Holding => ww.slot = i /\ ss.holder = w
    /\ ww.at = "signalling" => rr.open /\ rr.lock = w
    /\ ww.at = "dropping" => ~rr.open
    /\ ww.at = "publishing" => ss.pixels = ww.frame
    /\ ss # slots[r][i] /\ ss.holder = 0 /\ ss.key = 1 /\ ss.pixels # ss.frame =>
           ~rr.open \/ ww.at = "failed"
    /\ workers[w].at = "failed" => workers[w].ring = r /\ (~rr.open \/ ww.at = "failed")


\* The fields of the records.
LEMMA Fields ==
  ASSUME TypeOK
  PROVE  /\ \A r \in Rings :
                /\ rings[r] \in RingRecord
                /\ rings[r].sequence \in 0..MaxSequence /\ rings[r].open \in BOOLEAN
                /\ rings[r].lock \in 0..WorkerCount /\ rings[r].mode \in Modes \cup {NoMode}
         /\ \A r \in Rings, i \in Slots :
                /\ slots[r][i] \in SlotRecord
                /\ slots[r][i].sequence \in 0..MaxSequence /\ slots[r][i].key \in {0, 1}
                /\ slots[r][i].holder \in 0..Abandoned
         /\ \A w \in Workers :
                /\ workers[w] \in WorkerRecord
                /\ workers[w].ring \in 0..MaxRing /\ workers[w].slot \in 0..SlotCount
                /\ workers[w].at \in AtRing \cup Elsewhere /\ workers[w].key \in {0, 1}
                /\ workers[w].frame \in Nat /\ workers[w].mode \in Modes \cup {NoMode}
         /\ client.ring \in 0..MaxRing /\ client.slot \in 0..SlotCount
         /\ client.last \in 0..MaxSequence /\ client.reading \in BOOLEAN
<1> USE DEF TypeOK
<1>1. ASSUME NEW r \in Rings
      PROVE  /\ rings[r] \in RingRecord
             /\ rings[r].sequence \in 0..MaxSequence /\ rings[r].open \in BOOLEAN
             /\ rings[r].lock \in 0..WorkerCount /\ rings[r].mode \in Modes \cup {NoMode}
  BY DEF RingRecord
<1>2. ASSUME NEW r \in Rings, NEW i \in Slots
      PROVE  /\ slots[r][i] \in SlotRecord
             /\ slots[r][i].sequence \in 0..MaxSequence /\ slots[r][i].key \in {0, 1}
             /\ slots[r][i].holder \in 0..Abandoned
  BY DEF SlotRecord
<1>3. ASSUME NEW w \in Workers
      PROVE  /\ workers[w] \in WorkerRecord
             /\ workers[w].ring \in 0..MaxRing /\ workers[w].slot \in 0..SlotCount
             /\ workers[w].at \in AtRing \cup Elsewhere /\ workers[w].key \in {0, 1}
             /\ workers[w].frame \in Nat /\ workers[w].mode \in Modes \cup {NoMode}
  BY DEF WorkerRecord
<1>4. /\ client.ring \in 0..MaxRing /\ client.slot \in 0..SlotCount
      /\ client.last \in 0..MaxSequence /\ client.reading \in BOOLEAN
  BY DEF ClientRecord
<1> QED
  BY <1>1, <1>2, <1>3, <1>4

\* The invariant is kept by the others: they neither hold this slot nor have the mutex of the gate.
LEMMA WorkerStep ==
  ASSUME IndInv, NEW w \in Workers, NEW ww \in WorkerRecord,
         NEW r \in Rings, NEW i \in Slots, NEW ss \in SlotRecord, NEW rr \in RingRecord,
         workers' = [workers EXCEPT ![w] = ww],
         slots' = [slots EXCEPT ![r][i] = ss],
         rings' = [rings EXCEPT ![r] = rr],
         UNCHANGED <<registered, nextRing, assigned, client>>,
         frames' \in Nat, faults' \in Nat,
         Allowed(w, ww, r, i, ss, rr)
  PROVE  IndInv'
<1> USE BoundsAssumption DEF IndInv
<1>1. TypeOK'
  BY DEF TypeOK
<1>2. /\ \A x \in Workers : workers'[x] = IF x = w THEN ww ELSE workers[x]
      /\ \A q \in Rings : rings'[q] = IF q = r THEN rr ELSE rings[q]
      /\ \A q \in Rings, j \in Slots :
             slots'[q][j] = IF q = r /\ j = i THEN ss ELSE slots[q][j]
  BY DEF TypeOK
<1>a. assigned \in 0..WorkerCount /\ nextRing \in 1..MaxRing + 1
  BY DEF TypeOK
<1>b. /\ ww.ring \in 0..MaxRing /\ ww.slot \in 0..SlotCount
      /\ ss.sequence \in Nat /\ rr.sequence \in Nat
  BY DEF WorkerRecord, SlotRecord, RingRecord
<1>3. RingsFresh'
  <2>1. ASSUME NEW q \in Rings, q >= nextRing
        PROVE  rings'[q] = rings[q] /\ \A j \in Slots : slots'[q][j] = slots[q][j]
    BY <1>2, <1>a, <2>1 DEF Allowed
  <2> QED
    BY <1>2, <2>1 DEF RingsFresh, Allowed
<1>4. WorkersHold'
  <2>1. ASSUME NEW x \in Workers, x # w, workers[x].at \in Holding
        PROVE  slots'[workers[x].ring][workers[x].slot].holder = x
    <3>1. /\ workers[x].ring \in Rings /\ workers[x].slot \in Slots
          /\ slots[workers[x].ring][workers[x].slot].holder = x
      BY <2>1, Fields DEF WorkersHold, AtRing, AtSlot
    <3> QED
      BY <1>2, <2>1, <3>1 DEF Allowed
  <2>2. ww.at \in Holding => slots'[ww.ring][ww.slot].holder = w
    BY <1>2 DEF Allowed, AtRing, AtSlot
  <2>3. ww.at \in AtRing => ww.ring # 0
    BY DEF Allowed
  <2>4. ww.at = "absent" \/ w <= assigned
    BY <1>a DEF WorkersHold, Allowed
  <2> QED
    BY <1>2, <1>a, <2>1, <2>2, <2>3, <2>4 DEF WorkersHold, Allowed
<1>5. ClientHolds'
  BY <1>2, Fields DEF ClientHolds, Allowed
<1>6. LooksStillTrue'
  <2>1. ASSUME NEW x \in Workers, x # w, workers[x].at \in {"signalling", "dropping", "publishing"}
        PROVE  /\ workers[x].ring \in Rings
               /\ workers[x].at = "publishing" =>
                      /\ workers[x].slot \in Slots
                      /\ slots[workers[x].ring][workers[x].slot].holder = x
    BY <2>1, Fields DEF WorkersHold, AtRing, AtSlot, Holding
  <2>2. ASSUME NEW x \in Workers, x # w
        PROVE  /\ workers[x].at = "signalling" =>
                      rings'[workers[x].ring].open /\ rings'[workers[x].ring].lock = x
               /\ workers[x].at = "dropping" => ~rings'[workers[x].ring].open
               /\ workers[x].at = "publishing" =>
                      slots'[workers[x].ring][workers[x].slot].pixels = workers[x].frame
    BY <1>2, <2>1, <2>2 DEF LooksStillTrue, Allowed
  <2>3. /\ ww.at = "signalling" => rings'[ww.ring].open /\ rings'[ww.ring].lock = w
        /\ ww.at = "dropping" => ~rings'[ww.ring].open
        /\ ww.at = "publishing" => slots'[ww.ring][ww.slot].pixels = ww.frame
    BY <1>2 DEF Allowed, AtRing, AtSlot, Holding
  <2> QED
    BY <1>2, <2>2, <2>3 DEF LooksStillTrue
<1>7. SequencesDistinct'
  <2>1. ASSUME NEW q \in Rings, NEW j \in Slots
        PROVE  slots'[q][j].sequence <= rings'[q].sequence
    BY <1>2, <1>b, Fields DEF SequencesDistinct, Allowed
  <2>2. ASSUME NEW q \in Rings, NEW j \in Slots, NEW k \in Slots,
               slots'[q][j].sequence = slots'[q][k].sequence
        PROVE  j = k \/ slots'[q][j].sequence = 0
    <3>1. slots[q][j].sequence <= rings[q].sequence /\ slots[q][k].sequence <= rings[q].sequence
      BY DEF SequencesDistinct
    <3>2. slots[q][j].sequence = slots[q][k].sequence => j = k \/ slots[q][j].sequence = 0
      BY DEF SequencesDistinct
    <3> QED
      BY <1>2, <1>b, <2>2, <3>1, <3>2, Fields DEF Allowed
  <2> QED
    BY <2>1, <2>2 DEF SequencesDistinct
<1>8. VisibleFramesWhole'
  <2> SUFFICES ASSUME NEW q \in Rings, NEW j \in Slots, Visible(slots', q, j),
                      slots'[q][j].pixels # slots'[q][j].frame, rings'[q].open
               PROVE  \E x \in Workers : workers'[x].ring = q /\ workers'[x].at = "failed"
    BY DEF VisibleFramesWhole
  <2>1. CASE q = r /\ j = i /\ ss # slots[r][i]
    <3>1. ss.holder = 0 => ww.at = "failed" /\ ww.ring = r
      BY <1>2, <2>1 DEF Allowed, Visible, AtRing
    <3>2. ss.holder # ByClient
      BY <2>1 DEF Allowed
    <3> QED
      BY <1>2, <2>1, <3>1, <3>2 DEF Visible
  <2>2. CASE slots'[q][j] = slots[q][j]
    <3>1. rings[q].open
      BY <1>2 DEF Allowed
    <3>2. PICK x \in Workers : workers[x].ring = q /\ workers[x].at = "failed"
      BY <2>2, <3>1 DEF VisibleFramesWhole, Visible
    <3> QED
      BY <1>2, <3>2 DEF Allowed, AtRing
  <2> QED
    BY <1>2, <2>1, <2>2
<1> QED
  BY <1>1, <1>3, <1>4, <1>5, <1>6, <1>7, <1>8

\* A table is itself with an entry replaced by what it was.
LEMMA Same ==
  ASSUME TypeOK, NEW r \in Rings, NEW i \in Slots
  PROVE  rings = [rings EXCEPT ![r] = rings[r]] /\ slots = [slots EXCEPT ![r][i] = slots[r][i]]
BY DEF TypeOK

\* A step of a worker that touches no ring and no slot.
LEMMA WorkerMoves ==
  ASSUME IndInv, NEW w \in Workers, NEW ww \in WorkerRecord,
         workers' = [workers EXCEPT ![w] = ww],
         UNCHANGED <<rings, slots, registered, nextRing, assigned, client>>,
         frames' \in Nat, faults' \in Nat,
         workers[w].at \notin {"absent", "failed"}, ww.ring < nextRing,
         ww.at \notin Holding \cup {"signalling"},
         ww.at \in AtRing => ww.ring # 0,
         ww.at \in AtSlot => ww.slot # 0
  PROVE  IndInv'
<1> DEFINE r == IF ww.ring = 0 THEN 1 ELSE ww.ring
<1>1. r \in Rings /\ 1 \in Slots
  BY BoundsAssumption DEF WorkerRecord
<1>2. /\ slots[r][1] \in SlotRecord /\ rings[r] \in RingRecord
      /\ slots[r][1].sequence <= rings[r].sequence /\ rings[r].sequence \in Nat
  BY <1>1, Fields DEF IndInv, SequencesDistinct
<1>3. slots' = [slots EXCEPT ![r][1] = slots[r][1]] /\ rings' = [rings EXCEPT ![r] = rings[r]]
  BY <1>1, Same DEF IndInv
<1>4. Allowed(w, ww, r, 1, slots[r][1], rings[r])
  <2>1. ww.at \notin {"dropping", "publishing", "signalling"}
    BY DEF Holding
  <2>2. ww.at \in AtRing => ww.ring = r
    OBVIOUS
  <2> HIDE DEF r
  <2> QED
    BY <1>1, <1>2, <2>1, <2>2 DEF Allowed
<1> QED
  BY <1>1, <1>2, <1>3, <1>4, WorkerStep

\* Where a worker has a slot, slot and ring exist.
LEMMA PlacesExist ==
  ASSUME IndInv, NEW w \in Workers
  PROVE  /\ workers[w] \in WorkerRecord
         /\ workers[w].at \in AtRing => workers[w].ring \in Rings
         /\ workers[w].at \in AtSlot => workers[w].slot \in Slots
         /\ workers[w].at \in Holding =>
                slots[workers[w].ring][workers[w].slot].holder = w
         /\ workers[w].ring < nextRing
BY Fields DEF IndInv, WorkersHold, RingsFresh, AtRing, AtSlot

\* The record of a worker that has done with its frame.
LeftAt(w, at) == [workers[w] EXCEPT !.at = at, !.slot = 0, !.key = 0, !.frame = 0, !.mode = NoMode]

LEMMA LeavingTyped ==
  ASSUME IndInv, NEW w \in Workers, NEW at \in {"waiting", "failed", "ended"}
  PROVE  /\ LeftAt(w, at) \in WorkerRecord
         /\ LeftAt(w, at).at = at /\ LeftAt(w, at).ring = workers[w].ring
         /\ Leaves(w, at) => workers' = [workers EXCEPT ![w] = LeftAt(w, at)]
<1>1. workers[w] \in WorkerRecord /\ 0 \in 0..SlotCount
  BY PlacesExist, BoundsAssumption
<1>2. at \in AtRing \cup Elsewhere
  BY DEF AtRing, Elsewhere
<1>3. LeftAt(w, at) \in WorkerRecord
  BY <1>1, <1>2 DEF LeftAt, WorkerRecord
<1>4. LeftAt(w, at).at = at /\ LeftAt(w, at).ring = workers[w].ring
  BY <1>1 DEF LeftAt, WorkerRecord
<1>5. Leaves(w, at) => workers' = [workers EXCEPT ![w] = LeftAt(w, at)]
  BY Zenon DEF Leaves, LeftAt
<1> QED
  BY <1>3, <1>4, <1>5

-----------------------------------------------------------------------------
(* The workers.                                                            *)

LEMMA WaitingKeeps ==
  ASSUME IndInv, NEW w \in Workers, frames' \in Nat, faults' \in Nat,
         \/ \E m \in Modes \cup {NoMode} : AcquireSurface(w, m)
         \/ TakeSnapshot(w, registered) \/ TakeSnapshot(w, 0)
         \/ Stops(w) \/ FrameFails(w)
  PROVE  IndInv'
<1>w. workers[w] \in WorkerRecord /\ workers[w].ring < nextRing
  BY PlacesExist
<1>n. /\ \A at \in {"acquired", "waiting", "ended"} : at \notin AtRing /\ at \notin AtSlot
      /\ "mismatched" \notin AtSlot
      /\ \A at \in {"acquired", "waiting", "ended", "scanning", "mismatched"} :
             at \notin Holding \cup {"signalling"}
  BY DEF AtRing, AtSlot, Holding
<1>1. ASSUME NEW m \in Modes \cup {NoMode}, AcquireSurface(w, m)
      PROVE  IndInv'
  <2> DEFINE ww == [workers[w] EXCEPT !.at = "acquired", !.frame = frames + 1, !.mode = m, !.surface = NoMode]
  <2>1. frames + 1 \in Nat
    BY DEF IndInv, TypeOK
  <2>2. ww \in WorkerRecord
    BY <1>w, <2>1 DEF WorkerRecord, Elsewhere
  <2>3. ww.at = "acquired" /\ ww.ring = workers[w].ring
    BY <1>w DEF WorkerRecord
  <2>4. /\ workers' = [workers EXCEPT ![w] = ww] /\ workers[w].at = "waiting"
        /\ UNCHANGED <<rings, slots, registered, nextRing, assigned, client>>
    BY <1>1, Zenon DEF AcquireSurface
  <2> HIDE DEF ww
  <2> QED
    BY <1>w, <1>n, <2>2, <2>3, <2>4, WorkerMoves
<1>2. ASSUME NEW found \in {registered, 0}, TakeSnapshot(w, found)
      PROVE  IndInv'
  <2> DEFINE r == IF CanPublish(found) THEN found ELSE 0
             at == IF r = 0 THEN "waiting"
                   ELSE IF rings[r].mode = workers[w].mode THEN "scanning" ELSE "mismatched"
             ww == [workers[w] EXCEPT !.surface = workers[w].mode, !.ring = r, !.slot = 1, !.at = at]
  <2>1. r \in 0..MaxRing /\ r < nextRing /\ 1 \in 0..SlotCount
    BY BoundsAssumption DEF IndInv, TypeOK, RingsFresh
  <2>2. at \in {"waiting", "scanning", "mismatched"} /\ (r = 0 => at = "waiting")
    OBVIOUS
  <2>3. workers[w].at = "acquired" /\ workers' = [workers EXCEPT ![w] = ww]
        /\ UNCHANGED <<rings, slots, registered, nextRing, assigned, client>>
    BY <1>2, Zenon DEF TakeSnapshot
  <2> HIDE DEF at, r
  <2>4. ww \in WorkerRecord
    BY <1>w, <2>1, <2>2 DEF WorkerRecord, AtRing, AtSlot, Elsewhere
  <2>5. ww.ring = r /\ ww.slot = 1 /\ ww.at = at
    BY <1>w DEF WorkerRecord
  <2> HIDE DEF ww
  <2>6. /\ workers[w].at \notin {"absent", "failed"} /\ ww.ring < nextRing
        /\ ww.at \notin Holding \cup {"signalling"}
        /\ (ww.at \in AtRing => ww.ring # 0) /\ (ww.at \in AtSlot => ww.slot # 0)
    BY <1>n, <2>1, <2>2, <2>3, <2>5
  <2> QED
    BY <2>3, <2>4, <2>6, WorkerMoves
<1>3. ASSUME Stops(w) \/ FrameFails(w)
      PROVE  IndInv'
  <2>1. /\ Leaves(w, "ended") /\ workers[w].at = "waiting"
        /\ UNCHANGED <<rings, slots, registered, nextRing, assigned, client>>
    BY <1>3 DEF Stops, FrameFails
  <2> QED
    BY <1>w, <1>n, <2>1, LeavingTyped, WorkerMoves
<1> QED
  BY <1>1, <1>2, <1>3

LEMMA AcquireSlotKeeps ==
  ASSUME IndInv, NEW w \in Workers, AcquireSlot(w), frames' \in Nat, faults' \in Nat
  PROVE  IndInv'
<1> DEFINE r == workers[w].ring
           i == workers[w].slot
           s == slots[r][i]
<1>w. workers[w] \in WorkerRecord
  BY PlacesExist
<1>n. /\ "waiting" \notin AtRing
      /\ \A at \in {"waiting", "failed"} : at \notin AtSlot
      /\ \A at \in {"waiting", "scanning", "failed"} : at \notin Holding \cup {"signalling"}
  BY DEF AtRing, AtSlot, Holding
<1>1. r \in Rings /\ i \in Slots /\ r < nextRing /\ workers[w].at = "scanning"
  BY PlacesExist DEF AcquireSlot, AtRing, AtSlot
<1>2. CASE rings[r].open /\ s.holder = 0
  <2> DEFINE ww == [workers[w] EXCEPT !.at = "copying", !.key = s.key]
             ss == [s EXCEPT !.holder = w]
  <2>0. s \in SlotRecord /\ rings[r] \in RingRecord /\ s.sequence <= rings[r].sequence
        /\ rings[r].sequence \in Nat
    BY <1>1, Fields DEF IndInv, SequencesDistinct
  <2>1. ww \in WorkerRecord /\ ww.at = "copying" /\ ww.ring = r /\ ww.slot = i
    BY <1>w, <2>0 DEF WorkerRecord, AtRing, AtSlot, Holding, SlotRecord
  <2>2. ss \in SlotRecord /\ ss.holder = w /\ ss.sequence = s.sequence
    BY <2>0, BoundsAssumption DEF SlotRecord
  <2>3. workers' = [workers EXCEPT ![w] = ww]
    BY <1>1, <1>2, BoundsAssumption DEF AcquireSlot, CanPublish
  <2>4. slots' = [slots EXCEPT ![r][i] = ss]
    BY <1>1, <1>2, BoundsAssumption DEF AcquireSlot, CanPublish
  <2>5. rings' = [rings EXCEPT ![r] = rings[r]]
        /\ UNCHANGED <<registered, nextRing, assigned, client>>
    BY <1>1, Same DEF AcquireSlot, IndInv
  <2> HIDE DEF ww, ss
  <2>6. Allowed(w, ww, r, i, ss, rings[r])
    BY <1>1, <1>2, <2>0, <2>1, <2>2, BoundsAssumption DEF Allowed
  <2> QED
    BY <1>1, <2>0, <2>1, <2>2, <2>3, <2>4, <2>5, <2>6, WorkerStep
<1>3. CASE ~(rings[r].open /\ s.holder = 0)
  <2>0. UNCHANGED <<rings, slots, registered, nextRing, assigned, client>>
    BY <1>1, <1>3, BoundsAssumption DEF AcquireSlot, CanPublish
  <2>1. \/ Leaves(w, "waiting") \/ Leaves(w, "failed")
        \/ i # SlotCount /\ workers' = [workers EXCEPT ![w].slot = i + 1]
    BY <1>1, <1>3, BoundsAssumption DEF AcquireSlot, CanPublish
  <2>2. ASSUME NEW at \in {"waiting", "failed"}, Leaves(w, at)
        PROVE  IndInv'
    BY <1>1, <1>n, <2>0, <2>2, LeavingTyped, WorkerMoves
  <2>3. CASE i # SlotCount /\ workers' = [workers EXCEPT ![w].slot = i + 1]
    <3> DEFINE ww == [workers[w] EXCEPT !.slot = i + 1]
    <3>1. i + 1 \in 0..SlotCount /\ i + 1 # 0
      BY <1>1, <2>3, BoundsAssumption
    <3>2. ww \in WorkerRecord /\ ww.ring = r /\ ww.slot = i + 1 /\ ww.at = "scanning"
      BY <1>w, <1>1, <3>1 DEF WorkerRecord
    <3>3. workers' = [workers EXCEPT ![w] = ww]
      BY <2>3, Zenon
    <3> HIDE DEF ww
    <3>4. /\ workers[w].at \notin {"absent", "failed"} /\ ww.ring < nextRing
          /\ ww.at \notin Holding \cup {"signalling"}
          /\ (ww.at \in AtRing => ww.ring # 0) /\ (ww.at \in AtSlot => ww.slot # 0)
      BY <1>1, <1>n, <3>1, <3>2
    <3> QED
      BY <2>0, <3>2, <3>3, <3>4, WorkerMoves
  <2> QED
    BY <2>1, <2>2, <2>3
<1> QED
  BY <1>2, <1>3

\* A worker that holds a slot, with the slot and the ring.
LEMMA HeldSlot ==
  ASSUME IndInv, NEW w \in Workers, workers[w].at \in Holding
  PROVE  LET r == workers[w].ring
             i == workers[w].slot
         IN  /\ r \in Rings /\ i \in Slots /\ r < nextRing
             /\ slots[r][i] \in SlotRecord /\ rings[r] \in RingRecord
             /\ slots[r][i].holder = w
             /\ slots[r][i].sequence <= rings[r].sequence
             /\ rings[r].sequence \in Nat /\ slots[r][i].sequence \in Nat
<1>1. workers[w].ring \in Rings /\ workers[w].slot \in Slots
      /\ slots[workers[w].ring][workers[w].slot].holder = w /\ workers[w].ring < nextRing
  BY PlacesExist DEF AtRing, AtSlot
<1> QED
  BY <1>1, Fields DEF IndInv, SequencesDistinct

\* The record of a worker that holds its slot and goes on.
LEMMA GoingTyped ==
  ASSUME IndInv, NEW w \in Workers, NEW at \in AtRing \cup Elsewhere
  PROVE  LET ww == [workers[w] EXCEPT !.at = at] IN
         /\ ww \in WorkerRecord
         /\ ww.at = at /\ ww.ring = workers[w].ring /\ ww.slot = workers[w].slot
         /\ ww.frame = workers[w].frame
BY PlacesExist DEF WorkerRecord

\* It leaves the slot without new metadata, and gives away no frame that it does not answer for.
MayLeave(w, at, ss, rr) ==
    LET r == workers[w].ring IN
    /\ ss.holder # ByClient
    /\ ss.sequence = slots[r][workers[w].slot].sequence
    /\ rr # rings[r] =>
           /\ rings[r].lock = 0
           /\ rr.open = rings[r].open
           /\ rings[r].sequence <= rr.sequence
    /\ \/ at = "failed" \/ ss.key = 0 \/ ~rings[r].open \/ ss.holder # 0
       \/ ss.pixels = ss.frame

\* The holder is free to leave its slot as ss, to wait for the next frame or to fail.
LEMMA HolderLeaves ==
  ASSUME IndInv, NEW w \in Workers, workers[w].at \in Holding,
         NEW at \in {"waiting", "failed"}, Leaves(w, at),
         NEW ss \in SlotRecord, NEW rr \in RingRecord,
         slots' = [slots EXCEPT ![workers[w].ring][workers[w].slot] = ss],
         rings' = [rings EXCEPT ![workers[w].ring] = rr],
         UNCHANGED <<registered, nextRing, assigned, client>>,
         frames' \in Nat, faults' \in Nat,
         MayLeave(w, at, ss, rr)
  PROVE  IndInv'
<1> DEFINE r == workers[w].ring
           i == workers[w].slot
           ww == LeftAt(w, at)
<1>1. ww \in WorkerRecord /\ ww.at = at /\ ww.ring = r /\ workers' = [workers EXCEPT ![w] = ww]
  BY LeavingTyped
<1>2. /\ r \in Rings /\ i \in Slots /\ r < nextRing /\ slots[r][i].holder = w
      /\ rings[r].sequence \in Nat
  BY HeldSlot
<1>3. workers[w].at # "absent" /\ workers[w].at # "failed"
  BY DEF Holding
<1>4. /\ at \notin Holding /\ at \notin AtSlot
      /\ at \notin {"signalling", "dropping", "publishing"}
  BY DEF Holding, AtSlot
<1> HIDE DEF ww
<1>5. Allowed(w, ww, r, i, ss, rr)
  <2>1. rings[r].sequence <= rr.sequence /\ (rr.open => rings[r].open)
        /\ (rr = rings[r] \/ rings[r].lock = 0)
    BY <1>2 DEF MayLeave
  <2>2. ss # slots[r][i] /\ ss.holder = 0 /\ ss.key = 1 /\ ss.pixels # ss.frame =>
            ~rr.open \/ ww.at = "failed"
    BY <1>1, <2>1 DEF MayLeave
  <2> QED
    BY <1>1, <1>2, <1>3, <1>4, <2>1, <2>2 DEF Allowed, MayLeave
<1> QED
  BY <1>1, <1>2, <1>5, WorkerStep

\* What the slots become when their holder gives its slot back.
LEMMA GivingBack ==
  ASSUME IndInv, NEW w \in Workers, workers[w].at \in Holding, NEW key \in {0, 1}
  PROVE  \E ss \in SlotRecord :
             /\ GivenBack(w, key) = [slots EXCEPT ![workers[w].ring][workers[w].slot] = ss]
             /\ ss.key = key /\ ss.holder = 0
             /\ ss.sequence = slots[workers[w].ring][workers[w].slot].sequence
<1> DEFINE r == workers[w].ring
           i == workers[w].slot
           ss == [slots[r][i] EXCEPT !.key = key, !.holder = 0]
<1>1. slots[r][i] \in SlotRecord /\ 0 \in 0..Abandoned
  BY HeldSlot, BoundsAssumption
<1>2. ss \in SlotRecord /\ ss.key = key /\ ss.holder = 0 /\ ss.sequence = slots[r][i].sequence
  BY <1>1 DEF SlotRecord
<1>3. GivenBack(w, key) = [slots EXCEPT ![r][i] = ss]
  BY Zenon DEF GivenBack
<1> HIDE DEF ss
<1> QED
  BY <1>2, <1>3

LEMMA CopyingKeeps ==
  ASSUME IndInv, NEW w \in Workers, Copy(w) \/ CopyFails(w), frames' \in Nat, faults' \in Nat
  PROVE  IndInv'
<1> DEFINE r == workers[w].ring
           i == workers[w].slot
           s == slots[r][i]
           copied == [s EXCEPT !.pixels = workers[w].frame]
<1>1. workers[w].at = "copying" /\ workers[w].at \in Holding
      /\ UNCHANGED <<registered, nextRing, assigned, client>> /\ rings' = rings
  BY DEF Copy, CopyFails, Holding
<1>2. PICK at \in {"publishing", "dropping", "releasing"} :
          /\ workers' = [workers EXCEPT ![w].at = at]
          /\ slots' \in {slots, Copied(w)}
          /\ at = "publishing" => slots' = Copied(w)
          /\ at = "dropping" => ~rings[r].open
  <2>1. CanPublish(r) <=> rings[r].open
    BY <1>1, HeldSlot DEF CanPublish
  <2>2. CASE Copy(w)
    BY <2>1, <2>2 DEF Copy, Goes
  <2>3. CASE CopyFails(w)
    BY <2>3 DEF CopyFails, Goes
  <2> QED
    BY <2>2, <2>3
<1>3. /\ r \in Rings /\ i \in Slots /\ r < nextRing /\ s \in SlotRecord /\ rings[r] \in RingRecord
      /\ s.holder = w /\ s.sequence <= rings[r].sequence /\ rings[r].sequence \in Nat
  BY <1>1, HeldSlot
<1>s. rings = [rings EXCEPT ![r] = rings[r]] /\ slots = [slots EXCEPT ![r][i] = s]
  BY <1>3, Same DEF IndInv
<1>4. copied \in SlotRecord /\ copied.holder = w /\ copied.sequence = s.sequence
      /\ copied.pixels = workers[w].frame
  BY <1>3, Fields DEF SlotRecord, IndInv
<1>5. Copied(w) = [slots EXCEPT ![r][i] = copied]
  BY Zenon DEF Copied
<1>6. PICK ss \in SlotRecord :
          /\ slots' = [slots EXCEPT ![r][i] = ss] /\ ss.holder = w /\ ss.sequence = s.sequence
          /\ at = "publishing" => ss.pixels = workers[w].frame
  <2> HIDE DEF copied
  <2>1. CASE slots' = Copied(w)
    BY <2>1, <1>4, <1>5
  <2>2. CASE slots' = slots /\ at # "publishing"
    BY <2>2, <1>3, <1>s
  <2> QED
    BY <1>2, <2>1, <2>2
<1>7. at \in Holding /\ at \in AtRing \cup Elsewhere /\ at \in AtSlot
  BY DEF Holding, AtSlot, AtRing
<1> DEFINE ww == [workers[w] EXCEPT !.at = at]
<1>8. ww \in WorkerRecord /\ ww.at = at /\ ww.ring = r /\ ww.slot = i /\ ww.frame = workers[w].frame
  BY <1>7, GoingTyped
<1>9. workers' = [workers EXCEPT ![w] = ww]
  BY <1>2, Zenon
<1> HIDE DEF ww, copied
<1>10. Allowed(w, ww, r, i, ss, rings[r])
  BY <1>1, <1>2, <1>3, <1>6, <1>7, <1>8, BoundsAssumption DEF Allowed
<1>11. PICK rr \in RingRecord : rr = rings[r]
  BY <1>3
<1>12. r \in Rings /\ i \in Slots /\ rings' = [rings EXCEPT ![r] = rr]
  BY <1>1, <1>3, <1>s, <1>11
<1>13. Allowed(w, ww, r, i, ss, rr)
  BY <1>10, <1>11, Zenon
<1>14. slots' = [slots EXCEPT ![r][i] = ss] /\ ww \in WorkerRecord
      /\ UNCHANGED <<registered, nextRing, assigned, client>>
  BY <1>1, <1>6, <1>8
<1> HIDE DEF r, i, s
<1> QED
  BY <1>9, <1>12, <1>13, <1>14, WorkerStep

LEMMA GivingBackKeeps ==
  ASSUME IndInv, NEW w \in Workers, Releases(w) \/ PublishGivesUp(w), frames' \in Nat, faults' \in Nat
  PROVE  IndInv'
<1> DEFINE r == workers[w].ring
<1>1. workers[w].at \in Holding /\ UNCHANGED <<registered, nextRing, assigned, client>>
      /\ rings' = rings
  BY DEF Releases, PublishGivesUp, Holding
<1>2. r \in Rings /\ workers[w].slot \in Slots /\ rings[r] \in RingRecord /\ workers[w].key \in {0, 1}
  BY <1>1, HeldSlot, Fields DEF IndInv
<1>3. \E at \in {"waiting", "failed"}, key \in {0, 1} :
          /\ Leaves(w, at) /\ slots' = GivenBack(w, key)
          /\ at = "failed" \/ key = 0 \/ ~rings[r].open
  <2>1. CASE Releases(w)
    <3>1. workers[w].at = "dropping" => ~rings[r].open
      BY DEF IndInv, LooksStillTrue
    <3> QED
      BY <1>2, <2>1, <3>1 DEF Releases, CanPublish
  <2>2. CASE PublishGivesUp(w)
    BY <1>2, <2>2 DEF PublishGivesUp, CanPublish
  <2> QED
    BY <2>1, <2>2
<1>4. PICK at \in {"waiting", "failed"}, key \in {0, 1} :
          /\ Leaves(w, at) /\ slots' = GivenBack(w, key)
          /\ at = "failed" \/ key = 0 \/ ~rings[r].open
  BY <1>3
<1>5. PICK ss \in SlotRecord :
          /\ slots' = [slots EXCEPT ![r][workers[w].slot] = ss]
          /\ ss.key = key /\ ss.holder = 0 /\ ss.sequence = slots[r][workers[w].slot].sequence
  BY <1>1, <1>4, GivingBack
<1>6. rings' = [rings EXCEPT ![r] = rings[r]]
  BY <1>1, <1>2, Same DEF IndInv
<1>7. MayLeave(w, at, ss, rings[r])
  BY <1>4, <1>5, BoundsAssumption DEF MayLeave
<1> QED
  BY <1>1, <1>2, <1>4, <1>5, <1>6, <1>7, HolderLeaves

LEMMA PublishingKeeps ==
  ASSUME IndInv, NEW w \in Workers, Publishes(w) \/ PublishFails(w), frames' \in Nat, faults' \in Nat
  PROVE  IndInv'
<1> DEFINE r == workers[w].ring
           i == workers[w].slot
           s == slots[r][i]
<1>1. /\ workers[w].at = "publishing" /\ workers[w].at \in Holding
      /\ UNCHANGED <<registered, nextRing, assigned, client>>
      /\ Unlocked(r) /\ CanPublish(r) /\ rings[r].sequence < MaxSequence
  BY DEF Publishes, PublishFails, Holding
<1>2. /\ r \in Rings /\ i \in Slots /\ r < nextRing /\ s \in SlotRecord /\ rings[r] \in RingRecord
      /\ s.holder = w /\ s.sequence <= rings[r].sequence /\ rings[r].sequence \in Nat
  BY <1>1, HeldSlot
<1>3. rings[r].lock = 0 /\ rings[r].open /\ s.pixels = workers[w].frame
  BY <1>1, <1>2 DEF Unlocked, CanPublish, IndInv, LooksStillTrue
<1>4. rings[r].sequence + 1 \in 0..MaxSequence /\ rings[r].sequence < rings[r].sequence + 1
  BY <1>1, <1>2, BoundsAssumption
<1>5. CASE Publishes(w)
  <2> DEFINE ww == [workers[w] EXCEPT !.at = "signalling"]
             ss == [s EXCEPT !.key = 1, !.holder = 0, !.frame = workers[w].frame,
                             !.sequence = rings[r].sequence + 1]
             rr == [rings[r] EXCEPT !.sequence = rings[r].sequence + 1, !.lock = w]
  <2>1. ww \in WorkerRecord /\ ww.at = "signalling" /\ ww.ring = r
    BY GoingTyped DEF AtRing
  <2>2. workers[w].frame \in Nat /\ 0 \in 0..Abandoned /\ w \in 0..WorkerCount
    BY Fields, BoundsAssumption DEF IndInv
  <2>3. /\ ss \in SlotRecord /\ ss.holder = 0 /\ ss.pixels = s.pixels
        /\ ss.frame = workers[w].frame /\ ss.sequence = rings[r].sequence + 1
    BY <1>2, <1>4, <2>2 DEF SlotRecord
  <2>4. rr \in RingRecord /\ rr.open = rings[r].open /\ rr.lock = w
        /\ rr.sequence = rings[r].sequence + 1
    BY <1>2, <1>4, <2>2 DEF RingRecord
  <2>5. /\ workers' = [workers EXCEPT ![w] = ww]
        /\ slots' = [slots EXCEPT ![r][i] = ss]
        /\ rings' = [rings EXCEPT ![r] = rr]
    BY <1>5, Zenon DEF Publishes, Goes
  <2>6. "signalling" \notin AtSlot /\ "signalling" \notin Holding /\ ss.holder # ByClient
    BY <2>3, BoundsAssumption DEF AtSlot, Holding
  <2> HIDE DEF ww, ss, rr
  <2>7. Allowed(w, ww, r, i, ss, rr)
    BY <1>1, <1>2, <1>3, <1>4, <2>1, <2>3, <2>4, <2>6 DEF Allowed
  <2> QED
    BY <1>1, <1>2, <2>1, <2>3, <2>4, <2>5, <2>7, WorkerStep
<1>6. CASE PublishFails(w)
  <2> DEFINE ss == [s EXCEPT !.holder = Abandoned]
             rr == [rings[r] EXCEPT !.sequence = rings[r].sequence + 1]
  <2>1. Abandoned \in 0..Abandoned /\ Abandoned # 0 /\ Abandoned # ByClient
    BY BoundsAssumption
  <2>2. ss \in SlotRecord /\ ss.holder = Abandoned /\ ss.sequence = s.sequence
    BY <1>2, <2>1 DEF SlotRecord
  <2>3. rr \in RingRecord /\ rr.open = rings[r].open /\ rr.sequence = rings[r].sequence + 1
    BY <1>2, <1>4 DEF RingRecord
  <2>4. /\ Leaves(w, "failed")
        /\ slots' = [slots EXCEPT ![r][i] = ss]
        /\ rings' = [rings EXCEPT ![r] = rr]
    BY <1>6, Zenon DEF PublishFails
  <2> HIDE DEF ss, rr
  <2>5. MayLeave(w, "failed", ss, rr)
    BY <1>2, <1>3, <1>4, <2>1, <2>2, <2>3 DEF MayLeave
  <2> QED
    BY <1>1, <2>2, <2>3, <2>4, <2>5, HolderLeaves
<1> QED
  BY <1>1, <1>5, <1>6

\* The gate is closed or left alone, by who may: the mutex is free or its own.
MayRetire(w, ww, r, rr) ==
    /\ workers[w].at # "absent" /\ ww.at \in Elsewhere /\ ww.ring < nextRing
    /\ r < nextRing \/ rr = rings[r]
    /\ rr = rings[r] \/ rings[r].lock \in {0, w}
    /\ rr.open => rings[r].open
    /\ rr.sequence = rings[r].sequence
    /\ workers[w].at = "failed" => workers[w].ring = r /\ ~rr.open

\* A step of a worker with its ring: it leaves the slots alone, and of the others the gate is not
\* theirs while it is free or the worker's.
LEMMA RingStep ==
  ASSUME IndInv, NEW w \in Workers, NEW ww \in WorkerRecord, NEW r \in Rings, NEW rr \in RingRecord,
         workers' = [workers EXCEPT ![w] = ww],
         rings' = [rings EXCEPT ![r] = rr],
         UNCHANGED <<slots, registered, nextRing, assigned, client>>,
         frames' \in Nat, faults' \in Nat,
         MayRetire(w, ww, r, rr)
  PROVE  IndInv'
<1>1. 1 \in Slots
  BY BoundsAssumption
<1>2. /\ slots[r][1] \in SlotRecord /\ slots' = [slots EXCEPT ![r][1] = slots[r][1]]
      /\ rings[r].sequence \in Nat
  BY <1>1, Fields, Same DEF IndInv
<1>3. /\ ww.at \notin AtRing /\ ww.at \notin AtSlot /\ ww.at \notin Holding
      /\ ww.at \notin {"signalling", "dropping", "publishing", "failed"}
  BY DEF AtRing, AtSlot, Holding, Elsewhere, MayRetire
<1>4. Allowed(w, ww, r, 1, slots[r][1], rr)
  BY <1>2, <1>3 DEF Allowed, MayRetire
<1> QED
  BY <1>1, <1>2, <1>4, WorkerStep

LEMMA RetiringKeeps ==
  ASSUME IndInv, NEW w \in Workers, Signals(w) \/ RetiresOwnRing(w) \/ ResetDevices(w),
         frames' \in Nat, faults' \in Nat
  PROVE  IndInv'
<1> DEFINE r == workers[w].ring
<1>w. workers[w] \in WorkerRecord /\ r < nextRing /\ 0 < nextRing /\ r \in 0..MaxRing
  BY PlacesExist, Fields DEF IndInv, TypeOK
<1>z. 0 \in 0..SlotCount /\ 0 \in 0..MaxRing /\ 1 \in Rings /\ 0 \in 0..WorkerCount
  BY BoundsAssumption
<1>1. CASE Signals(w)
  <2> DEFINE rr == [rings[r] EXCEPT !.event = TRUE, !.lock = 0]
  <2>1. r \in Rings /\ workers[w].at = "signalling" /\ rings[r].lock = w
    BY <1>1, PlacesExist DEF Signals, AtRing, IndInv, LooksStillTrue
  <2>2. rings[r] \in RingRecord
    BY <2>1, Fields DEF IndInv
  <2>3. rr \in RingRecord /\ rr.open = rings[r].open /\ rr.sequence = rings[r].sequence
    BY <2>2, <1>z DEF RingRecord
  <2>4. rings' = [rings EXCEPT ![r] = rr]
    BY <1>1, Zenon DEF Signals
  <2>5. Leaves(w, "waiting") /\ UNCHANGED <<slots, registered, nextRing, assigned, client>>
    BY <1>1 DEF Signals
  <2> DEFINE ww == LeftAt(w, "waiting")
  <2>6. ww \in WorkerRecord /\ ww.at = "waiting" /\ ww.ring = r /\ workers' = [workers EXCEPT ![w] = ww]
        /\ ww.at \in Elsewhere
    BY <2>5, LeavingTyped DEF Elsewhere
  <2> HIDE DEF rr, ww
  <2> QED
    BY <1>w, <2>1, <2>3, <2>4, <2>5, <2>6, RingStep DEF MayRetire
<1>2. ASSUME NEW q \in Rings, Unlocked(q)
      PROVE  /\ rings[q].lock = 0 /\ [rings[q] EXCEPT !.open = FALSE] \in RingRecord
             /\ ~[rings[q] EXCEPT !.open = FALSE].open
             /\ [rings[q] EXCEPT !.open = FALSE].sequence = rings[q].sequence
             /\ Closed(q) = [rings EXCEPT ![q] = [rings[q] EXCEPT !.open = FALSE]]
  <2>1. rings[q] \in RingRecord /\ q # 0
    BY BoundsAssumption, Fields DEF IndInv
  <2> QED
    BY <1>2, <2>1 DEF Unlocked, RingRecord, Closed
<1>3. CASE RetiresOwnRing(w)
  <2> DEFINE at == IF workers[w].at = "mismatched" THEN "waiting" ELSE "ended"
             ww == [workers[w] EXCEPT !.ring = 0, !.slot = 0, !.frame = 0, !.mode = NoMode, !.at = at]
             rr == [rings[r] EXCEPT !.open = FALSE]
  <2>1. r \in Rings /\ workers[w].at # "absent"
    BY <1>3, PlacesExist DEF RetiresOwnRing, AtRing
  <2>2. at \in Elsewhere
    BY DEF Elsewhere
  <2>3. UNCHANGED <<slots, registered, nextRing, assigned, client>> /\ Unlocked(r)
        /\ rings' = Closed(r)
    BY <1>3 DEF RetiresOwnRing
  <2>4. workers' = [workers EXCEPT ![w] = ww]
    BY <1>3, Zenon DEF RetiresOwnRing
  <2> HIDE DEF at
  <2>5. ww \in WorkerRecord /\ ww.at = at /\ ww.ring = 0
    BY <1>w, <1>z, <2>2 DEF WorkerRecord
  <2>6. /\ rr \in RingRecord /\ ~rr.open /\ rr.sequence = rings[r].sequence /\ rings[r].lock = 0
        /\ rings' = [rings EXCEPT ![r] = rr]
    BY <1>2, <2>1, <2>3
  <2> HIDE DEF ww, rr
  <2>7. MayRetire(w, ww, r, rr)
    BY <1>w, <2>1, <2>2, <2>5, <2>6 DEF MayRetire
  <2> QED
    BY <2>1, <2>3, <2>4, <2>5, <2>6, <2>7, RingStep
<1>4. CASE ResetDevices(w)
  <2> DEFINE ww == [NoWorker EXCEPT !.at = "destroyed", !.stop = TRUE]
  <2>1. UNCHANGED <<slots, registered, nextRing, assigned, client>> /\ Unlocked(r)
        /\ rings' = Closed(r) /\ workers' = [workers EXCEPT ![w] = ww] /\ workers[w].at = "ended"
    BY <1>4, Zenon DEF ResetDevices
  <2>2. ww \in WorkerRecord /\ ww.at \in Elsewhere /\ ww.ring = 0
    BY <1>z DEF WorkerRecord, NoWorker, Elsewhere
  <2> HIDE DEF ww
  <2>3. CASE r = 0
    <3>1. rings' = [rings EXCEPT ![1] = rings[1]] /\ rings[1] \in RingRecord
      BY <1>z, <2>1, <2>3, Same, Fields, BoundsAssumption DEF Closed, IndInv
    <3> QED
      BY <1>w, <1>z, <2>1, <2>2, <3>1, RingStep DEF MayRetire
  <2>4. CASE r \in Rings
    <3> DEFINE rr == [rings[r] EXCEPT !.open = FALSE]
    <3>1. /\ rr \in RingRecord /\ ~rr.open /\ rr.sequence = rings[r].sequence /\ rings[r].lock = 0
          /\ rings' = [rings EXCEPT ![r] = rr]
      BY <1>2, <2>1, <2>4
    <3> HIDE DEF rr
    <3>2. MayRetire(w, ww, r, rr)
      BY <1>w, <2>1, <2>2, <3>1 DEF MayRetire
    <3> QED
      BY <2>1, <2>2, <2>4, <3>1, <3>2, RingStep
  <2> QED
    BY <1>w, <2>3, <2>4
<1> QED
  BY <1>1, <1>3, <1>4

-----------------------------------------------------------------------------
(* The operating system, the control plane and the client.                 *)

LEMMA Zeros ==
  /\ 0 \in 0..SlotCount /\ 0 \in 0..MaxRing /\ 0 \in 0..MaxSequence /\ 0 \in 0..WorkerCount
  /\ MaxRing \in Nat /\ SlotCount \in Nat /\ WorkerCount \in Nat /\ MaxSequence \in Nat
BY BoundsAssumption

LEMMA AssignKeeps ==
  ASSUME IndInv, Assign
  PROVE  IndInv'
<1> DEFINE n == assigned + 1
           first == [NoWorker EXCEPT !.at = "waiting"]
<1>1. /\ assigned \in 0..WorkerCount /\ n \in Workers /\ assigned' = n /\ n > assigned
      /\ UNCHANGED <<rings, slots, registered, nextRing, frames, client, faults>>
  <2>1. assigned \in 0..WorkerCount /\ assigned < WorkerCount
    BY DEF Assign, IndInv, TypeOK
  <2> QED
    BY <2>1, Zeros DEF Assign
<1>2. first \in WorkerRecord /\ first.ring = 0 /\ first.at = "waiting"
  BY Zeros DEF WorkerRecord, NoWorker, Elsewhere
<1>3. \A w \in Workers :
          /\ workers[w] \in WorkerRecord
          /\ [workers[w] EXCEPT !.stop = TRUE] \in WorkerRecord
          /\ \A f \in {"at", "ring", "slot", "frame"} :
                 [workers[w] EXCEPT !.stop = TRUE][f] = workers[w][f]
  BY Fields DEF WorkerRecord, IndInv
<1>4. workers' = [w \in Workers |-> IF w = assigned THEN [workers[w] EXCEPT !.stop = TRUE]
                                    ELSE IF w = n THEN first ELSE workers[w]]
  BY DEF Assign
<1>5. /\ \A w \in Workers : w # n =>
             /\ workers'[w].at = workers[w].at /\ workers'[w].ring = workers[w].ring
             /\ workers'[w].slot = workers[w].slot /\ workers'[w].frame = workers[w].frame
      /\ workers'[n] = first
  <2> HIDE DEF n, first
  <2>1. n # assigned
    BY <1>1
  <2> QED
    BY <1>1, <1>3, <1>4, <2>1
<1>6. workers[n].at = "absent"
  BY <1>1 DEF IndInv, WorkersHold
<1> HIDE DEF n, first
<1>n. "waiting" \notin AtRing /\ "waiting" \notin AtSlot /\ "waiting" \notin Holding
  BY DEF AtRing, AtSlot, Holding
<1>7. TypeOK'
  <2>1. workers' \in [Workers -> WorkerRecord]
    BY <1>2, <1>3, <1>4
  <2>2. assigned' \in 0..WorkerCount
    BY <1>1, BoundsAssumption
  <2> QED
    BY <1>1, <2>1, <2>2 DEF IndInv, TypeOK
<1>8. RingsFresh'
  <2>1. 0 < nextRing
    BY DEF IndInv, TypeOK
  <2> QED
    BY <1>1, <1>2, <1>5, <2>1 DEF IndInv, RingsFresh
<1>9. WorkersHold'
  <2>1. n \in Nat
    BY <1>1
  <2> QED
    BY <1>1, <1>2, <1>5, <1>n, <2>1 DEF IndInv, WorkersHold
<1>10. ClientHolds' /\ SequencesDistinct'
  BY <1>1 DEF IndInv, ClientHolds, SequencesDistinct
<1>11. LooksStillTrue'
  BY <1>1, <1>2, <1>5 DEF IndInv, LooksStillTrue
<1>12. VisibleFramesWhole'
  BY <1>1, <1>5, <1>6 DEF IndInv, VisibleFramesWhole, Visible
<1> QED
  BY <1>7, <1>8, <1>9, <1>10, <1>11, <1>12 DEF IndInv

\* Closing a gate whose mutex is free.
LEMMA ClosingKeeps ==
  ASSUME IndInv, Unlocked(registered)
  PROVE  /\ Closed(registered) \in [Rings -> RingRecord]
         /\ \A r \in Rings :
                /\ Closed(registered)[r].open => rings[r].open
                /\ Closed(registered)[r].sequence = rings[r].sequence
                /\ rings[r].lock # 0 => Closed(registered)[r] = rings[r]
<1>1. rings \in [Rings -> RingRecord] /\ registered \in 0..MaxRing
  BY DEF IndInv, TypeOK
<1>2. CASE registered = 0
  BY <1>1, <1>2 DEF Closed
<1>3. CASE registered \in Rings
  <2> DEFINE rr == [rings[registered] EXCEPT !.open = FALSE]
  <2>1. rings[registered] \in RingRecord
    BY <1>1, <1>3
  <2>2. rr \in RingRecord /\ ~rr.open /\ rr.sequence = rings[registered].sequence
    BY <2>1 DEF RingRecord
  <2>3. Closed(registered) = [rings EXCEPT ![registered] = rr]
    BY <1>3, BoundsAssumption DEF Closed
  <2>4. rings[registered].lock = 0
    BY <1>3 DEF Unlocked
  <2> HIDE DEF rr
  <2> QED
    BY <1>1, <1>3, <2>2, <2>3, <2>4
<1> QED
  BY <1>1, <1>2, <1>3

\* The invariant when gates that are free close, and the rings of the client and of the display
\* change to ones that have been registered.
LEMMA ControlKeeps ==
  ASSUME IndInv, NEW R \in [Rings -> RingRecord], rings' = R,
         \A r \in Rings :
             /\ r < nextRing =>
                    /\ R[r].open => rings[r].open
                    /\ R[r].sequence = rings[r].sequence
                    /\ rings[r].lock # 0 => R[r] = rings[r]
             /\ r >= nextRing' => R[r] = rings[r],
         nextRing' \in {nextRing, nextRing + 1}, nextRing' \in 1..MaxRing + 1,
         registered' \in 0..MaxRing, registered' < nextRing',
         client' \in ClientRecord, client'.ring < nextRing', client'.slot = 0, ~client'.reading,
         UNCHANGED <<slots, workers, assigned, frames, faults>>
  PROVE  IndInv'
<1>1. TypeOK'
  BY DEF IndInv, TypeOK
<1>2. nextRing \in Nat /\ nextRing' \in Nat /\ nextRing <= nextRing'
  BY DEF IndInv, TypeOK
<1>3. RingsFresh'
  <2>1. ASSUME NEW r \in Rings, r >= nextRing'
        PROVE  ~R[r].open /\ \A i \in Slots : slots[r][i].key = 0 /\ slots[r][i].sequence = 0
    BY <1>2, <2>1 DEF IndInv, RingsFresh
  <2>2. \A w \in Workers : workers[w].ring < nextRing'
    BY <1>2, Fields DEF IndInv, RingsFresh
  <2> QED
    BY <2>1, <2>2 DEF RingsFresh
<1>4. WorkersHold' /\ ClientHolds'
  BY DEF IndInv, WorkersHold, ClientHolds
<1>5. LooksStillTrue'
  <2>1. ASSUME NEW w \in Workers
        PROVE  /\ workers[w].at = "signalling" =>
                      R[workers[w].ring].open /\ R[workers[w].ring].lock = w
               /\ workers[w].at = "dropping" => ~R[workers[w].ring].open
    <3>1. workers[w].at \in {"signalling", "dropping"} => workers[w].ring \in Rings
      BY PlacesExist DEF AtRing, AtSlot, Holding
    <3>2. workers[w].ring < nextRing /\ w # 0
      BY PlacesExist, BoundsAssumption
    <3> QED
      BY <3>1, <3>2 DEF IndInv, LooksStillTrue
  <2> QED
    BY <2>1 DEF IndInv, LooksStillTrue
<1>6. ASSUME NEW r \in Rings, r >= nextRing, NEW i \in Slots
      PROVE  slots[r][i].key = 0 /\ slots[r][i].sequence = 0
  BY <1>6 DEF IndInv, RingsFresh
<1>7. SequencesDistinct'
  <2>1. ASSUME NEW r \in Rings, NEW i \in Slots
        PROVE  slots[r][i].sequence <= R[r].sequence
    <3>1. R[r].sequence \in Nat
      BY DEF RingRecord
    <3> QED
      BY <1>2, <1>6, <3>1 DEF IndInv, SequencesDistinct
  <2> QED
    BY <2>1 DEF IndInv, SequencesDistinct
<1>8. VisibleFramesWhole'
  <2> SUFFICES ASSUME NEW r \in Rings, NEW i \in Slots, Visible(slots, r, i),
                      slots[r][i].pixels # slots[r][i].frame, R[r].open
               PROVE  \E w \in Workers : workers[w].ring = r /\ workers[w].at = "failed"
    BY DEF VisibleFramesWhole, Visible
  <2>1. r < nextRing
    BY <1>2, <1>6 DEF Visible
  <2> QED
    BY <2>1 DEF IndInv, VisibleFramesWhole
<1> QED
  BY <1>1, <1>3, <1>4, <1>5, <1>7, <1>8 DEF IndInv

LEMMA ControlPlaneKeeps ==
  ASSUME IndInv, RegisterRing \/ RetireRing \/ ClientReopens, faults' \in Nat
  PROVE  IndInv'
<1>t. /\ rings \in [Rings -> RingRecord] /\ registered \in 0..MaxRing /\ nextRing \in 1..MaxRing + 1
      /\ registered < nextRing /\ client \in ClientRecord /\ client.ring < nextRing /\ 0 \in 0..MaxRing
  BY Zeros DEF IndInv, TypeOK, RingsFresh
<1>c. \A r \in 0..MaxRing :
          LET c == [NoClient EXCEPT !.ring = r] IN
          c \in ClientRecord /\ c.ring = r /\ c.slot = 0 /\ ~c.reading
  BY Zeros DEF NoClient, ClientRecord
<1>1. CASE RegisterRing
  <2> DEFINE c == [NoClient EXCEPT !.ring = nextRing]
             fresh == NewRing(Target)
             R == [Closed(registered) EXCEPT ![nextRing] = fresh]
  <2>1. /\ nextRing \in Rings /\ nextRing \in 0..MaxRing /\ Unlocked(registered) /\ rings' = R
        /\ registered' = nextRing /\ nextRing' = nextRing + 1 /\ client' = c
        /\ UNCHANGED <<slots, workers, assigned, frames, faults>>
    BY <1>1, <1>t, BoundsAssumption DEF RegisterRing
  <2>2. Target \in Modes \cup {NoMode}
    <3>1. assigned \in 0..WorkerCount /\ workers \in [Workers -> WorkerRecord]
      BY DEF IndInv, TypeOK
    <3>2. assigned # 0 => workers[assigned].surface \in Modes \cup {NoMode}
      BY <3>1 DEF WorkerRecord
    <3> QED
      BY <3>2 DEF Target
  <2>3. fresh \in RingRecord
    BY <2>2, BoundsAssumption DEF NewRing, RingRecord
  <2>4. /\ R \in [Rings -> RingRecord]
        /\ \A r \in Rings : r # nextRing => R[r] = Closed(registered)[r]
    BY <2>1, <2>3, ClosingKeeps
  <2>5. \A r \in Rings : r >= nextRing + 1 => Closed(registered)[r] = rings[r]
    BY <1>t DEF Closed
  <2>6. c \in ClientRecord /\ c.ring = nextRing /\ c.slot = 0 /\ ~c.reading
    BY <1>c, <2>1
  <2> HIDE DEF R, c
  <2>7. /\ nextRing' \in 1..MaxRing + 1 /\ registered' < nextRing' /\ client'.ring < nextRing'
        /\ \A r \in Rings : (r < nextRing => r # nextRing) /\ (r >= nextRing' => r # nextRing)
    BY <1>t, <2>1, <2>6, Zeros
  <2>8. \A r \in Rings :
             /\ r < nextRing =>
                    /\ R[r].open => rings[r].open
                    /\ R[r].sequence = rings[r].sequence
                    /\ rings[r].lock # 0 => R[r] = rings[r]
             /\ r >= nextRing' => R[r] = rings[r]
    BY <2>1, <2>4, <2>5, <2>7, ClosingKeeps
  <2> QED
    BY <2>1, <2>4, <2>6, <2>7, <2>8, ControlKeeps
<1>2. CASE RetireRing
  <2>1. /\ Unlocked(registered) /\ rings' = Closed(registered) /\ registered' = 0 /\ registered # 0
        /\ UNCHANGED <<slots, nextRing, workers, assigned, frames, client>>
    BY <1>2 DEF RetireRing
  <2>2. \A r \in Rings : r >= nextRing => Closed(registered)[r] = rings[r]
    BY <1>t DEF Closed
  <2>3. TypeOK' /\ RingsFresh'
    <3>1. TypeOK'
      BY <1>t, <2>1, ClosingKeeps DEF IndInv, TypeOK
    <3> QED
      BY <1>t, <2>1, <2>2, <3>1 DEF IndInv, RingsFresh
  <2>4. WorkersHold' /\ ClientHolds'
    BY <2>1 DEF IndInv, WorkersHold, ClientHolds
  <2>5. LooksStillTrue'
    <3>1. ASSUME NEW w \in Workers
          PROVE  workers[w].at \in {"signalling", "dropping"} => workers[w].ring \in Rings
      BY PlacesExist DEF AtRing, AtSlot, Holding
    <3>2. \A w \in Workers : w # 0
      BY BoundsAssumption
    <3> QED
      BY <2>1, <3>1, <3>2, ClosingKeeps DEF IndInv, LooksStillTrue
  <2>6. SequencesDistinct' /\ VisibleFramesWhole'
    BY <2>1, ClosingKeeps DEF IndInv, SequencesDistinct, VisibleFramesWhole, Visible
  <2> QED
    BY <2>3, <2>4, <2>5, <2>6 DEF IndInv
<1>3. CASE ClientReopens
  <2>1. /\ client' = NoClient /\ UNCHANGED <<rings, slots, registered, nextRing, workers, assigned, frames, faults>>
    BY <1>3 DEF ClientReopens
  <2>2. NoClient \in ClientRecord /\ NoClient.ring = 0 /\ NoClient.slot = 0 /\ ~NoClient.reading
    BY Zeros DEF NoClient, ClientRecord
  <2>3. 0 < nextRing
    BY <1>t
  <2>4. \A r \in Rings :
             /\ r < nextRing =>
                    /\ rings[r].open => rings[r].open
                    /\ rings[r].sequence = rings[r].sequence
                    /\ rings[r].lock # 0 => rings[r] = rings[r]
             /\ r >= nextRing' => rings[r] = rings[r]
    OBVIOUS
  <2> QED
    BY <1>t, <2>1, <2>2, <2>3, <2>4, ControlKeeps
<1> QED
  BY <1>1, <1>2, <1>3

\* The client changes a slot that is free or its own, and shows no frame by that.
ClientMay(r, i, ss) ==
    /\ slots[r][i].holder \in {0, ByClient}
    /\ ss.sequence = slots[r][i].sequence
    /\ ss.key = 1 => /\ ss.pixels = slots[r][i].pixels /\ ss.frame = slots[r][i].frame
                     /\ slots[r][i].key = 1
    /\ ss.key = 0 \/ ss.key = 1

LEMMA ClientStep ==
  ASSUME IndInv, NEW r \in Rings, NEW i \in Slots, NEW ss \in SlotRecord,
         slots' = [slots EXCEPT ![r][i] = ss], ClientMay(r, i, ss),
         client' \in ClientRecord, client'.ring \in {0, client.ring},
         client'.slot # 0 => client'.ring # 0,
         client'.reading => client'.ring = r /\ client'.slot = i /\ ss.holder = ByClient,
         UNCHANGED <<rings, registered, nextRing, workers, assigned, frames>>, faults' \in Nat
  PROVE  IndInv'
<1>1. \A q \in Rings, j \in Slots :
          slots'[q][j] = IF q = r /\ j = i THEN ss ELSE slots[q][j]
  BY DEF IndInv, TypeOK
<1>2. TypeOK'
  BY DEF IndInv, TypeOK
<1>3. RingsFresh'
  <2>1. client.ring < nextRing /\ 0 < nextRing
    BY DEF IndInv, TypeOK, RingsFresh
  <2>2. ASSUME NEW q \in Rings, q >= nextRing, NEW j \in Slots
        PROVE  slots'[q][j].key = 0 /\ slots'[q][j].sequence = 0
    <3>1. slots[q][j].key = 0 /\ slots[q][j].sequence = 0
      BY <2>2 DEF IndInv, RingsFresh
    <3> QED
      BY <1>1, <3>1 DEF ClientMay
  <2> QED
    BY <2>1, <2>2 DEF IndInv, RingsFresh
<1>4. \A w \in Workers : w \notin {0, ByClient}
  BY BoundsAssumption
<1>5. WorkersHold'
  BY <1>1, <1>4, PlacesExist DEF IndInv, WorkersHold, ClientMay, AtSlot, AtRing
<1>6. ClientHolds'
  BY <1>1, BoundsAssumption DEF ClientHolds
<1>7. LooksStillTrue'
  <2>1. ASSUME NEW w \in Workers, workers[w].at = "publishing"
        PROVE  slots'[workers[w].ring][workers[w].slot] = slots[workers[w].ring][workers[w].slot]
    <3>1. /\ workers[w].ring \in Rings /\ workers[w].slot \in Slots
          /\ slots[workers[w].ring][workers[w].slot].holder = w
      BY <2>1, PlacesExist DEF AtRing, AtSlot, Holding
    <3> QED
      BY <1>1, <1>4, <3>1 DEF ClientMay
  <2> QED
    BY <2>1 DEF IndInv, LooksStillTrue
<1>8. SequencesDistinct'
  <2>1. \A q \in Rings, j \in Slots : slots'[q][j].sequence = slots[q][j].sequence
    BY <1>1 DEF ClientMay
  <2> QED
    BY <2>1 DEF IndInv, SequencesDistinct
<1>9. VisibleFramesWhole'
  <2>1. \A q \in Rings, j \in Slots :
            Visible(slots', q, j) /\ slots'[q][j].pixels # slots'[q][j].frame =>
                Visible(slots, q, j) /\ slots[q][j].pixels # slots[q][j].frame
    BY <1>1 DEF ClientMay, Visible
  <2> QED
    BY <2>1 DEF IndInv, VisibleFramesWhole
<1> QED
  BY <1>2, <1>3, <1>5, <1>6, <1>7, <1>8, <1>9 DEF IndInv

LEMMA NextSlotTyped ==
  ASSUME IndInv
  PROVE  /\ NextSlot \in ClientRecord /\ NextSlot.ring = client.ring /\ ~NextSlot.reading
         /\ \A n \in 0..MaxSequence :
                LET c == [NextSlot EXCEPT !.last = n] IN
                c \in ClientRecord /\ c.ring = client.ring /\ ~c.reading /\ c.slot = NextSlot.slot
<1>1. client \in ClientRecord
  BY DEF IndInv, TypeOK
<1>2. (IF client.slot = SlotCount THEN 0 ELSE client.slot + 1) \in 0..SlotCount
  BY <1>1, Zeros DEF ClientRecord
<1> QED
  BY <1>1, <1>2 DEF NextSlot, ClientRecord

LEMMA ClientKeeps ==
  ASSUME IndInv, Client \/ ClientDies, faults' \in Nat
  PROVE  IndInv'
<1> DEFINE r == client.ring
           i == client.slot
           s == slots[r][i]
<1>t. /\ client \in ClientRecord /\ r \in 0..MaxRing /\ i \in 0..SlotCount
      /\ (i # 0 => r \in Rings /\ i \in Slots)
      /\ (client.reading => i # 0 /\ s.holder = ByClient)
  BY Fields DEF IndInv, TypeOK, ClientHolds
<1>s. ASSUME r \in Rings, i \in Slots
      PROVE  /\ s \in SlotRecord /\ s.sequence \in 0..MaxSequence
             /\ \A k \in {0, 1}, h \in {0, ByClient, Abandoned} :
                    LET ss == [s EXCEPT !.key = k, !.holder = h] IN
                    /\ ss \in SlotRecord /\ ss.key = k /\ ss.holder = h
                    /\ ss.sequence = s.sequence /\ ss.pixels = s.pixels /\ ss.frame = s.frame
  <2>1. s \in SlotRecord /\ s.sequence \in 0..MaxSequence
    BY <1>s, Fields DEF IndInv
  <2>2. {0, ByClient, Abandoned} \subseteq 0..Abandoned
    BY Zeros
  <2> QED
    BY <2>1, <2>2 DEF SlotRecord
<1>1. CASE ClientWakes
  <2> DEFINE rr == [rings[r] EXCEPT !.event = FALSE]
             c == [client EXCEPT !.slot = 1]
  <2>a. r \in Rings /\ ~client.reading
    BY <1>1, <1>t, Zeros DEF ClientWakes, Rings
  <2>b. /\ rings' = [rings EXCEPT ![r] = rr] /\ client' = c
        /\ UNCHANGED <<slots, registered, nextRing, workers, assigned, frames, faults>>
    <3>1. rings' = [rings EXCEPT ![r].event = FALSE]
      BY <1>1, Zenon DEF ClientWakes
    <3>2. [rings EXCEPT ![r].event = FALSE] = [rings EXCEPT ![r] = rr]
      BY DEF IndInv, TypeOK
    <3> QED
      BY <1>1, <3>1, <3>2, Zenon DEF ClientWakes
  <2>1. /\ r \in Rings /\ rings' = [rings EXCEPT ![r] = rr] /\ client' = c /\ ~client.reading
        /\ UNCHANGED <<slots, registered, nextRing, workers, assigned, frames, faults>>
    BY <2>a, <2>b, Zenon
  <2>2. rings[r] \in RingRecord /\ 1 \in Slots
    BY <2>1, Fields, BoundsAssumption DEF IndInv
  <2>3. /\ rr \in RingRecord /\ rr.open = rings[r].open /\ rr.lock = rings[r].lock
        /\ rr.sequence = rings[r].sequence
    BY <2>2 DEF RingRecord
  <2>4. c \in ClientRecord /\ c.ring = r /\ c.reading = client.reading
    BY <1>t, <2>2 DEF ClientRecord
  <2> HIDE DEF rr, c
  <2>5. /\ rings' \in [Rings -> RingRecord]
        /\ \A q \in Rings : /\ rings'[q].open = rings[q].open /\ rings'[q].lock = rings[q].lock
                            /\ rings'[q].sequence = rings[q].sequence
    BY <2>1, <2>3 DEF IndInv, TypeOK
  <2>6. TypeOK' /\ RingsFresh'
    BY <2>1, <2>4, <2>5 DEF IndInv, TypeOK, RingsFresh
  <2>7. WorkersHold' /\ ClientHolds' /\ SequencesDistinct' /\ VisibleFramesWhole'
    BY <2>1, <2>4, <2>5, Zeros
    DEF IndInv, WorkersHold, ClientHolds, SequencesDistinct, VisibleFramesWhole, Visible
  <2>8. LooksStillTrue'
    <3>1. \A w \in Workers : workers[w].at \in {"signalling", "dropping"} => workers[w].ring \in Rings
      BY PlacesExist DEF AtRing, AtSlot, Holding
    <3> QED
      BY <2>1, <2>5, <3>1 DEF IndInv, LooksStillTrue
  <2> QED
    BY <2>6, <2>7, <2>8 DEF IndInv
<1>2. CASE ClientTries
  <2>1. i # 0 /\ r \in Rings /\ i \in Slots /\ ~client.reading
        /\ UNCHANGED <<rings, registered, nextRing, workers, assigned, frames, faults>>
    BY <1>2, <1>t DEF ClientTries
  <2>2. CASE s.holder = 0 /\ s.key = 1 /\ s.sequence > client.last
    <3> DEFINE ss == [s EXCEPT !.key = s.key, !.holder = ByClient]
               c == [client EXCEPT !.reading = TRUE]
    <3>1. slots' = [slots EXCEPT ![r][i] = [s EXCEPT !.holder = ByClient]] /\ client' = c
      BY <1>2, <2>2 DEF ClientTries
    <3>2. [s EXCEPT !.holder = ByClient] = ss
      BY <1>s, <2>1 DEF SlotRecord
    <3>3. ss \in SlotRecord /\ ss.holder = ByClient /\ ClientMay(r, i, ss)
      BY <1>s, <2>1, <2>2 DEF ClientMay
    <3>4. c \in ClientRecord /\ c.ring = r /\ c.slot = i /\ c.reading
      BY <1>t DEF ClientRecord
    <3>5. slots' = [slots EXCEPT ![r][i] = ss]
      BY <3>1, <3>2, Zenon
    <3> HIDE DEF ss, c
    <3>6. /\ client' \in ClientRecord /\ client'.ring \in {0, client.ring}
          /\ (client'.slot # 0 => client'.ring # 0)
          /\ (client'.reading => client'.ring = r /\ client'.slot = i /\ ss.holder = ByClient)
      BY <2>1, <3>1, <3>3, <3>4, Zeros
    <3> QED
      BY <2>1, <3>3, <3>5, <3>6, ClientStep
  <2>3. CASE s.holder = 0 /\ s.key = 1 /\ ~(s.sequence > client.last)
    <3> DEFINE ss == [s EXCEPT !.key = 0, !.holder = 0]
    <3>1. slots' = [slots EXCEPT ![r][i] = [s EXCEPT !.key = 0]] /\ client' = NextSlot
      BY <1>2, <2>3 DEF ClientTries
    <3>2. [s EXCEPT !.key = 0] = ss
      BY <1>s, <2>1, <2>3 DEF SlotRecord
    <3>3. ss \in SlotRecord /\ ClientMay(r, i, ss)
      BY <1>s, <2>1, <2>3 DEF ClientMay
    <3> HIDE DEF ss
    <3>4. /\ client' \in ClientRecord /\ client'.ring \in {0, client.ring}
          /\ (client'.slot # 0 => client'.ring # 0) /\ ~client'.reading
      BY <2>1, <3>1, NextSlotTyped
    <3> QED
      BY <2>1, <3>1, <3>2, <3>3, <3>4, ClientStep
  <2>4. CASE ~(s.holder = 0 /\ s.key = 1)
    <3>1. client' = NextSlot /\ slots' = slots
      BY <1>2, <2>4 DEF ClientTries
    <3>2. /\ client' \in ClientRecord /\ client'.ring = r /\ ~client'.reading /\ r # 0
      BY <2>1, <3>1, NextSlotTyped
    <3> QED
      BY <2>1, <3>1, <3>2
      DEF IndInv, TypeOK, RingsFresh, WorkersHold, ClientHolds, LooksStillTrue, SequencesDistinct,
          VisibleFramesWhole, Visible
  <2> QED
    BY <2>2, <2>3, <2>4
<1>3. CASE ClientReads
  <2> DEFINE ss == [s EXCEPT !.key = 0, !.holder = 0]
  <2>1. /\ r \in Rings /\ i \in Slots /\ i # 0 /\ s.holder = ByClient
        /\ slots' = [slots EXCEPT ![r][i] = ss]
        /\ client' = [NextSlot EXCEPT !.last = s.sequence]
        /\ UNCHANGED <<rings, registered, nextRing, workers, assigned, frames, faults>>
    BY <1>3, <1>t DEF ClientReads
  <2>2. ss \in SlotRecord /\ ClientMay(r, i, ss) /\ s.sequence \in 0..MaxSequence
    BY <1>s, <2>1 DEF ClientMay
  <2> HIDE DEF ss
  <2>3. /\ client' \in ClientRecord /\ client'.ring \in {0, client.ring}
        /\ (client'.slot # 0 => client'.ring # 0) /\ ~client'.reading
    BY <2>1, <2>2, NextSlotTyped, Zeros
  <2> QED
    BY <2>1, <2>2, <2>3, ClientStep
<1>4. CASE ClientDies
  <2>1. /\ client' = NoClient /\ UNCHANGED <<rings, registered, nextRing, workers, assigned, frames>>
    BY <1>4 DEF ClientDies
  <2>2. NoClient \in ClientRecord /\ NoClient.ring = 0 /\ NoClient.slot = 0 /\ ~NoClient.reading
    BY Zeros DEF NoClient, ClientRecord
  <2>3. CASE client.reading
    <3> DEFINE ss == [s EXCEPT !.key = s.key, !.holder = Abandoned]
    <3>1. /\ r \in Rings /\ i \in Slots /\ s.holder = ByClient
          /\ slots' = [slots EXCEPT ![r][i] = [s EXCEPT !.holder = Abandoned]]
      BY <1>4, <1>t, <2>3 DEF ClientDies
    <3>2. [s EXCEPT !.holder = Abandoned] = ss /\ s.key \in {0, 1}
      BY <1>s, <3>1 DEF SlotRecord
    <3>3. ss \in SlotRecord /\ ClientMay(r, i, ss)
      BY <1>s, <3>1, <3>2 DEF ClientMay
    <3> HIDE DEF ss
    <3> QED
      BY <2>1, <2>2, <3>1, <3>2, <3>3, ClientStep
  <2>4. CASE ~client.reading
    <3>1. slots' = slots /\ 0 < nextRing
      BY <1>4, <2>4 DEF ClientDies, IndInv, TypeOK
    <3> QED
      BY <2>1, <2>2, <3>1
      DEF IndInv, TypeOK, RingsFresh, WorkersHold, ClientHolds, LooksStillTrue, SequencesDistinct,
          VisibleFramesWhole, Visible
  <2> QED
    BY <2>3, <2>4
<1> QED
  BY <1>1, <1>2, <1>3, <1>4 DEF Client

-----------------------------------------------------------------------------
(* The theorems.                                                           *)

LEMMA NextKeeps == IndInv /\ [Next]_vars => IndInv'
<1> SUFFICES ASSUME IndInv, [Next]_vars
             PROVE  IndInv'
  OBVIOUS
<1>1. CASE UNCHANGED vars
  BY <1>1
  DEF vars, IndInv, TypeOK, RingsFresh, WorkersHold, ClientHolds, LooksStillTrue,
      SequencesDistinct, VisibleFramesWhole, Visible
<1>t. frames \in Nat /\ faults \in Nat /\ frames + 1 \in Nat /\ faults + 1 \in Nat
  BY DEF IndInv, TypeOK
<1>2. ASSUME NEW w \in Workers, Surface(w) \/ Works(w) \/ WorkerFaults(w)
      PROVE  IndInv'
  <2>1. CASE \/ \E m \in Modes \cup {NoMode} : AcquireSurface(w, m)
             \/ TakeSnapshot(w, registered) \/ TakeSnapshot(w, 0)
             \/ Stops(w) \/ FrameFails(w)
    <3>1. frames' \in Nat
      BY <1>t, <2>1 DEF AcquireSurface, TakeSnapshot, Stops, FrameFails
    <3>2. faults' \in Nat
      BY <1>2, <1>t, <2>1
      DEF Surface, Works, WorkerFaults, AcquireSurface, SnapshotFound, AcquireSlot, Copy, Releases,
          PublishGivesUp, Publishes, Signals, RetiresOwnRing, Stops, ResetDevices,
          SnapshotMissed, OpeningFails, CopyFails, PublishFails, FrameFails, Fault
    <3> QED
      BY <2>1, <3>1, <3>2, WaitingKeeps
  <2>2. CASE AcquireSlot(w)
    BY <1>t, <2>2, AcquireSlotKeeps DEF AcquireSlot
  <2>3. CASE Copy(w) \/ CopyFails(w)
    BY <1>t, <2>3, CopyingKeeps DEF Copy, CopyFails, Fault
  <2>4. CASE Releases(w) \/ PublishGivesUp(w)
    BY <1>t, <2>4, GivingBackKeeps DEF Releases, PublishGivesUp
  <2>5. CASE Publishes(w) \/ PublishFails(w)
    BY <1>t, <2>5, PublishingKeeps DEF Publishes, PublishFails, Fault
  <2>6. CASE Signals(w) \/ RetiresOwnRing(w) \/ ResetDevices(w)
    BY <1>t, <2>6, RetiringKeeps DEF Signals, RetiresOwnRing, ResetDevices
  <2> QED
    BY <1>2, <2>1, <2>2, <2>3, <2>4, <2>5, <2>6
    DEF Surface, Works, WorkerFaults, SnapshotFound, SnapshotMissed, OpeningFails
<1>3. CASE Assign
  BY <1>3, AssignKeeps
<1>4. CASE RegisterRing \/ RetireRing \/ ClientReopens
  BY <1>4, <1>t, ControlPlaneKeeps DEF RegisterRing, RetireRing, ClientReopens, Fault
<1>5. CASE Client \/ ClientDies
  BY <1>5, <1>t, ClientKeeps
  DEF Client, ClientWakes, ClientTries, ClientReads, ClientDies, Fault
<1> QED
  BY <1>1, <1>2, <1>3, <1>4, <1>5 DEF Next

\* The invariant: who holds the slots and the gates of the rings, and what stays true while they do.
THEOREM SlotsInvariant == Spec => []IndInv
<1> QED
  BY InitEstablishes, NextKeeps, PTL DEF Spec

\* A frame that the client can take has the pixels its metadata was written for, or the worker
\* that failed on it is about to close the gate (publish_frame_to_ring and
\* release_unpublished_slot, and the failure that retires the ring).
THEOREM FramesAlwaysWhole == Spec => []VisibleFramesWhole
<1>1. IndInv => VisibleFramesWhole
  BY DEF IndInv
<1> QED
  BY <1>1, SlotsInvariant, PTL

\* No two frames in the slots of a ring have the same number, though workers of two swapchains
\* number them: publish_frame_to_ring numbers a frame under the mutex of the gate.
THEOREM FramesNumberedApart == Spec => []SequencesDistinct
<1>1. IndInv => SequencesDistinct
  BY DEF IndInv
<1> QED
  BY <1>1, SlotsInvariant, PTL

-----------------------------------------------------------------------------
(* Retired rings.                                                          *)

\* What RetiredRingsStayDark says of a step.
StaysDark ==
    \A r \in Rings : ~rings[r].open /\ ~rings'[r].open =>
        /\ rings'[r].event => rings[r].event
        /\ \A i \in Slots : Visible(slots', r, i) => Visible(slots, r, i)

\* A slot of a ring that may be retired is left held, or for the workers, or was the client's.
LEMMA SlotStaysDark ==
  ASSUME IndInv, NEW r \in Rings, NEW i \in Slots, NEW ss,
         slots' = [slots EXCEPT ![r][i] = ss],
         \A q \in Rings : rings'[q].event => rings[q].event,
         ss.holder \in {0, ByClient} /\ ss.key = 1 => rings[r].open \/ Visible(slots, r, i)
  PROVE  StaysDark
<1>1. \A q \in Rings, j \in Slots :
          slots'[q][j] = IF q = r /\ j = i THEN ss ELSE slots[q][j]
  BY DEF IndInv, TypeOK
<1>2. ASSUME NEW q \in Rings, ~rings[q].open, NEW j \in Slots, Visible(slots', q, j)
      PROVE  Visible(slots, q, j)
  <2>1. CASE q = r /\ j = i
    BY <1>1, <1>2, <2>1 DEF Visible
  <2>2. CASE ~(q = r /\ j = i)
    BY <1>1, <1>2, <2>2 DEF Visible
  <2> QED
    BY <2>1, <2>2
<1> QED
  BY <1>2 DEF StaysDark

\* Closing a gate, its own mutex free or not, signals nothing.
LEMMA ClosedStaysDark ==
  ASSUME IndInv, NEW r \in 0..MaxRing, rings' = Closed(r), slots' = slots
  PROVE  StaysDark
<1>1. \A q \in Rings : rings'[q].event = rings[q].event
  <2>1. CASE r = 0
    BY <2>1 DEF Closed
  <2>2. CASE r \in Rings
    <3>1. rings[r] \in RingRecord /\ r # 0
      BY <2>2, Zeros, Fields DEF IndInv
    <3>2. rings' = [rings EXCEPT ![r] = [rings[r] EXCEPT !.open = FALSE]]
      BY <3>1 DEF Closed
    <3> QED
      BY <2>2, <3>1, <3>2 DEF IndInv, TypeOK, RingRecord
  <2> QED
    BY <2>1, <2>2
<1> QED
  BY <1>1 DEF StaysDark, Visible

LEMMA WorkersKeepDark ==
  ASSUME IndInv, NEW w \in Workers, Surface(w) \/ Works(w) \/ WorkerFaults(w)
  PROVE  StaysDark
<1> DEFINE r == workers[w].ring
           i == workers[w].slot
           s == slots[r][i]
<1>t. /\ r \in 0..MaxRing /\ w # 0 /\ w # ByClient /\ Abandoned # 0 /\ Abandoned # ByClient
      /\ workers[w].key \in {0, 1}
  BY Fields, Zeros DEF IndInv
<1>h. ASSUME workers[w].at \in AtSlot
      PROVE  r \in Rings /\ i \in Slots /\ s \in SlotRecord
  BY <1>h, PlacesExist, Fields DEF IndInv, AtRing
<1>1. CASE Surface(w) \/ SnapshotFound(w) \/ SnapshotMissed(w) \/ OpeningFails(w) \/ Stops(w) \/ FrameFails(w)
  <2>1. UNCHANGED <<rings, slots>>
    BY <1>1
    DEF Surface, SnapshotFound, SnapshotMissed, OpeningFails, Stops, FrameFails, AcquireSurface,
        TakeSnapshot
  <2> QED
    BY <2>1 DEF StaysDark, Visible
<1>2. CASE AcquireSlot(w)
  <2>1. CASE UNCHANGED slots
    BY <1>2, <2>1 DEF AcquireSlot, StaysDark, Visible
  <2>2. CASE slots' # slots
    <3> DEFINE ss == [s EXCEPT !.holder = w]
    <3>1. workers[w].at \in AtSlot /\ UNCHANGED rings
      BY <1>2 DEF AcquireSlot, AtSlot
    <3>2. slots' = [slots EXCEPT ![r][i].holder = w]
      BY <1>2, <2>2 DEF AcquireSlot
    <3>3. slots' = [slots EXCEPT ![r][i] = ss]
      BY <3>2, Zenon
    <3>4. r \in Rings /\ i \in Slots /\ ss.holder = w
      BY <1>h, <3>1 DEF SlotRecord
    <3> HIDE DEF ss
    <3> QED
      BY <1>t, <3>1, <3>3, <3>4, SlotStaysDark
  <2> QED
    BY <2>1, <2>2
<1>3. CASE Copy(w) \/ CopyFails(w)
  <2>1. workers[w].at = "copying" /\ UNCHANGED rings /\ (UNCHANGED slots \/ slots' = Copied(w))
    BY <1>3 DEF Copy, CopyFails
  <2>2. CASE UNCHANGED slots
    BY <2>1, <2>2 DEF StaysDark, Visible
  <2>3. CASE slots' = Copied(w)
    <3> DEFINE ss == [s EXCEPT !.pixels = workers[w].frame]
    <3>1. slots' = [slots EXCEPT ![r][i] = ss]
      BY <2>3, Zenon DEF Copied
    <3>2. r \in Rings /\ i \in Slots /\ s \in SlotRecord /\ s.holder = w
      BY <2>1, HeldSlot DEF Holding
    <3>3. ss.holder = w
      BY <3>2 DEF SlotRecord
    <3> HIDE DEF ss
    <3> QED
      BY <1>t, <2>1, <3>1, <3>2, <3>3, SlotStaysDark
  <2> QED
    BY <2>1, <2>2, <2>3
<1>4. CASE Releases(w) \/ PublishGivesUp(w)
  <2>1. PICK key \in {0, 1} :
            /\ workers[w].at \in Holding /\ UNCHANGED rings
            /\ slots' = GivenBack(w, key)
            /\ key = 1 => CanPublish(r)
    <3>1. CASE Releases(w)
      <4>1. /\ slots' = GivenBack(w, IF CanPublish(r) THEN workers[w].key ELSE 0)
            /\ workers[w].at \in Holding /\ UNCHANGED rings
        BY <3>1 DEF Releases, Holding
      <4> QED
        BY <1>t, <4>1
    <3>2. CASE PublishGivesUp(w)
      <4>1. workers[w].at \in Holding /\ UNCHANGED rings
        BY <3>2 DEF PublishGivesUp, Holding
      <4>2. \/ slots' = GivenBack(w, 0)
            \/ CanPublish(r) /\ slots' = GivenBack(w, workers[w].key)
        BY <3>2 DEF PublishGivesUp
      <4> QED
        BY <1>t, <4>1, <4>2
    <3> QED
      BY <1>4, <3>1, <3>2
  <2>2. PICK ss \in SlotRecord : slots' = [slots EXCEPT ![r][i] = ss] /\ ss.key = key
    BY <2>1, GivingBack
  <2>3. r \in Rings /\ i \in Slots
    BY <2>1, HeldSlot
  <2>4. ss.key = 1 => rings[r].open
    BY <2>1, <2>2 DEF CanPublish
  <2>5. slots' = [slots EXCEPT ![r][i] = ss] /\ \A q \in Rings : rings'[q].event => rings[q].event
    BY <2>1, <2>2
  <2> QED
    BY <2>3, <2>4, <2>5, SlotStaysDark
<1>5. CASE Publishes(w) \/ PublishFails(w)
  <2>1. workers[w].at \in Holding /\ CanPublish(r)
    BY <1>5 DEF Publishes, PublishFails, Holding
  <2>2. r \in Rings /\ i \in Slots /\ rings[r].open /\ rings[r] \in RingRecord
    BY <2>1, HeldSlot DEF CanPublish
  <2>3. \E ss : slots' = [slots EXCEPT ![r][i] = ss]
    BY <1>5, Zenon DEF Publishes, PublishFails
  <2>4. \E n, l : rings' = [rings EXCEPT ![r] = [rings[r] EXCEPT !.sequence = n, !.lock = l]]
    <3>1. CASE Publishes(w)
      BY <3>1, Zenon DEF Publishes
    <3>2. CASE PublishFails(w)
      <4> DEFINE n == rings[r].sequence + 1
      <4>1. rings' = [rings EXCEPT ![r] = [rings[r] EXCEPT !.sequence = n]]
        BY <3>2, Zenon DEF PublishFails
      <4>2. [rings[r] EXCEPT !.sequence = n]
                = [rings[r] EXCEPT !.sequence = n, !.lock = rings[r].lock]
        BY <2>2 DEF RingRecord
      <4> QED
        BY <4>1, <4>2
    <3> QED
      BY <1>5, <3>1, <3>2
  <2>5. \A q \in Rings : rings'[q].event => rings[q].event
    BY <2>2, <2>4 DEF IndInv, TypeOK, RingRecord
  <2> QED
    BY <2>2, <2>3, <2>5, SlotStaysDark
<1>6. CASE Signals(w)
  <2>1. workers[w].at = "signalling" /\ UNCHANGED slots
    BY <1>6 DEF Signals
  <2>2. r \in Rings /\ rings[r].open /\ rings[r] \in RingRecord
    BY <2>1, PlacesExist, Fields DEF IndInv, LooksStillTrue, AtRing
  <2>3. rings' = [rings EXCEPT ![r] = [rings[r] EXCEPT !.event = TRUE, !.lock = 0]]
    BY <1>6, Zenon DEF Signals
  <2>4. \A q \in Rings : ~rings[q].open => rings'[q] = rings[q]
    BY <2>2, <2>3 DEF IndInv, TypeOK
  <2> QED
    BY <2>1, <2>4 DEF StaysDark, Visible
<1>7. CASE RetiresOwnRing(w) \/ ResetDevices(w)
  BY <1>t, <1>7, ClosedStaysDark DEF RetiresOwnRing, ResetDevices
<1> QED
  BY <1>1, <1>2, <1>3, <1>4, <1>5, <1>6, <1>7 DEF Works, WorkerFaults

LEMMA ControlKeepsDark ==
  ASSUME IndInv, Assign \/ RegisterRing \/ RetireRing \/ ClientReopens
  PROVE  StaysDark
<1>1. CASE Assign \/ ClientReopens
  BY <1>1 DEF Assign, ClientReopens, StaysDark, Visible
<1>2. CASE RetireRing
  BY <1>2, ClosedStaysDark DEF RetireRing, IndInv, TypeOK
<1>3. CASE RegisterRing
  <2> DEFINE new == NewRing(Target)
  <2>1. /\ rings' = [Closed(registered) EXCEPT ![nextRing] = new] /\ UNCHANGED slots
        /\ Unlocked(registered) /\ nextRing <= MaxRing
    BY <1>3 DEF RegisterRing
  <2>2. registered \in 0..MaxRing /\ nextRing \in Rings
    BY <2>1, Zeros DEF IndInv, TypeOK
  <2>3. new.open
    BY DEF NewRing
  <2>4. ASSUME NEW q \in Rings, ~rings'[q].open
        PROVE  rings'[q].event = rings[q].event
    <3>1. Closed(registered) \in [Rings -> RingRecord]
      BY <2>1, ClosingKeeps
    <3> HIDE DEF new
    <3>2. q # nextRing /\ rings'[q] = Closed(registered)[q]
      BY <2>1, <2>2, <2>3, <2>4, <3>1
    <3>3. CASE registered = 0
      BY <3>2, <3>3 DEF Closed
    <3>4. CASE registered \in Rings
      <4>1. rings[registered] \in RingRecord /\ registered # 0
        BY <3>4, Zeros, Fields DEF IndInv
      <4>2. Closed(registered) = [rings EXCEPT ![registered] = [rings[registered] EXCEPT !.open = FALSE]]
        BY <4>1 DEF Closed
      <4> QED
        BY <3>2, <3>4, <4>1, <4>2 DEF IndInv, TypeOK, RingRecord
    <3> QED
      BY <2>2, <3>3, <3>4
  <2> HIDE DEF new
  <2> QED
    BY <2>1, <2>4 DEF StaysDark, Visible
<1> QED
  BY <1>1, <1>2, <1>3

LEMMA ClientKeepsDark ==
  ASSUME IndInv, Client \/ ClientDies
  PROVE  StaysDark
<1> DEFINE r == client.ring
           i == client.slot
           s == slots[r][i]
<1>t. /\ r \in 0..MaxRing /\ i \in 0..SlotCount /\ Abandoned # 0 /\ Abandoned # ByClient
      /\ (i # 0 => r \in Rings /\ i \in Slots /\ s \in SlotRecord)
      /\ (client.reading => i # 0)
  BY Fields, Zeros DEF IndInv, TypeOK, ClientHolds
<1>1. CASE ClientWakes
  <2>1. rings' = [rings EXCEPT ![r].event = FALSE] /\ UNCHANGED slots
    BY <1>1 DEF ClientWakes
  <2>2. \A q \in Rings : rings'[q].event => rings[q].event
    BY <2>1, Fields DEF IndInv, TypeOK, RingRecord
  <2> QED
    BY <2>1, <2>2 DEF StaysDark, Visible
<1>2. CASE UNCHANGED <<rings, slots>>
  BY <1>2 DEF StaysDark, Visible
<1>3. ASSUME i # 0, UNCHANGED rings, NEW k, NEW h,
             slots' = [slots EXCEPT ![r][i] = [s EXCEPT !.key = k, !.holder = h]],
             h \in {0, ByClient} /\ k = 1 => Visible(slots, r, i)
      PROVE  StaysDark
  <2> DEFINE ss == [s EXCEPT !.key = k, !.holder = h]
  <2>1. ss.key = k /\ ss.holder = h
    BY <1>t, <1>3 DEF SlotRecord
  <2> HIDE DEF ss
  <2> QED
    BY <1>t, <1>3, <2>1, SlotStaysDark DEF ss
<1>4. CASE ClientTries /\ slots' # slots
  <2>1. /\ i # 0 /\ UNCHANGED rings /\ s.holder = 0 /\ s.key = 1
    BY <1>4 DEF ClientTries
  <2>a. \/ slots' = [slots EXCEPT ![r][i].holder = ByClient]
        \/ slots' = [slots EXCEPT ![r][i].key = 0]
    BY <1>4, Zenon DEF ClientTries
  <2>2. /\ [s EXCEPT !.holder = ByClient] = [s EXCEPT !.key = 1, !.holder = ByClient]
        /\ [s EXCEPT !.key = 0] = [s EXCEPT !.key = 0, !.holder = 0]
    BY <1>t, <2>1 DEF SlotRecord
  <2>3. Visible(slots, r, i)
    BY <2>1 DEF Visible
  <2>4. CASE slots' = [slots EXCEPT ![r][i].holder = ByClient]
    <3>1. slots' = [slots EXCEPT ![r][i] = [s EXCEPT !.key = 1, !.holder = ByClient]]
      BY <2>2, <2>4, Zenon
    <3> QED
      BY <1>3, <2>1, <2>3, <3>1
  <2>5. CASE slots' = [slots EXCEPT ![r][i].key = 0]
    <3>1. slots' = [slots EXCEPT ![r][i] = [s EXCEPT !.key = 0, !.holder = 0]]
      BY <2>2, <2>5, Zenon
    <3> QED
      BY <1>3, <2>1, <2>3, <3>1
  <2> QED
    BY <2>4, <2>5, <2>a
<1>5. CASE ClientReads
  <2>1. /\ i # 0 /\ UNCHANGED rings
        /\ slots' = [slots EXCEPT ![r][i] = [s EXCEPT !.key = 0, !.holder = 0]]
    BY <1>5, <1>t DEF ClientReads
  <2>2. 0 \in {0, ByClient} /\ 0 = 1 => Visible(slots, r, i)
    OBVIOUS
  <2> QED
    BY <1>3, <2>1, <2>2, Zenon
<1>6. CASE ClientDies /\ client.reading
  <2>1. i # 0 /\ UNCHANGED rings /\ slots' = [slots EXCEPT ![r][i].holder = Abandoned]
    BY <1>6, <1>t DEF ClientDies
  <2>2. [s EXCEPT !.holder = Abandoned] = [s EXCEPT !.key = s.key, !.holder = Abandoned]
    BY <1>t, <2>1 DEF SlotRecord
  <2>3. slots' = [slots EXCEPT ![r][i] = [s EXCEPT !.key = s.key, !.holder = Abandoned]]
    BY <2>1, <2>2, Zenon
  <2> QED
    BY <1>t, <1>3, <2>1, <2>3
<1>7. CASE ClientDies /\ ~client.reading
  BY <1>2, <1>7 DEF ClientDies
<1>8. CASE ClientTries /\ slots' = slots
  BY <1>2, <1>8 DEF ClientTries
<1> QED
  BY <1>1, <1>4, <1>5, <1>6, <1>7, <1>8 DEF Client

\* Once the gate of a ring is closed no frame appears in its slots and its event is not signalled:
\* the workers that were copying or publishing look at the gate again under its mutex, and give
\* their slots back under key 0 (FrameRingPublication and release_unpublished_slot).
THEOREM RetiredRingsDark == Spec => RetiredRingsStayDark
<1>1. IndInv /\ [Next]_vars => StaysDark
  <2> SUFFICES ASSUME IndInv, [Next]_vars
               PROVE  StaysDark
    OBVIOUS
  <2>1. CASE UNCHANGED vars
    BY <2>1 DEF vars, StaysDark, Visible
  <2>2. CASE Next
    BY <2>2, WorkersKeepDark, ControlKeepsDark, ClientKeepsDark DEF Next
  <2> QED
    BY <2>1, <2>2
<1>2. IndInv /\ [Next]_vars => [StaysDark]_vars
  BY <1>1
<1> QED
  BY <1>2, SlotsInvariant, PTL DEF Spec, RetiredRingsStayDark, StaysDark
=============================================================================
