---------------------------- MODULE FrameRing_proofs ----------------------------
(***************************************************************************)
(* Open rings are accounted for, for every number of displays, clients,    *)
(* cookies and ring generations, and whatever the display store does in    *)
(* between.                                                                *)
(*                                                                         *)
(* A ring may stay in the table after its entry let go of it (its producer *)
(* closed the gate), and an entry may go while such a ring stays.  What    *)
(* never happens is that the gate of a ring is open and the entry does not *)
(* name it; and a registration opens no gate but its own because ring      *)
(* generations are fresh: they are counted up, and 0 ends the counting.    *)
(*                                                                         *)
(* Late duplicates are fenced: the server forgets the cookies of a display *)
(* only at a clock reading at which its lease has run out, and from then   *)
(* on nobody who reads the clock later is authorized for it.  A request    *)
(* that read it earlier, or a feed that did and brought the lease back, is *)
(* where the history of the cookies starts anew.                           *)
(***************************************************************************)
EXTENDS FrameRing, TLAPS

EntryTables == [DisplayIds -> EntryRecord \cup {NoEntry}]
RingTables == [DisplayIds -> RingRecord \cup {NoRing}]

TablesTyped ==
    /\ entries \in EntryTables
    /\ rings \in RingTables
    /\ nextRing \in 0..MaxRing

Names(e, ring) ==
    /\ e # NoEntry
    /\ e.ring = ring.ring /\ e.generation = ring.generation
    /\ e.lease = ring.lease /\ e.owner = ring.owner

RingsFresh ==
    \A d \in DisplayIds : rings[d] # NoRing => nextRing = 0 \/ rings[d].ring < nextRing

\* The rings of table R whose gate is open are named by the entries of E.
OpenNamed(R, E) ==
    \A d \in DisplayIds : R[d] # NoRing /\ R[d].ring \in enabled => Names(E[d], R[d])

IndInv ==
    /\ TablesTyped
    /\ enabled \subseteq NumbersOf(rings)
    /\ RingsFresh
    /\ OpenNamed(rings, entries)

-----------------------------------------------------------------------------
(* What the operators of the server return.                                *)

\* A request carries the lease, generation, owner, process and cookie of its client.
RequestRecord ==
    [display : DisplayIds, lease : LeaseIds, generation : 1..MaxGeneration, owner : Capabilities,
     peer : Peers, cookie : Cookies]

LEMMA RequestsTyped == Requests \subseteq RequestRecord
<1> SUFFICES ASSUME NEW d \in DisplayIds, NEW o \in Owner, NEW p \in Peers, NEW c \in Cookies
             PROVE  Request(d, o, p, c) \in RequestRecord
  BY DEF Requests
<1> QED
  BY DEF Request, RequestRecord, Owner

\* Entries and rings that requests make are records of their tables.
LEMMA RecordsMade ==
  ASSUME NEW r \in Requests, NEW g \in 0..MaxRing
  PROVE  /\ Entry(r, g) \in EntryRecord
         /\ g # 0 => Ring(r, g) \in RingRecord
<1>1. r \in RequestRecord
  BY RequestsTyped
<1>2. Entry(r, g) \in EntryRecord
  BY <1>1 DEF Entry, EntryRecord, RequestRecord
<1>3. ASSUME g # 0
      PROVE  Ring(r, g) \in RingRecord
  BY <1>1, <1>3, BoundsAssumption DEF Ring, RingRecord, RequestRecord
<1> QED
  BY <1>2, <1>3

\* The number of a registered ring is a generation.
LEMMA RingNumbers ==
  ASSUME NEW ring \in RingRecord
  PROVE  ring.ring \in 1..MaxRing
BY DEF RingRecord

\* An entry keeps its type when its ring or its cookie changes.
LEMMA EntryChanged ==
  ASSUME NEW e \in EntryRecord, NEW r \in Requests
  PROVE  /\ [e EXCEPT !.ring = 0] \in EntryRecord
         /\ [e EXCEPT !.cookie = r.cookie, !.ring = 0] \in EntryRecord
<1>1. r.cookie \in Cookies
  BY RequestsTyped DEF RequestRecord
<1>2. 0 \in 0..MaxRing
  BY BoundsAssumption
<1> QED
  BY <1>1, <1>2 DEF EntryRecord

\* The reap that opens every request takes rings away and replaces none, and the entries it
\* leaves name every open ring it leaves.
LEMMA ReapKeepsNames ==
  ASSUME IndInv, NEW t
  PROVE  /\ EntriesAfterReap(t) \in EntryTables
         /\ RingsAfterReap(t) \in RingTables
         /\ \A d \in DisplayIds : RingsAfterReap(t)[d] \in {rings[d], NoRing}
         /\ OpenNamed(RingsAfterReap(t), EntriesAfterReap(t))
<1> DEFINE E == EntriesAfterReap(t)
           R == RingsAfterReap(t)
<1>1. E \in EntryTables
  <2>1. ASSUME NEW d \in DisplayIds
        PROVE  E[d] \in EntryRecord \cup {NoEntry}
    <3>1. entries[d] \in EntryRecord \cup {NoEntry}
      BY DEF IndInv, TablesTyped, EntryTables
    <3>2. E[d] \in {NoEntry, entries[d], [entries[d] EXCEPT !.ring = 0]}
      BY Zenon DEF EntriesAfterReap
    <3>3. entries[d] # NoEntry => [entries[d] EXCEPT !.ring = 0] \in EntryRecord
      <4>1. 0 \in 0..MaxRing
        BY BoundsAssumption
      <4> QED
        BY <3>1, <4>1 DEF EntryRecord
    <3>4. entries[d] = NoEntry => E[d] = NoEntry
      BY DEF EntriesAfterReap
    <3> QED
      BY <3>1, <3>2, <3>3, <3>4
  <2> QED
    BY <2>1 DEF EntryTables, EntriesAfterReap
<1>2. \A d \in DisplayIds : R[d] \in {rings[d], NoRing}
  BY Zenon DEF RingsAfterReap
<1>3. R \in RingTables
  BY <1>2 DEF RingsAfterReap, RingTables, IndInv, TablesTyped
<1>4. ASSUME NEW d \in DisplayIds, R[d] # NoRing, R[d].ring \in enabled
      PROVE  Names(E[d], R[d])
  <2>1. R[d] = rings[d] /\ Names(entries[d], rings[d])
    BY <1>2, <1>4 DEF IndInv, OpenNamed
  <2>2. Authorized(d, entries[d], t) <=> Authorized(d, rings[d], t)
    BY <2>1 DEF Names, Authorized
  <2>3. Authorized(d, entries[d], t)
    BY <1>4, <2>1, <2>2 DEF Names, RingsAfterReap
  <2>4. Publishable(d, t)
    BY <1>4, <2>1, <2>2, <2>3 DEF Names, Publishable
  <2>5. E[d] = entries[d]
    BY <2>1, <2>3, <2>4 DEF EntriesAfterReap, Names
  <2> QED
    BY <2>1, <2>5
<1> QED
  BY <1>1, <1>2, <1>3, <1>4 DEF OpenNamed

\* Taking rings out of the table, with their publication revoked, keeps the invariant, if the
\* new entries name every open ring that stays.
LEMMA ReplacingKeeps ==
  ASSUME IndInv, NEW R \in RingTables, ReplaceRings(R),
         \A d \in DisplayIds : R[d] \in {rings[d], NoRing},
         entries' \in EntryTables, nextRing' = nextRing,
         OpenNamed(R, entries')
  PROVE  IndInv'
<1>1. enabled' \subseteq enabled /\ enabled' \subseteq NumbersOf(R)
  BY DEF ReplaceRings, IndInv
<1>2. rings' = R /\ NumbersOf(R) = NumbersOf(rings)'
  BY DEF ReplaceRings, NumbersOf
<1>3. TablesTyped'
  BY <1>2 DEF TablesTyped, IndInv
<1>4. RingsFresh'
  BY <1>2 DEF RingsFresh, IndInv
<1>5. OpenNamed(rings, entries)'
  BY <1>1, <1>2 DEF OpenNamed
<1> QED
  BY <1>1, <1>2, <1>3, <1>4, <1>5 DEF IndInv

\* Retiring the ring an entry names leaves the entry free to change: if its display has an open
\* ring at all, it is that one.
LEMMA RetiringFreesEntry ==
  ASSUME NEW R \in RingTables, NEW E \in EntryTables, OpenNamed(R, E),
         NEW d \in DisplayIds, NEW e,
         NEW R2, R2 = IF E[d] = NoEntry THEN R ELSE Retire(R, d, E[d].generation, E[d].ring)
  PROVE  /\ R2 \in RingTables
         /\ \A x \in DisplayIds : R2[x] \in {R[x], NoRing}
         /\ OpenNamed(R2, [E EXCEPT ![d] = e])
<1>1. R2 \in RingTables /\ \A x \in DisplayIds : R2[x] \in {R[x], NoRing}
  <2>1. R2 = R \/ R2 = [R EXCEPT ![d] = NoRing]
    BY Zenon DEF Retire
  <2> QED
    BY <2>1 DEF RingTables
<1>2. ASSUME NEW x \in DisplayIds, R2[x] # NoRing, R2[x].ring \in enabled
      PROVE  Names([E EXCEPT ![d] = e][x], R2[x])
  <2>1. R2[x] = R[x] /\ Names(E[x], R[x])
    BY <1>1, <1>2 DEF OpenNamed
  <2>2. x # d
    <3> SUFFICES ASSUME x = d
                 PROVE  FALSE
      OBVIOUS
    <3>1. R[d] # NoRing /\ E[d] # NoEntry
          /\ R[d].generation = E[d].generation /\ R[d].ring = E[d].ring
      BY <1>2, <2>1 DEF Names
    <3>2. R2 = [R EXCEPT ![d] = NoRing]
      BY <3>1 DEF Retire
    <3> QED
      BY <1>2, <3>2 DEF RingTables
  <2>3. [E EXCEPT ![d] = e][x] = E[x]
    BY <2>2 DEF EntryTables
  <2> QED
    BY <2>1, <2>3
<1> QED
  BY <1>1, <1>2 DEF OpenNamed

\* Retiring whose owners are unauthorized only takes rings away.
LEMMA UnavailableTaken ==
  ASSUME NEW R \in RingTables, NEW t
  PROVE  /\ RetireUnavailable(R, t) \in RingTables
         /\ \A d \in DisplayIds : RetireUnavailable(R, t)[d] \in {R[d], NoRing}
<1>1. \A d \in DisplayIds : RetireUnavailable(R, t)[d] \in {R[d], NoRing}
  BY Zenon DEF RetireUnavailable
<1> QED
  BY <1>1 DEF RetireUnavailable, RingTables

\* What takes rings away keeps the others named.
LEMMA TakingKeepsNames ==
  ASSUME NEW R, NEW R2, NEW E, OpenNamed(R, E),
         \A d \in DisplayIds : R2[d] \in {R[d], NoRing}
  PROVE  OpenNamed(R2, E)
BY DEF OpenNamed

-----------------------------------------------------------------------------
(* The invariant.                                                          *)

\* The device starts without rings.
LEMMA InitEstablishes == Init => IndInv
<1> SUFFICES ASSUME Init
             PROVE  IndInv
  OBVIOUS
<1>1. TablesTyped
  BY BoundsAssumption DEF Init, TablesTyped, EntryTables, RingTables
<1> QED
  BY <1>1 DEF Init, IndInv, RingsFresh, OpenNamed, NumbersOf

\* A registration retires the ring of its display and opens its own, whose number is new.
LEMMA RegisterKeeps ==
  ASSUME IndInv, NEW r \in Requests, NEW t, Register(r, t)
  PROVE  IndInv'
<1> DEFINE d == r.display
           E == EntriesAfterReap(t)
           R == RetireUnavailable(RingsAfterReap(t), t)
           new == Ring(r, nextRing)
<1>1. d \in DisplayIds
  BY RequestsTyped DEF RequestRecord
<1>2. nextRing \in 1..MaxRing /\ new \in RingRecord /\ Entry(r, nextRing) \in EntryRecord
  BY RecordsMade, BoundsAssumption DEF Register, IndInv, TablesTyped
<1>3. /\ E \in EntryTables /\ R \in RingTables
      /\ \A x \in DisplayIds : R[x] \in {rings[x], NoRing}
      /\ OpenNamed(R, E)
  <2>1. /\ E \in EntryTables /\ RingsAfterReap(t) \in RingTables
        /\ \A x \in DisplayIds : RingsAfterReap(t)[x] \in {rings[x], NoRing}
        /\ OpenNamed(RingsAfterReap(t), E)
    BY ReapKeepsNames
  <2>2. /\ R \in RingTables
        /\ \A x \in DisplayIds : R[x] \in {RingsAfterReap(t)[x], NoRing}
    BY <2>1, UnavailableTaken
  <2> QED
    BY <2>1, <2>2, TakingKeepsNames
<1> HIDE DEF R, E
<1>4. /\ entries' = [E EXCEPT ![d] = Entry(r, nextRing)]
      /\ rings' = [R EXCEPT ![d] = new]
      /\ enabled' = (enabled \ (NumbersOf(rings) \ NumbersOf([R EXCEPT ![d] = NoRing]))) \cup {nextRing}
      /\ nextRing' = (nextRing + 1) % (MaxRing + 1)
  BY DEF Register, R, E
<1>5. new.ring = nextRing /\ new # NoRing
  BY <1>2, NullsAssumption DEF Ring
<1>6. nextRing' \in 0..MaxRing /\ (nextRing' = 0 \/ nextRing' = nextRing + 1)
  BY <1>2, <1>4, BoundsAssumption
<1>7. TablesTyped'
  BY <1>1, <1>2, <1>3, <1>4, <1>6 DEF TablesTyped, EntryTables, RingTables
<1>8. ASSUME NEW x \in DisplayIds, x # d, rings'[x] # NoRing
      PROVE  rings'[x] = rings[x] /\ rings'[x] = R[x] /\ rings'[x].ring \in Int
             /\ rings'[x].ring < nextRing
  <2>1. rings'[x] = R[x] /\ R[x] = rings[x]
    BY <1>3, <1>4, <1>8 DEF RingTables
  <2>2. rings[x].ring \in 1..MaxRing
    BY <1>8, <2>1, RingNumbers DEF IndInv, TablesTyped, RingTables
  <2> QED
    BY <1>2, <1>8, <2>1, <2>2 DEF IndInv, RingsFresh
<1>9. rings'[d] = new
  BY <1>1, <1>3, <1>4 DEF RingTables
<1>10. RingsFresh'
  <2> SUFFICES ASSUME NEW x \in DisplayIds, rings'[x] # NoRing, nextRing' # 0
               PROVE  rings'[x].ring < nextRing'
    BY DEF RingsFresh
  <2>1. CASE x = d
    BY <1>2, <1>5, <1>6, <1>9, <2>1
  <2>2. CASE x # d
    BY <1>2, <1>6, <1>8, <2>2
  <2> QED
    BY <2>1, <2>2
<1>11. enabled' \subseteq NumbersOf(rings)'
  <2> SUFFICES ASSUME NEW g \in enabled'
               PROVE  \E x \in DisplayIds : rings'[x] # NoRing /\ rings'[x].ring = g
    BY DEF NumbersOf
  <2>1. CASE g = nextRing
    BY <1>1, <1>5, <1>9, <2>1
  <2>2. CASE g # nextRing
    <3>1. g \in NumbersOf([R EXCEPT ![d] = NoRing])
      BY <1>4, <2>2 DEF IndInv
    <3>2. PICK x \in DisplayIds : [R EXCEPT ![d] = NoRing][x] # NoRing
                                  /\ [R EXCEPT ![d] = NoRing][x].ring = g
      BY <3>1 DEF NumbersOf
    <3>3. x # d /\ rings'[x] = R[x] /\ [R EXCEPT ![d] = NoRing][x] = R[x]
      BY <1>3, <1>4, <3>2 DEF RingTables
    <3> QED
      BY <3>2, <3>3
  <2> QED
    BY <2>1, <2>2
<1>12. OpenNamed(rings, entries)'
  <2> SUFFICES ASSUME NEW x \in DisplayIds, rings'[x] # NoRing, rings'[x].ring \in enabled'
               PROVE  Names(entries'[x], rings'[x])
    BY DEF OpenNamed
  <2>1. CASE x = d
    <3>1. entries'[d] = Entry(r, nextRing)
      BY <1>1, <1>3, <1>4 DEF EntryTables
    <3> QED
      BY <1>2, <1>9, <2>1, <3>1, NullsAssumption DEF Names, Entry, Ring
  <2>2. CASE x # d
    <3>1. entries'[x] = E[x]
      BY <1>3, <1>4, <2>2 DEF EntryTables
    <3>2. rings'[x].ring # nextRing
      BY <1>2, <1>8, <2>2
    <3>3. rings'[x].ring \in enabled
      BY <1>4, <3>2
    <3> QED
      BY <1>3, <1>8, <2>2, <3>1, <3>3 DEF OpenNamed
  <2> QED
    BY <2>1, <2>2
<1> QED
  BY <1>7, <1>10, <1>11, <1>12 DEF IndInv

\* A request that is refused only reaps, and the reaper retires once more.
LEMMA ReapingKeeps ==
  ASSUME IndInv, NEW t, entries' = EntriesAfterReap(t), nextRing' = nextRing,
         NEW R, ReplaceRings(R),
         R = RingsAfterReap(t) \/ R = RetireUnavailable(RingsAfterReap(t), now)
  PROVE  IndInv'
<1>1. /\ EntriesAfterReap(t) \in EntryTables
      /\ RingsAfterReap(t) \in RingTables
      /\ \A d \in DisplayIds : RingsAfterReap(t)[d] \in {rings[d], NoRing}
      /\ OpenNamed(RingsAfterReap(t), EntriesAfterReap(t))
  BY ReapKeepsNames
<1>2. /\ R \in RingTables
      /\ \A d \in DisplayIds : R[d] \in {RingsAfterReap(t)[d], NoRing}
  BY <1>1, UnavailableTaken
<1>3. OpenNamed(R, entries')
  BY <1>1, <1>2, TakingKeepsNames
<1>4. \A d \in DisplayIds : R[d] \in {rings[d], NoRing}
  BY <1>1, <1>2
<1> QED
  BY <1>1, <1>2, <1>3, <1>4, ReplacingKeeps

\* A registration that fails and a clear change the entry of a display and retire its ring.
LEMMA RetiringKeeps ==
  ASSUME IndInv, NEW t, NEW d \in DisplayIds, NEW e \in EntryRecord,
         entries' = [EntriesAfterReap(t) EXCEPT ![d] = e], nextRing' = nextRing,
         ReplaceRings(IF EntriesAfterReap(t)[d] = NoEntry THEN RingsAfterReap(t)
                      ELSE Retire(RingsAfterReap(t), d, EntriesAfterReap(t)[d].generation,
                                  EntriesAfterReap(t)[d].ring))
  PROVE  IndInv'
<1> DEFINE E == EntriesAfterReap(t)
           R == RingsAfterReap(t)
           R2 == IF E[d] = NoEntry THEN R ELSE Retire(R, d, E[d].generation, E[d].ring)
<1>1. /\ E \in EntryTables /\ R \in RingTables
      /\ \A x \in DisplayIds : R[x] \in {rings[x], NoRing}
      /\ OpenNamed(R, E)
  BY ReapKeepsNames
<1>2. entries' = [E EXCEPT ![d] = e] /\ ReplaceRings(R2)
  OBVIOUS
<1> HIDE DEF E, R
<1>3. /\ R2 \in RingTables
      /\ \A x \in DisplayIds : R2[x] \in {R[x], NoRing}
      /\ OpenNamed(R2, entries')
  <2>1. R2 = IF E[d] = NoEntry THEN R ELSE Retire(R, d, E[d].generation, E[d].ring)
    OBVIOUS
  <2> HIDE DEF R2
  <2>2. OpenNamed(R2, [E EXCEPT ![d] = e])
    BY <1>1, <2>1, RetiringFreesEntry
  <2>3. R2 \in RingTables /\ \A x \in DisplayIds : R2[x] \in {R[x], NoRing}
    BY <1>1, <2>1, RetiringFreesEntry
  <2> QED
    BY <1>2, <2>2, <2>3
<1>4. entries' \in EntryTables
  BY <1>1, <1>2 DEF EntryTables
<1>5. \A x \in DisplayIds : R2[x] \in {rings[x], NoRing}
  BY <1>1, <1>3
<1> HIDE DEF R2
<1> QED
  BY <1>2, <1>3, <1>4, <1>5, ReplacingKeeps

\* A clear stores an entry without a ring.
LEMMA ClearedEntry ==
  ASSUME IndInv, NEW r \in Requests, NEW t, NEW e, e = EntriesAfterReap(t)[r.display]
  PROVE  (IF e = NoEntry THEN Entry(r, 0) ELSE [e EXCEPT !.cookie = r.cookie, !.ring = 0])
             \in EntryRecord
<1>1. r.display \in DisplayIds /\ 0 \in 0..MaxRing
  BY RequestsTyped, BoundsAssumption DEF RequestRecord
<1>2. e \in EntryRecord \cup {NoEntry}
  BY <1>1, ReapKeepsNames DEF EntryTables
<1>3. e # NoEntry => [e EXCEPT !.cookie = r.cookie, !.ring = 0] \in EntryRecord
  BY <1>2, EntryChanged
<1> QED
  BY <1>1, <1>3, RecordsMade

LEMMA StepKeeps == IndInv /\ [Next]_vars => IndInv'
<1> SUFFICES ASSUME IndInv, [Next]_vars
             PROVE  IndInv'
  OBVIOUS
<1>0. ASSUME UNCHANGED ringVars
      PROVE  IndInv'
  BY <1>0 DEF IndInv, TablesTyped, RingsFresh, OpenNamed, NumbersOf, ringVars
<1>1. CASE StoreStep
  BY <1>0, <1>1 DEF StoreStep
<1>2. ASSUME NEW r \in Requests, NEW t \in Store!RequestTimes, RegisterStale(r, t)
      PROVE  IndInv'
  BY <1>2, ReapingKeeps DEF RegisterStale
<1>3. ASSUME NEW r \in Requests, NEW t \in Store!RequestTimes, Register(r, t)
      PROVE  IndInv'
  BY <1>3, RegisterKeeps
<1>4. ASSUME NEW r \in Requests, NEW t \in Store!RequestTimes, RegisterFailed(r, t)
      PROVE  IndInv'
  <2>1. r.display \in DisplayIds /\ 0 \in 0..MaxRing
    BY RequestsTyped, BoundsAssumption DEF RequestRecord
  <2>2. Entry(r, 0) \in EntryRecord
    BY <2>1, RecordsMade
  <2> QED
    BY <1>4, <2>1, <2>2, RetiringKeeps DEF RegisterFailed
<1>5. ASSUME NEW r \in Requests, NEW t \in Store!RequestTimes, NEW g \in 0..MaxRing, Clear(r, g, t)
      PROVE  IndInv'
  <2>1. r.display \in DisplayIds
    BY RequestsTyped DEF RequestRecord
  <2>2. PICK e \in EntryRecord :
            e = IF EntriesAfterReap(t)[r.display] = NoEntry THEN Entry(r, 0)
                ELSE [EntriesAfterReap(t)[r.display] EXCEPT !.cookie = r.cookie, !.ring = 0]
    BY ClearedEntry
  <2> QED
    BY <1>5, <2>1, <2>2, RetiringKeeps DEF Clear
<1>6. ASSUME NEW r \in Requests, NEW t \in Store!RequestTimes, NEW g \in 0..MaxRing, ClearRefused(r, g, t)
      PROVE  IndInv'
  BY <1>6, ReapingKeeps DEF ClearRefused
<1>7. ASSUME NEW t \in Store!RequestTimes, Reap(t)
      PROVE  IndInv'
  BY <1>7, ReapingKeeps DEF Reap
<1>8. ASSUME NEW d \in DisplayIds, NEW g \in 1..MaxGeneration, Snapshot(d, g)
      PROVE  IndInv'
  <2> DEFINE R == [rings EXCEPT ![d] = NoRing]
  <2>1. R \in RingTables /\ \A x \in DisplayIds : R[x] \in {rings[x], NoRing}
    BY DEF IndInv, TablesTyped, RingTables
  <2>2. ReplaceRings(R) /\ entries' = entries /\ nextRing' = nextRing
    BY <1>8 DEF Snapshot
  <2>3. entries' \in EntryTables /\ OpenNamed(R, entries')
    BY <2>1, <2>2, TakingKeepsNames DEF IndInv, TablesTyped
  <2> HIDE DEF R
  <2> QED
    BY <2>1, <2>2, <2>3, ReplacingKeeps
<1>9. ASSUME NEW g \in enabled, ProducerRetires(g)
      PROVE  IndInv'
  BY <1>9 DEF ProducerRetires, IndInv, TablesTyped, RingsFresh, OpenNamed, NumbersOf
<1>10. CASE Reset
  <2> DEFINE R == [d \in DisplayIds |-> NoRing]
  <2>1. R \in RingTables /\ \A x \in DisplayIds : R[x] = NoRing
    BY DEF RingTables
  <2>2. entries' \in EntryTables
    <3>1. \A e \in EntryRecord : [e EXCEPT !.ring = 0] \in EntryRecord
      <4>1. 0 \in 0..MaxRing
        BY BoundsAssumption
      <4> QED
        BY <4>1 DEF EntryRecord
    <3> QED
      BY <1>10, <3>1 DEF Reset, EntryTables, IndInv, TablesTyped
  <2>3. ReplaceRings(R) /\ nextRing' = nextRing
    BY <1>10 DEF Reset
  <2>4. OpenNamed(R, entries')
    BY <2>1 DEF OpenNamed
  <2> HIDE DEF R
  <2> QED
    BY <2>1, <2>2, <2>3, <2>4, ReplacingKeeps
<1>11. CASE UNCHANGED vars
  BY <1>0, <1>11 DEF vars
<1> QED
  BY <1>1, <1>2, <1>3, <1>4, <1>5, <1>6, <1>7, <1>8, <1>9, <1>10, <1>11 DEF Next, Reaper

-----------------------------------------------------------------------------

\* The server's invariant holds in every reachable state: an open gate belongs to a registered
\* ring of a fresh number that the entry of its display names (FrameRingServer, all requests,
\* the reaper and the shutdown).
THEOREM FrameRingInvariant == Spec => []IndInv
BY InitEstablishes, StepKeeps, PTL DEF Spec

\* A ring that can be published to is registered, and its client can clear it: no gate outlives
\* its registration and no registration with an open gate its entry (frame_ring_lifetime.cpp).
THEOREM OpenRingsAlwaysAccountedFor == Spec => []OpenRingsAccountedFor
<1>1. IndInv => OpenRingsAccountedFor
  <2> SUFFICES ASSUME IndInv, NEW g \in enabled
               PROVE  \E d \in DisplayIds :
                         /\ rings[d] # NoRing /\ rings[d].ring = g
                         /\ entries[d] # NoEntry /\ entries[d].ring = g
                         /\ entries[d].lease = rings[d].lease /\ entries[d].owner = rings[d].owner
                         /\ entries[d].generation = rings[d].generation
    BY DEF OpenRingsAccountedFor
  <2>1. PICK d \in DisplayIds : rings[d] # NoRing /\ rings[d].ring = g
    BY DEF IndInv, NumbersOf
  <2>2. Names(entries[d], rings[d])
    BY <2>1 DEF IndInv, OpenNamed
  <2> QED
    BY <2>1, <2>2 DEF Names
<1> QED
  BY <1>1, FrameRingInvariant, PTL

-----------------------------------------------------------------------------
(* What is proved of the store on its own, for the store of this module.   *)

StoreTheory == INSTANCE LeaseStore_proofs WITH now <- now

\* The two instances are of one module, with the same constants.
LEMMA SameAssumptions ==
  /\ StoreTheory!SizesAssumption /\ StoreTheory!TimeoutsAssumption
  /\ StoreTheory!IdentityAssumption /\ StoreTheory!NullsAssumption
BY StoreAssumption, Zenon
DEF Store!DisplayRecord, StoreTheory!DisplayRecord, Store!LeaseRecord, StoreTheory!LeaseRecord,
    Store!TemporaryConnectors, StoreTheory!TemporaryConnectors,
    Store!ConnectorLimit, StoreTheory!ConnectorLimit

\* The operators of the two instances have the same values ...
LEMMA SameOperators ==
  /\ Store!RequestTimes = StoreTheory!RequestTimes
  /\ Store!CreateRequests = StoreTheory!CreateRequests
  /\ \A r, t : Store!CreateError(r, t) = StoreTheory!CreateError(r, t)
  /\ \A r, t : Store!NewRecord(r, t) = StoreTheory!NewRecord(r, t)
  /\ \A d, retain : Store!ConnectorFor(d, retain) = StoreTheory!ConnectorFor(d, retain)
  /\ \A c, d : Store!WithoutOthersOn(c, d) = StoreTheory!WithoutOthersOn(c, d)
  /\ \A d, retain : Store!ReservationsAfterSearch(d, retain)
                       = StoreTheory!ReservationsAfterSearch(d, retain)
  /\ Store!EphemeralCandidates = StoreTheory!EphemeralCandidates
  /\ \A S : Store!Min(S) = StoreTheory!Min(S)
<1>1. Store!TemporaryConnectors = StoreTheory!TemporaryConnectors
  BY Zenon
  DEF Store!TemporaryConnectors, StoreTheory!TemporaryConnectors, Store!ConnectorLimit,
      StoreTheory!ConnectorLimit
<1>2. Store!LiveDisplays = StoreTheory!LiveDisplays
  BY Zenon
  DEF Store!LiveDisplays, StoreTheory!LiveDisplays
<1>3. Store!ActiveConnectors = StoreTheory!ActiveConnectors
  BY <1>2, Zenon
  DEF Store!ActiveConnectors, StoreTheory!ActiveConnectors
<1>4. Store!ActiveEdids = StoreTheory!ActiveEdids
  BY <1>2, Zenon
  DEF Store!ActiveEdids, StoreTheory!ActiveEdids
<1>5. Store!FreeConnectors = StoreTheory!FreeConnectors
  BY <1>1, <1>3, Zenon
  DEF Store!FreeConnectors, StoreTheory!FreeConnectors
<1>6. \A d, retain : Store!UnclaimedConnectors(d, retain) = StoreTheory!UnclaimedConnectors(d, retain)
  BY <1>5, Zenon
  DEF Store!UnclaimedConnectors, StoreTheory!UnclaimedConnectors
<1>7. \A d : Store!HasUsableReservation(d) = StoreTheory!HasUsableReservation(d)
  BY <1>1, <1>3, Zenon
  DEF Store!HasUsableReservation, StoreTheory!HasUsableReservation
<1>8. \A S : Store!Min(S) = StoreTheory!Min(S)
  BY Zenon
  DEF Store!Min, StoreTheory!Min
<1>9. Store!ConnectorLimit = StoreTheory!ConnectorLimit
  BY Zenon
  DEF Store!ConnectorLimit, StoreTheory!ConnectorLimit
<1>10. \A d, retain : Store!ConnectorFor(d, retain) = StoreTheory!ConnectorFor(d, retain)
  BY <1>5, <1>6, <1>7, <1>8, <1>9, Zenon
  DEF Store!ConnectorFor, StoreTheory!ConnectorFor
<1>11. \A c, d : Store!WithoutOthersOn(c, d) = StoreTheory!WithoutOthersOn(c, d)
  BY Zenon
  DEF Store!WithoutOthersOn, StoreTheory!WithoutOthersOn
<1>12. \A d, retain : Store!ReservationsAfterSearch(d, retain) = StoreTheory!ReservationsAfterSearch(d, retain)
  BY <1>5, <1>6, <1>7, <1>10, <1>11, Zenon
  DEF Store!ReservationsAfterSearch, StoreTheory!ReservationsAfterSearch
<1>13. Store!EphemeralCandidates = StoreTheory!EphemeralCandidates
  BY <1>4, Zenon
  DEF Store!EphemeralCandidates, StoreTheory!EphemeralCandidates
<1>14. \A r, t : Store!LeaseRefusesCreate(r, t) = StoreTheory!LeaseRefusesCreate(r, t)
  BY <1>2, Zenon
  DEF Store!LeaseRefusesCreate, StoreTheory!LeaseRefusesCreate, Store!HasPendingDeparture,
      StoreTheory!HasPendingDeparture, Store!DisplaysOf, StoreTheory!DisplaysOf
<1>15. \A S : Store!Cardinality(S) = StoreTheory!Cardinality(S)
  BY Zenon DEF Store!Cardinality, StoreTheory!Cardinality
<1>16. \A r, t : Store!CreateError(r, t) = StoreTheory!CreateError(r, t)
  BY <1>1, <1>2, <1>4, <1>10, <1>14, <1>15, Zenon
  DEF Store!CreateError, StoreTheory!CreateError
<1>17. \A requested : Store!NormalizeTimeout(requested) = StoreTheory!NormalizeTimeout(requested)
  BY Zenon
  DEF Store!NormalizeTimeout, StoreTheory!NormalizeTimeout
<1>18. \A r, t : Store!NewRecord(r, t) = StoreTheory!NewRecord(r, t)
  BY <1>8, <1>10, <1>13, <1>17, Zenon
  DEF Store!NewRecord, StoreTheory!NewRecord
<1>19. Store!RequestTimes = StoreTheory!RequestTimes
  BY Zenon
  DEF Store!RequestTimes, StoreTheory!RequestTimes
<1>20. Store!CreateRequests = StoreTheory!CreateRequests
  BY Zenon
  DEF Store!CreateRequests, StoreTheory!CreateRequests
<1> QED
  BY <1>8, <1>10, <1>11, <1>12, <1>13, <1>16, <1>18, <1>19, <1>20, Zenon

\* ... and so a step of the one is a step of the other.
LEMMA SameStore ==
  ASSUME \/ Store!Tick \/ Store!Create \/ Store!Reclaim
         \/ Store!Remove \/ Store!MarkPending \/ Store!Feed
  PROVE  StoreTheory!Next
<1>1. Store!Tick => StoreTheory!Tick
  BY Zenon
  DEF Store!Tick, StoreTheory!Tick, Store!storeVars, StoreTheory!storeVars
<1>2. ASSUME Store!Create PROVE StoreTheory!Create
  <2> PICK r \in Store!CreateRequests, t \in Store!RequestTimes :
          Store!CreateTemporaryDisplay(r, t) /\ UNCHANGED now
    BY <1>2, Zenon DEF Store!Create
  <2>1. StoreTheory!CreateTemporaryDisplay(r, t)
    BY SameOperators, Zenon
    DEF Store!CreateTemporaryDisplay, StoreTheory!CreateTemporaryDisplay,
        Store!LeaseAfterCreate, StoreTheory!LeaseAfterCreate, Store!AdvanceCounters,
        StoreTheory!AdvanceCounters
  <2>2. r \in StoreTheory!CreateRequests /\ t \in StoreTheory!RequestTimes
    BY SameOperators
  <2> QED
    BY <2>1, <2>2, Zenon DEF StoreTheory!Create
<1>3. Store!Reclaim => StoreTheory!Reclaim
  BY Zenon
  DEF Store!Reclaim, StoreTheory!Reclaim, Store!ReclaimRequests,
      StoreTheory!ReclaimRequests, Store!RequestTimes, StoreTheory!RequestTimes,
      Store!ReclaimTemporaryDisplay, StoreTheory!ReclaimTemporaryDisplay,
      Store!ReclaimAccepted, StoreTheory!ReclaimAccepted, Store!NormalizeTimeout,
      StoreTheory!NormalizeTimeout, Store!LiveDisplays, StoreTheory!LiveDisplays,
      Store!DisplaysOf, StoreTheory!DisplaysOf, Store!HasPendingDeparture,
      StoreTheory!HasPendingDeparture
<1>4. Store!Remove => StoreTheory!Remove
  BY Zenon
  DEF Store!Remove, StoreTheory!Remove, Store!RemoveTemporaryDisplay,
      StoreTheory!RemoveTemporaryDisplay, Store!EraseDisplays, StoreTheory!EraseDisplays,
      Store!Carries, StoreTheory!Carries, Store!LiveDisplays, StoreTheory!LiveDisplays,
      Store!DisplaysOf, StoreTheory!DisplaysOf
<1>5. Store!MarkPending => StoreTheory!MarkPending
  BY Zenon
  DEF Store!MarkPending, StoreTheory!MarkPending, Store!MarkPendingDeparture,
      StoreTheory!MarkPendingDeparture, Store!Carries, StoreTheory!Carries,
      Store!LiveDisplays, StoreTheory!LiveDisplays, Store!DisplaysOf,
      StoreTheory!DisplaysOf
<1>6. Store!Feed => StoreTheory!Feed
  BY Zenon
  DEF Store!Feed, StoreTheory!Feed, Store!FeedLease, StoreTheory!FeedLease,
      Store!FeedAccepted, StoreTheory!FeedAccepted, Store!RequestTimes,
      StoreTheory!RequestTimes, Store!HasExpiredPendingDeparture,
      StoreTheory!HasExpiredPendingDeparture, Store!NormalizeTimeout,
      StoreTheory!NormalizeTimeout, Store!Carries, StoreTheory!Carries, Store!LiveDisplays,
      StoreTheory!LiveDisplays, Store!DisplaysOf, StoreTheory!DisplaysOf
<1> QED
  BY <1>1, <1>2, <1>3, <1>4, <1>5, <1>6, Zenon DEF StoreTheory!Next

\* A step of the server changes nothing in the store, and a step of the store is one.
LEMMA StoreStepKept ==
  ASSUME [Next]_vars
  PROVE  [StoreTheory!Next]_StoreTheory!vars
<1>1. CASE UNCHANGED storeVars
  BY <1>1, Zenon DEF storeVars, StoreTheory!vars, StoreTheory!storeVars
<1>2. CASE StoreStep
  BY <1>2, SameStore DEF StoreStep
<1>3. ASSUME NEW r \in Requests, NEW t \in Store!RequestTimes, NEW g \in 0..MaxRing,
             \/ RegisterStale(r, t) \/ Register(r, t) \/ RegisterFailed(r, t)
             \/ Clear(r, g, t) \/ ClearRefused(r, g, t)
      PROVE  UNCHANGED storeVars
  BY <1>3, Zenon DEF RegisterStale, Register, RegisterFailed, Clear, ClearRefused
<1>4. CASE \E r \in Requests, t \in Store!RequestTimes :
              \/ RegisterStale(r, t)
              \/ Register(r, t)
              \/ RegisterFailed(r, t)
              \/ \E g \in 0..MaxRing : Clear(r, g, t)
              \/ \E g \in 0..MaxRing : ClearRefused(r, g, t)
  <2>1. 0 \in 0..MaxRing
    BY BoundsAssumption
  <2> QED
    BY <1>1, <1>3, <1>4, <2>1, Zenon
<1>5. CASE Reaper
  BY <1>1, <1>5, Zenon DEF Reaper, Reap
<1>6. CASE \E d \in DisplayIds, g \in 1..MaxGeneration : Snapshot(d, g)
  BY <1>1, <1>6, Zenon DEF Snapshot
<1>7. CASE \E g \in enabled : ProducerRetires(g)
  BY <1>1, <1>7, Zenon DEF ProducerRetires
<1>8. CASE Reset
  BY <1>1, <1>8, Zenon DEF Reset
<1>9. CASE UNCHANGED vars
  BY <1>1, <1>9, Zenon DEF vars, storeVars
<1> QED
  BY <1>2, <1>4, <1>5, <1>6, <1>7, <1>8, <1>9, Zenon DEF Next

LEMMA StoreInvariantKept == Spec => []StoreTheory!IndInv
<1>1. Init => StoreTheory!IndInv
  <2> SUFFICES ASSUME Init PROVE StoreTheory!IndInv
    OBVIOUS
  <2>1. StoreTheory!Init
    BY Zenon DEF Init, Store!Init, StoreTheory!Init, Store!TemporaryConnectors, Store!ConnectorLimit,
        StoreTheory!TemporaryConnectors, StoreTheory!ConnectorLimit
  <2> QED
    BY SameAssumptions, <2>1, StoreTheory!InitEstablishes
<1>2. StoreTheory!IndInv /\ [Next]_vars => StoreTheory!IndInv'
  BY StoreStepKept, SameAssumptions, StoreTheory!NextPreserves
<1> QED
  BY <1>1, <1>2, PTL DEF Spec

-----------------------------------------------------------------------------
(* What the server remembers of a display.                                 *)

\* No request that reads the clock at T or later gets at the pixels of the record.
Lapsed(d, T) == displays[d].pending \/ displays[d].expires <= T

\* The entry is of the present record, and newer than what is in B.
Fences(e, d, B) ==
    /\ e # NoEntry
    /\ e.generation = displays[d].generation /\ e.lease = displays[d].lease
    /\ leases[displays[d].lease].owner = e.owner
    /\ \A b \in B : b[1] = e.peer /\ b[2] <= e.cookie

\* While a display stays with its lease its entry remembers the newest cookie, or it
\* was dropped at a clock reading at which the lease had run out, or the display departs.
Remembers(e, d, B, T) ==
    B # {} => d \in Store!LiveDisplays /\ (Fences(e, d, B) \/ (e = NoEntry /\ Lapsed(d, T)))

Remembered ==
    /\ bound = [d \in DisplayIds |-> bound[d]]
    /\ forgotten \in [DisplayIds -> Nat]
    /\ \A d \in DisplayIds : bound[d] \subseteq Peers \X Cookies
    /\ \A d \in DisplayIds : Remembers(entries[d], d, bound[d], forgotten[d])

\* Clock readings are numbers.
LEMMA ReadingsAreNat ==
  ASSUME StoreTheory!IndInv
  PROVE  now \in Nat /\ \A t \in Store!RequestTimes : t \in Nat
BY DEF StoreTheory!IndInv, StoreTheory!TypeOK, Store!RequestTimes

\* The store, in the words of this module.
LEMMA StoreFacts ==
  ASSUME StoreTheory!IndInv
  PROVE  /\ \A d \in Store!LiveDisplays :
              /\ d \in DisplayIds /\ displays[d] # NoDisplay
              /\ displays[d].lease \in LeaseIds /\ displays[d].expires \in Nat
              /\ leases[displays[d].lease] # NoLease
              /\ leases[displays[d].lease].expires \in Nat
              /\ ~displays[d].pending => displays[d].expires = leases[displays[d].lease].expires
         /\ now \in Nat
<1>1. now \in Nat
  BY DEF StoreTheory!IndInv, StoreTheory!TypeOK
<1>2. ASSUME NEW d \in Store!LiveDisplays
      PROVE  /\ d \in DisplayIds /\ displays[d] # NoDisplay
             /\ displays[d].lease \in LeaseIds /\ displays[d].expires \in Nat
             /\ leases[displays[d].lease] # NoLease
             /\ leases[displays[d].lease].expires \in Nat
             /\ ~displays[d].pending => displays[d].expires = leases[displays[d].lease].expires
  <2>1. d \in DisplayIds /\ displays[d] # NoDisplay /\ d \in StoreTheory!LiveDisplays
    BY DEF Store!LiveDisplays, StoreTheory!LiveDisplays
  <2>2. displays[d] \in StoreTheory!DisplayRecord
    BY <2>1 DEF StoreTheory!IndInv, StoreTheory!TypeOK
  <2>3. displays[d].lease \in LeaseIds /\ displays[d].expires \in Nat
    BY <2>2 DEF StoreTheory!DisplayRecord
  <2>4. leases[displays[d].lease] # NoLease
    BY <2>1, <2>3 DEF StoreTheory!IndInv, StoreTheory!LeasesCovered, StoreTheory!DisplaysOf
  <2>5. leases[displays[d].lease] \in StoreTheory!LeaseRecord
    BY <2>3, <2>4 DEF StoreTheory!IndInv, StoreTheory!TypeOK
  <2>6. leases[displays[d].lease].expires \in Nat
    BY <2>5 DEF StoreTheory!LeaseRecord
  <2>7. ~displays[d].pending => displays[d].expires = leases[displays[d].lease].expires
    BY <2>1 DEF StoreTheory!IndInv, StoreTheory!ExpiryShared
  <2> QED
    BY <2>1, <2>3, <2>4, <2>6, <2>7
<1> QED
  BY <1>1, <1>2

\* Who is authorized at a clock reading, is so for the present record.
LEMMA AuthorizedAt ==
  ASSUME StoreTheory!IndInv, NEW d \in DisplayIds, NEW o, NEW t \in Nat
  PROVE  Authorized(d, o, t) <=>
             /\ d \in Store!LiveDisplays /\ ~Lapsed(d, t)
             /\ o.generation = displays[d].generation /\ o.lease = displays[d].lease
             /\ leases[displays[d].lease].owner = o.owner
<1>1. ASSUME Authorized(d, o, t)
      PROVE  /\ d \in Store!LiveDisplays /\ ~Lapsed(d, t)
             /\ o.generation = displays[d].generation /\ o.lease = displays[d].lease
             /\ leases[displays[d].lease].owner = o.owner
  <2>1. /\ d \in Store!LiveDisplays /\ displays[d].lease = o.lease
        /\ ~displays[d].pending /\ displays[d].expires > t
        /\ leases[o.lease].owner = o.owner /\ displays[d].generation = o.generation
    BY <1>1 DEF Authorized, Store!AuthorizesOwner, Store!Carries, Store!DisplaysOf
  <2> QED
    BY <2>1, StoreFacts DEF Lapsed
<1>2. ASSUME d \in Store!LiveDisplays, ~Lapsed(d, t),
             o.generation = displays[d].generation, o.lease = displays[d].lease,
             leases[displays[d].lease].owner = o.owner
      PROVE  Authorized(d, o, t)
  <2>1. /\ ~displays[d].pending /\ displays[d].expires > t
        /\ leases[displays[d].lease] # NoLease /\ leases[displays[d].lease].expires > t
    BY <1>2, StoreFacts DEF Lapsed
  <2> QED
    BY <1>2, <2>1 DEF Authorized, Store!AuthorizesOwner, Store!Carries, Store!DisplaysOf
<1> QED
  BY <1>1, <1>2

\* The reap that opens a request forgets a display only when its lease has run out at the
\* clock reading of the request, and the history tells.
LEMMA ReapRemembers ==
  ASSUME IndInv, StoreTheory!IndInv, Remembered, NEW d \in DisplayIds, NEW t \in Nat,
         NEW e, e = EntriesAfterReap(t)[d], NEW T, T = ForgottenAfterReap(t)[d]
  PROVE  /\ Remembers(e, d, bound[d], T)
         /\ e \in EntryRecord \cup {NoEntry}
         /\ T \in Nat /\ (T = t \/ T = forgotten[d])
<1>1. entries[d] \in EntryRecord \cup {NoEntry} /\ e \in EntryRecord \cup {NoEntry}
  BY ReapKeepsNames DEF IndInv, TablesTyped, EntryTables
<1>2. e # NoEntry =>
          /\ entries[d] # NoEntry /\ Authorized(d, entries[d], t)
          /\ e \in {entries[d], [entries[d] EXCEPT !.ring = 0]}
  BY Zenon DEF EntriesAfterReap
<1>3. e # NoEntry =>
          /\ entries[d] # NoEntry
          /\ e.peer = entries[d].peer /\ e.cookie = entries[d].cookie
          /\ e.generation = entries[d].generation /\ e.lease = entries[d].lease
          /\ e.owner = entries[d].owner
  BY <1>1, <1>2 DEF EntryRecord
<1>4. e = NoEntry => entries[d] = NoEntry \/ ~Authorized(d, entries[d], t)
  <2>1. ASSUME entries[d] # NoEntry, Authorized(d, entries[d], t)
        PROVE  e # NoEntry
    <3>1. e \in {entries[d], [entries[d] EXCEPT !.ring = 0]}
      BY <2>1, Zenon DEF EntriesAfterReap
    <3>2. [entries[d] EXCEPT !.ring = 0] \in EntryRecord
      <4>1. 0 \in 0..MaxRing
        BY BoundsAssumption
      <4> QED
        BY <1>1, <2>1, <4>1 DEF EntryRecord
    <3> QED
      BY <2>1, <3>1, <3>2, NullsAssumption
  <2> QED
    BY <2>1
<1>5. T = IF bound[d] # {} /\ entries[d] # NoEntry /\ e = NoEntry THEN t ELSE forgotten[d]
  BY Zenon DEF ForgottenAfterReap
<1>6. T \in Nat /\ (T = t \/ T = forgotten[d])
  BY <1>5 DEF Remembered
<1>7. ASSUME bound[d] # {}
      PROVE  d \in Store!LiveDisplays /\ (Fences(e, d, bound[d]) \/ (e = NoEntry /\ Lapsed(d, T)))
  <2>1. /\ d \in Store!LiveDisplays
        /\ Fences(entries[d], d, bound[d]) \/ (entries[d] = NoEntry /\ Lapsed(d, forgotten[d]))
    BY <1>7 DEF Remembered, Remembers
  <2>2. ASSUME e # NoEntry
        PROVE  Fences(e, d, bound[d])
    BY <1>3, <2>1, <2>2 DEF Fences
  <2>3. ASSUME e = NoEntry, entries[d] = NoEntry
        PROVE  Lapsed(d, T)
    BY <1>5, <2>1, <2>3 DEF Fences
  <2>4. ASSUME e = NoEntry, entries[d] # NoEntry
        PROVE  Lapsed(d, T)
    <3>1. Fences(entries[d], d, bound[d]) /\ ~Authorized(d, entries[d], t)
      BY <1>4, <2>1, <2>4
    <3>2. Lapsed(d, t)
      BY <2>1, <3>1, AuthorizedAt DEF Fences
    <3> QED
      BY <1>5, <1>7, <2>4, <3>2
  <2> QED
    BY <2>1, <2>2, <2>3, <2>4
<1> QED
  BY <1>1, <1>6, <1>7 DEF Remembers

\* A request that is not late meets the entry that remembers.
LEMMA EntryMet ==
  ASSUME IndInv, StoreTheory!IndInv, Remembered, NEW d \in DisplayIds, NEW t \in Nat, NEW r,
         Authorized(d, r, t), ~Late(d, t), bound[d] # {},
         NEW old, old = EntriesAfterReap(t)[d]
  PROVE  Fences(old, d, bound[d])
<1>1. PICK T : T = ForgottenAfterReap(t)[d]
  OBVIOUS
<1>2. /\ Fences(old, d, bound[d]) \/ Lapsed(d, T)
      /\ d \in Store!LiveDisplays
      /\ T \in Nat /\ (T = t \/ T = forgotten[d]) /\ forgotten[d] \in Nat
  BY <1>1, ReapRemembers DEF Remembers, Remembered
<1>3. T <= t
  BY <1>2 DEF Late
<1>4. ~Lapsed(d, t) /\ displays[d].expires \in Nat
  BY <1>2, AuthorizedAt, StoreFacts
<1>5. ~Lapsed(d, T)
  BY <1>2, <1>3, <1>4 DEF Lapsed
<1> QED
  BY <1>2, <1>5

\* What the server binds to a display is remembered.
LEMMA ServerRemembers ==
  ASSUME UNCHANGED storeVars, bound' = [d \in DisplayIds |-> bound'[d]],
         \A d \in DisplayIds : bound'[d] \subseteq Peers \X Cookies,
         forgotten' \in [DisplayIds -> Nat],
         \A d \in DisplayIds : Remembers(entries'[d], d, bound'[d], forgotten'[d])
  PROVE  Remembered'
BY DEF Remembered, Remembers, Fences, Lapsed, storeVars, Store!LiveDisplays

\* The history of a reap is a clock reading per display.
LEMMA ForgottenTyped ==
  ASSUME Remembered, NEW t \in Nat
  PROVE  ForgottenAfterReap(t) \in [DisplayIds -> Nat]
BY DEF ForgottenAfterReap, Remembered

\* Requests that are refused, and the reaper.
LEMMA ReapingRemembers ==
  ASSUME IndInv, StoreTheory!IndInv, Remembered, UNCHANGED storeVars, NEW t \in Nat,
         entries' = EntriesAfterReap(t), OnlyReaps(t)
  PROVE  Remembered'
<1>1. forgotten' = ForgottenAfterReap(t) /\ bound' = bound
  BY DEF OnlyReaps
<1>2. \A d \in DisplayIds : Remembers(entries'[d], d, bound'[d], forgotten'[d])
  BY <1>1, ReapRemembers
<1>3. bound' = [d \in DisplayIds |-> bound'[d]] /\ \A d \in DisplayIds : bound'[d] \subseteq Peers \X Cookies
  BY <1>1 DEF Remembered
<1> QED
  BY <1>1, <1>2, <1>3, ForgottenTyped, ServerRemembers

\* A request that is accepted is of the client of the entry, with no older cookie, and the new
\* entry has its cookie.  What is bound before it is remembered or, if it is late, given up.
LEMMA BindingRemembers ==
  ASSUME IndInv, StoreTheory!IndInv, Remembered, UNCHANGED storeVars, NEW t \in Nat,
         NEW r \in Requests, NEW d, d = r.display, Authorized(d, r, t),
         NEW old, old = EntriesAfterReap(t)[d],
         old # NoEntry => old.peer = r.peer /\ old.cookie <= r.cookie,
         NEW e \in EntryRecord, e.peer = r.peer, e.cookie = r.cookie,
         e.generation = r.generation, e.lease = r.lease, e.owner = r.owner,
         entries' = [EntriesAfterReap(t) EXCEPT ![d] = e], Bind(r, t)
  PROVE  Remembered'
<1>1. d \in DisplayIds /\ r.peer \in Peers /\ r.cookie \in Cookies
  BY RequestsTyped DEF RequestRecord
<1>2. PICK before : before = IF Late(d, t) THEN {} ELSE bound[d]
  OBVIOUS
<1>3. bound' = [bound EXCEPT ![d] = before \cup {<<r.peer, r.cookie>>}]
  <2>1. CASE Late(d, t)
    BY <1>2, <2>1 DEF Bind
  <2>2. CASE ~Late(d, t)
    BY <1>2, <2>2 DEF Bind
  <2> QED
    BY <2>1, <2>2
<1>4. EntriesAfterReap(t) \in EntryTables /\ ForgottenAfterReap(t) \in [DisplayIds -> Nat]
  BY ReapKeepsNames, ForgottenTyped
<1>5. /\ forgotten' \in [DisplayIds -> Nat]
      /\ \A x \in DisplayIds \ {d} : forgotten'[x] = ForgottenAfterReap(t)[x]
  <2>1. forgotten' = ForgottenAfterReap(t) \/ forgotten' = [ForgottenAfterReap(t) EXCEPT ![d] = 0]
    BY Zenon DEF Bind
  <2> QED
    BY <1>4, <2>1
<1>6. \A x \in DisplayIds : /\ bound'[x] = IF x = d THEN before \cup {<<r.peer, r.cookie>>} ELSE bound[x]
                            /\ entries'[x] = IF x = d THEN e ELSE EntriesAfterReap(t)[x]
  BY <1>3, <1>4 DEF Remembered, EntryTables
<1>7. bound' = [x \in DisplayIds |-> bound'[x]]
  BY <1>3 DEF Remembered
<1>8. PICK new \in Peers \X Cookies : new = <<r.peer, r.cookie>>
  BY <1>1
<1>9. \A x \in DisplayIds : bound'[x] \subseteq Peers \X Cookies
  <2> SUFFICES ASSUME NEW x \in DisplayIds
               PROVE  bound'[x] \subseteq Peers \X Cookies
    OBVIOUS
  <2>1. bound[x] \subseteq Peers \X Cookies
    BY DEF Remembered
  <2>2. bound'[x] \subseteq bound[x] \cup {new}
    BY <1>2, <1>6, <1>8
  <2> QED
    BY <2>1, <2>2
<1>10. /\ d \in Store!LiveDisplays
       /\ r.generation = displays[d].generation /\ r.lease = displays[d].lease
       /\ leases[displays[d].lease].owner = r.owner
  BY <1>1, AuthorizedAt
<1>11. ASSUME NEW b \in before
       PROVE  b[1] = r.peer /\ b[2] <= r.cookie
  <2>1. ~Late(d, t) /\ b \in bound[d]
    BY <1>2, <1>11
  <2>2. Fences(old, d, bound[d])
    BY <1>1, <2>1, EntryMet
  <2>3. b[1] = old.peer /\ b[2] <= old.cookie /\ old # NoEntry
    BY <2>1, <2>2 DEF Fences
  <2>4. b[2] \in Int /\ old.cookie \in Int /\ r.cookie \in Int
    <3>1. b \in Peers \X Cookies
      BY <1>1, <2>1 DEF Remembered
    <3>2. old \in EntryRecord
      BY <1>1, <2>3, ReapRemembers
    <3> QED
      BY <1>1, <3>1, <3>2, BoundsAssumption DEF EntryRecord, Cookies
  <2> QED
    BY <2>3, <2>4
<1>12. r.cookie <= r.cookie
  BY <1>1, BoundsAssumption DEF Cookies
<1>13. \A b \in bound'[d] : b[1] = e.peer /\ b[2] <= e.cookie
  <2>1. new[1] = r.peer /\ new[2] = r.cookie
    BY <1>8
  <2>2. bound'[d] = before \cup {new}
    BY <1>1, <1>6, <1>8
  <2> QED
    BY <1>11, <1>12, <2>1, <2>2
<1>14. Remembers(entries'[d], d, bound'[d], forgotten'[d])
  BY <1>1, <1>6, <1>10, <1>13, NullsAssumption DEF Remembers, Fences
<1>15. ASSUME NEW x \in DisplayIds, x # d
       PROVE  Remembers(entries'[x], x, bound'[x], forgotten'[x])
  BY <1>5, <1>6, <1>15, ReapRemembers
<1>16. \A x \in DisplayIds : Remembers(entries'[x], x, bound'[x], forgotten'[x])
  BY <1>14, <1>15
<1> QED
  BY <1>5, <1>7, <1>9, <1>16, ServerRemembers

\* A display that stays with its lease keeps its owner and its departure, and the history
\* of one whose lease is brought back is given up.
LEMMA StoreStepRemembers ==
  ASSUME IndInv, StoreTheory!IndInv, StoreTheory!IndInv', Remembered,
         [StoreTheory!Next]_StoreTheory!vars, StoreStep
  PROVE  Remembered'
<1>1. /\ StoreTheory!FencesLifetime /\ StoreTheory!KeepsOwners
  BY SameAssumptions, StoreTheory!LifetimesFenced, StoreTheory!OwnersKept
<1>2. entries' = entries
      /\ bound' = [d \in DisplayIds |-> IF KeepsHistory(d) THEN bound[d] ELSE {}]
      /\ forgotten' = [d \in DisplayIds |-> IF KeepsHistory(d) THEN forgotten[d] ELSE 0]
  BY DEF StoreStep, ringVars
<1>3. forgotten' \in [DisplayIds -> Nat]
  BY <1>2 DEF Remembered
<1>4. \A d \in DisplayIds : bound'[d] = {} \/ bound'[d] = bound[d]
  BY <1>2
<1>5. \A d \in DisplayIds : bound'[d] \subseteq Peers \X Cookies
  BY <1>4 DEF Remembered
<1>6. ASSUME NEW d \in DisplayIds, bound'[d] # {}
      PROVE  /\ d \in Store!LiveDisplays'
             /\ (Fences(entries[d], d, bound[d]) \/ (entries[d] = NoEntry /\ Lapsed(d, forgotten[d])))'
  <2>1. /\ Store!StaysRecord(d) /\ displays'[d].lease = displays[d].lease /\ bound'[d] = bound[d]
        /\ forgotten'[d] = forgotten[d]
        /\ displays[d].expires <= forgotten[d] => displays'[d].expires <= forgotten[d]
    BY <1>2, <1>6 DEF KeepsHistory
  <2>2. /\ d \in Store!LiveDisplays /\ d \in Store!LiveDisplays'
        /\ displays[d].generation = displays'[d].generation
        /\ StoreTheory!StaysRecord(d) /\ d \in StoreTheory!LiveDisplays
    BY <2>1 DEF Store!StaysRecord, StoreTheory!StaysRecord, Store!LiveDisplays, StoreTheory!LiveDisplays
  <2>3. displays[d].pending => displays'[d].pending
    BY <1>1, <2>2 DEF StoreTheory!FencesLifetime
  <2>5. Lapsed(d, forgotten[d]) => Lapsed(d, forgotten[d])'
    BY <2>1, <2>3 DEF Lapsed
  <2>6. ASSUME Fences(entries[d], d, bound[d])
        PROVE  Fences(entries[d], d, bound[d])'
    <3>1. entries[d] \in EntryRecord
      BY <2>6 DEF Fences, IndInv, TablesTyped, EntryTables
    <3>2. leases[displays[d].lease] # NoLease /\ displays[d].lease \in LeaseIds
      BY <2>2, StoreFacts
    <3>3. leases'[displays[d].lease] # NoLease
      <4>1. d \in StoreTheory!LiveDisplays' /\ displays'[d].lease \in LeaseIds
        BY <2>1, <2>2, <3>2 DEF StoreTheory!StaysRecord
      <4>2. leases'[displays'[d].lease] # NoLease
        BY <4>1 DEF StoreTheory!IndInv, StoreTheory!LeasesCovered, StoreTheory!DisplaysOf
      <4> QED
        BY <2>1, <4>2
    <3>4. leases[displays[d].lease].owner = entries[d].owner /\ entries[d].owner \in Capabilities
      BY <2>6, <3>1 DEF Fences, EntryRecord
    <3>5. entries[d].owner # NoCapability
      BY <3>4, SameAssumptions DEF StoreTheory!NullsAssumption
    <3>6. leases'[displays[d].lease].owner = entries[d].owner
      BY <1>1, <3>2, <3>3, <3>4, <3>5 DEF StoreTheory!KeepsOwners
    <3> QED
      BY <1>2, <2>1, <2>2, <2>6, <3>6 DEF Fences
  <2>7. Fences(entries[d], d, bound[d]) \/ (entries[d] = NoEntry /\ Lapsed(d, forgotten[d]))
    BY <1>6, <2>1 DEF Remembered, Remembers
  <2> QED
    BY <1>2, <2>1, <2>2, <2>5, <2>6, <2>7
<1>7. \A d \in DisplayIds : Remembers(entries[d], d, bound[d], forgotten[d])'
  BY <1>6 DEF Remembers
<1>8. bound' = [d \in DisplayIds |-> bound'[d]]
  BY <1>2
<1> QED
  BY <1>3, <1>5, <1>7, <1>8 DEF Remembered

\* No step forgets a cookie without the history telling.
LEMMA StepRemembers ==
  ASSUME IndInv, StoreTheory!IndInv, Remembered, [Next]_vars
  PROVE  Remembered'
<1>1. now \in Nat /\ \A t \in Store!RequestTimes : t \in Nat
  BY ReadingsAreNat
<1>2. CASE StoreStep
  BY <1>2, StoreStepKept, SameAssumptions, StoreTheory!NextPreserves, StoreStepRemembers
<1>3. ASSUME NEW r \in Requests, NEW t \in Store!RequestTimes, RegisterStale(r, t)
      PROVE  Remembered'
  BY <1>1, <1>3, ReapingRemembers DEF RegisterStale
<1>4. ASSUME NEW r \in Requests, NEW t \in Store!RequestTimes, NEW g \in 0..MaxRing, ClearRefused(r, g, t)
      PROVE  Remembered'
  BY <1>1, <1>4, ReapingRemembers DEF ClearRefused
<1>5. ASSUME NEW t \in Store!RequestTimes, Reap(t)
      PROVE  Remembered'
  BY <1>1, <1>5, ReapingRemembers DEF Reap
<1>6. ASSUME NEW r \in Requests, NEW t \in Store!RequestTimes, NEW g \in 0..MaxRing,
             NewerCookie(r, t), entries' = [EntriesAfterReap(t) EXCEPT ![r.display] = Entry(r, g)],
             Bind(r, t), UNCHANGED storeVars
      PROVE  Remembered'
  <2>1. PICK old : old = EntriesAfterReap(t)[r.display]
    OBVIOUS
  <2>2. Authorized(r.display, r, t) /\ (old # NoEntry => old.peer = r.peer /\ r.cookie > old.cookie)
    BY <1>1, <1>6, <2>1 DEF NewerCookie
  <2>3. r.display \in DisplayIds /\ r.cookie \in Cookies
    BY RequestsTyped DEF RequestRecord
  <2>4. old # NoEntry => old \in EntryRecord
    BY <1>1, <2>1, <2>3, ReapRemembers
  <2>5. old # NoEntry => old.peer = r.peer /\ old.cookie <= r.cookie
    BY <2>2, <2>3, <2>4, BoundsAssumption DEF EntryRecord, Cookies
  <2>6. PICK e \in EntryRecord : e = Entry(r, g)
    BY RecordsMade
  <2>7. /\ e.peer = r.peer /\ e.cookie = r.cookie
        /\ e.generation = r.generation /\ e.lease = r.lease /\ e.owner = r.owner
    BY <2>6 DEF Entry
  <2>8. entries' = [EntriesAfterReap(t) EXCEPT ![r.display] = e]
    BY <1>1, <1>6, <2>6
  <2>9. PICK d : d = r.display
    OBVIOUS
  <2>10. /\ Authorized(d, r, t) /\ old = EntriesAfterReap(t)[d]
         /\ entries' = [EntriesAfterReap(t) EXCEPT ![d] = e]
         /\ Bind(r, t) /\ UNCHANGED storeVars
    BY <1>6, <2>1, <2>2, <2>8, <2>9, Zenon
  <2> QED
    BY <1>1, <2>5, <2>7, <2>9, <2>10, BindingRemembers
<1>7. ASSUME NEW r \in Requests, NEW t \in Store!RequestTimes, Register(r, t)
      PROVE  Remembered'
  <2>1. nextRing \in 0..MaxRing
    BY DEF IndInv, TablesTyped
  <2> QED
    BY <1>6, <1>7, <2>1 DEF Register
<1>8. ASSUME NEW r \in Requests, NEW t \in Store!RequestTimes, RegisterFailed(r, t)
      PROVE  Remembered'
  <2>1. 0 \in 0..MaxRing
    BY BoundsAssumption
  <2> QED
    BY <1>6, <1>8, <2>1 DEF RegisterFailed
<1>9. ASSUME NEW r \in Requests, NEW t \in Store!RequestTimes, NEW g \in 0..MaxRing, Clear(r, g, t)
      PROVE  Remembered'
  <2>1. PICK old : old = EntriesAfterReap(t)[r.display]
    OBVIOUS
  <2>2. PICK e : e = IF old = NoEntry THEN Entry(r, 0) ELSE [old EXCEPT !.cookie = r.cookie, !.ring = 0]
    OBVIOUS
  <2>3. t \in Nat /\ ClearAccepted(r, g, t)
    BY <1>1, <1>9 DEF Clear
  <2>4. /\ Authorized(r.display, r, t)
        /\ old # NoEntry => /\ old.peer = r.peer /\ old.owner = r.owner /\ old.lease = r.lease
                            /\ old.generation = r.generation
                            /\ r.cookie >= old.cookie \/ r.cookie = old.cookie
    BY <2>1, <2>3 DEF ClearAccepted
  <2>5. r.display \in DisplayIds /\ r.cookie \in Cookies
    BY RequestsTyped DEF RequestRecord
  <2>6. old # NoEntry => old \in EntryRecord
    BY <1>1, <2>1, <2>5, ReapRemembers
  <2>7. old # NoEntry => old.peer = r.peer /\ old.cookie <= r.cookie
    BY <2>4, <2>5, <2>6, BoundsAssumption DEF EntryRecord, Cookies
  <2>8. e \in EntryRecord
    BY <2>1, <2>2, ClearedEntry
  <2>9. /\ e.peer = r.peer /\ e.cookie = r.cookie
        /\ e.generation = r.generation /\ e.lease = r.lease /\ e.owner = r.owner
    <3>1. CASE old = NoEntry
      BY <2>2, <3>1 DEF Entry
    <3>2. CASE old # NoEntry
      BY <2>2, <2>4, <2>6, <3>2 DEF EntryRecord
    <3> QED
      BY <3>1, <3>2
  <2>10. entries' = [EntriesAfterReap(t) EXCEPT ![r.display] = e] /\ Bind(r, t)
         /\ UNCHANGED storeVars
    BY <1>9, <2>1, <2>2, <2>3 DEF Clear
  <2> QED
    BY <1>1, <2>1, <2>4, <2>7, <2>8, <2>9, <2>10, BindingRemembers
<1>10. ASSUME UNCHANGED <<storeVars, bound, entries, forgotten>>
       PROVE  Remembered'
  BY <1>10, ServerRemembers DEF Remembered
<1>11. CASE Reset
  <2>1. \A d \in DisplayIds : entries[d] \in EntryRecord \cup {NoEntry}
    BY DEF IndInv, TablesTyped, EntryTables
  <2>2. entries' = [d \in DisplayIds |-> IF entries[d] = NoEntry THEN NoEntry ELSE [entries[d] EXCEPT !.ring = 0]]
        /\ UNCHANGED <<storeVars, bound, forgotten>>
    BY <1>11 DEF Reset
  <2>3. ASSUME NEW d \in DisplayIds
        PROVE  Remembers(entries'[d], d, bound'[d], forgotten'[d])
    <3>1. entries'[d] = IF entries[d] = NoEntry THEN NoEntry ELSE [entries[d] EXCEPT !.ring = 0]
      BY <2>2
    <3>2. PICK e : e = entries'[d]
      OBVIOUS
    <3>3. ASSUME entries[d] # NoEntry
          PROVE  /\ e # NoEntry /\ e.peer = entries[d].peer /\ e.cookie = entries[d].cookie
                 /\ e.generation = entries[d].generation /\ e.lease = entries[d].lease
                 /\ e.owner = entries[d].owner
      <4>1. 0 \in 0..MaxRing
        BY BoundsAssumption
      <4>2. e = [entries[d] EXCEPT !.ring = 0] /\ e \in EntryRecord
        BY <2>1, <3>1, <3>2, <3>3, <4>1 DEF EntryRecord
      <4> QED
        BY <2>1, <3>3, <4>2, NullsAssumption DEF EntryRecord
    <3>4. Remembers(entries[d], d, bound[d], forgotten[d])
      BY DEF Remembered
    <3>5. Remembers(e, d, bound[d], forgotten[d])
      <4>1. entries[d] = NoEntry => e = NoEntry
        BY <3>1, <3>2
      <4> QED
        BY <3>3, <3>4, <4>1 DEF Remembers, Fences
    <3> QED
      BY <2>2, <3>2, <3>5
  <2> QED
    BY <2>2, <2>3, ServerRemembers DEF Remembered
<1>12. ASSUME NEW d \in DisplayIds, NEW g \in 1..MaxGeneration, Snapshot(d, g)
       PROVE  Remembered'
  BY <1>10, <1>12 DEF Snapshot
<1>13. ASSUME NEW g \in enabled, ProducerRetires(g)
       PROVE  Remembered'
  BY <1>10, <1>13 DEF ProducerRetires
<1>14. ASSUME UNCHANGED vars
       PROVE  Remembered'
  BY <1>10, <1>14 DEF vars, ringVars
<1> QED
  BY <1>2, <1>3, <1>4, <1>5, <1>7, <1>8, <1>9, <1>11, <1>12, <1>13, <1>14 DEF Next, Reaper

-----------------------------------------------------------------------------
(* Late duplicates.                                                        *)

\* What LateDuplicatesFenced says of a step.
FencesDuplicates ==
    \A d \in DisplayIds :
        rings'[d] # NoRing /\ (rings[d] = NoRing \/ rings'[d].ring # rings[d].ring) =>
            \/ \A b \in bound[d] : b[1] = entries'[d].peer /\ b[2] < entries'[d].cookie
            \/ forgotten[d] # 0 /\ forgotten'[d] = 0

\* What only takes rings away registers none.
LEMMA TakingFences ==
  ASSUME \A d \in DisplayIds : rings'[d] \in {rings[d], NoRing}
  PROVE  FencesDuplicates
BY DEF FencesDuplicates

\* A registration that is not late has a newer cookie of the same process.
LEMMA RegisterFences ==
  ASSUME IndInv, StoreTheory!IndInv, Remembered, NEW r \in Requests, NEW t \in Nat, Register(r, t)
  PROVE  FencesDuplicates
<1> DEFINE R == RetireUnavailable(RingsAfterReap(t), t)
<1>1. PICK d \in DisplayIds : d = r.display
  BY RequestsTyped DEF RequestRecord
<1>2. PICK old : old = EntriesAfterReap(t)[d]
  OBVIOUS
<1>3. Authorized(d, r, t) /\ (old # NoEntry => old.peer = r.peer /\ r.cookie > old.cookie)
  BY <1>1, <1>2 DEF Register, NewerCookie
<1>4. /\ EntriesAfterReap(t) \in EntryTables /\ RingsAfterReap(t) \in RingTables
      /\ \A x \in DisplayIds : RingsAfterReap(t)[x] \in {rings[x], NoRing}
  BY ReapKeepsNames
<1>5. R \in RingTables /\ \A x \in DisplayIds : R[x] \in {RingsAfterReap(t)[x], NoRing}
  BY <1>4, UnavailableTaken
<1>6. rings' = [R EXCEPT ![d] = Ring(r, nextRing)]
      /\ entries' = [EntriesAfterReap(t) EXCEPT ![d] = Entry(r, nextRing)]
  BY <1>1 DEF Register
<1> HIDE DEF R
<1>7. \A x \in DisplayIds \ {d} : rings'[x] \in {rings[x], NoRing}
  BY <1>4, <1>5, <1>6 DEF RingTables
<1>8. entries'[d].peer = r.peer /\ entries'[d].cookie = r.cookie
  BY <1>4, <1>6 DEF EntryTables, Entry
<1>9. ASSUME ~Late(d, t), NEW b \in bound[d]
      PROVE  b[1] = r.peer /\ b[2] < r.cookie
  <2>1. Fences(old, d, bound[d])
    BY <1>2, <1>3, <1>9, EntryMet
  <2>2. old # NoEntry /\ b[1] = old.peer /\ b[2] <= old.cookie
    BY <1>9, <2>1 DEF Fences
  <2>3. b[2] \in Int /\ old.cookie \in Int /\ r.cookie \in Int
    <3>1. b \in Peers \X Cookies
      BY <1>9 DEF Remembered
    <3>2. old \in EntryRecord
      BY <1>2, <2>2, ReapRemembers
    <3>3. r.cookie \in Cookies
      BY RequestsTyped DEF RequestRecord
    <3> QED
      BY <3>1, <3>2, <3>3, BoundsAssumption DEF EntryRecord, Cookies
  <2> QED
    BY <1>3, <2>2, <2>3
<1>10. ASSUME Late(d, t)
       PROVE  forgotten[d] # 0 /\ forgotten'[d] = 0
  <2>1. forgotten' = [ForgottenAfterReap(t) EXCEPT ![d] = 0]
    BY <1>1, <1>10 DEF Register, Bind
  <2>2. forgotten[d] \in Nat /\ ForgottenAfterReap(t) \in [DisplayIds -> Nat]
    BY ForgottenTyped DEF Remembered
  <2> QED
    BY <1>10, <2>1, <2>2 DEF Late
<1> QED
  BY <1>7, <1>8, <1>9, <1>10 DEF FencesDuplicates

\* Only a registration gives a display another ring.
LEMMA StepFences ==
  ASSUME IndInv, StoreTheory!IndInv, Remembered, [Next]_vars
  PROVE  FencesDuplicates
<1>1. \A t \in Store!RequestTimes : t \in Nat
  BY ReadingsAreNat
<1>2. ASSUME NEW t, NEW R, ReplaceRings(R),
             \A d \in DisplayIds : R[d] \in {RingsAfterReap(t)[d], NoRing}
      PROVE  FencesDuplicates
  <2>1. \A d \in DisplayIds : rings'[d] \in {rings[d], NoRing}
    BY <1>2, ReapKeepsNames DEF ReplaceRings
  <2> QED
    BY <2>1, TakingFences
<1>3. ASSUME NEW r \in Requests, NEW t \in Store!RequestTimes, RegisterStale(r, t)
      PROVE  FencesDuplicates
  BY <1>2, <1>3 DEF RegisterStale
<1>4. ASSUME NEW r \in Requests, NEW t \in Store!RequestTimes, NEW g \in 0..MaxRing, ClearRefused(r, g, t)
      PROVE  FencesDuplicates
  BY <1>2, <1>4 DEF ClearRefused
<1>5. ASSUME NEW r \in Requests, NEW t \in Store!RequestTimes, Register(r, t)
      PROVE  FencesDuplicates
  BY <1>1, <1>5, RegisterFences
<1>6. ASSUME NEW t, NEW d \in DisplayIds,
             ReplaceRings(IF EntriesAfterReap(t)[d] = NoEntry THEN RingsAfterReap(t)
                          ELSE Retire(RingsAfterReap(t), d, EntriesAfterReap(t)[d].generation,
                                      EntriesAfterReap(t)[d].ring))
      PROVE  FencesDuplicates
  <2>1. PICK R : R = IF EntriesAfterReap(t)[d] = NoEntry THEN RingsAfterReap(t)
                     ELSE Retire(RingsAfterReap(t), d, EntriesAfterReap(t)[d].generation,
                                 EntriesAfterReap(t)[d].ring)
    OBVIOUS
  <2>2. ReplaceRings(R)
    BY <1>6, <2>1
  <2>3. R = RingsAfterReap(t) \/ R = [RingsAfterReap(t) EXCEPT ![d] = NoRing]
    BY <2>1, Zenon DEF Retire
  <2>4. \A x \in DisplayIds : R[x] \in {RingsAfterReap(t)[x], NoRing}
    BY <2>3, ReapKeepsNames DEF RingTables
  <2> QED
    BY <1>2, <2>2, <2>4
<1>7. ASSUME NEW r \in Requests, NEW t \in Store!RequestTimes, RegisterFailed(r, t)
      PROVE  FencesDuplicates
  <2>1. r.display \in DisplayIds
    BY RequestsTyped DEF RequestRecord
  <2> QED
    BY <1>6, <1>7, <2>1 DEF RegisterFailed
<1>8. ASSUME NEW r \in Requests, NEW t \in Store!RequestTimes, NEW g \in 0..MaxRing, Clear(r, g, t)
      PROVE  FencesDuplicates
  <2>1. r.display \in DisplayIds
    BY RequestsTyped DEF RequestRecord
  <2> QED
    BY <1>6, <1>8, <2>1 DEF Clear
<1>9. ASSUME NEW t \in Store!RequestTimes, Reap(t)
      PROVE  FencesDuplicates
  <2>1. PICK R : R = RetireUnavailable(RingsAfterReap(t), now)
    OBVIOUS
  <2>2. \A d \in DisplayIds : R[d] \in {RingsAfterReap(t)[d], NoRing}
    BY <2>1, ReapKeepsNames, UnavailableTaken
  <2>3. ReplaceRings(R)
    BY <1>9, <2>1 DEF Reap
  <2> QED
    BY <1>2, <2>2, <2>3
<1>10. ASSUME NEW d \in DisplayIds, NEW g \in 1..MaxGeneration, Snapshot(d, g)
       PROVE  FencesDuplicates
  BY <1>10, TakingFences DEF Snapshot, ReplaceRings, IndInv, TablesTyped, RingTables
<1>11. CASE Reset
  BY <1>11, TakingFences DEF Reset, ReplaceRings
<1>12. ASSUME rings' = rings
       PROVE  FencesDuplicates
  BY <1>12, TakingFences
<1>13. ASSUME StoreStep \/ (\E g \in enabled : ProducerRetires(g)) \/ UNCHANGED vars
       PROVE  rings' = rings
  BY <1>13 DEF StoreStep, ProducerRetires, vars, ringVars
<1> QED
  BY <1>3, <1>4, <1>5, <1>7, <1>8, <1>9, <1>10, <1>11, <1>12, <1>13 DEF Next, Reaper

\* Whatever the clock readings of the requests: as long as a display stays with its lease, a
\* new ring is of the process that came first and has a cookie newer than all it registered or
\* cancelled, unless the request, or the feed that brought the lease back, read the clock before
\* the reap that dropped the entry did (FrameRingServer::register_ring, clear and reap, the entry
\* that stays as a tombstone).
THEOREM LateDuplicatesAlwaysFenced == Spec => LateDuplicatesFenced
<1>1. Init => Remembered
  BY DEF Init, Remembered, Remembers
<1>2. IndInv /\ StoreTheory!IndInv /\ Remembered /\ [Next]_vars => Remembered'
  BY StepRemembers
<1>3. IndInv /\ StoreTheory!IndInv /\ Remembered /\ [Next]_vars => [FencesDuplicates]_vars
  BY StepFences
<1>4. LateDuplicatesFenced <=> [][FencesDuplicates]_vars
  BY DEF LateDuplicatesFenced, FencesDuplicates
<1> QED
  BY <1>1, <1>2, <1>3, <1>4, FrameRingInvariant, StoreInvariantKept, PTL DEF Spec
=============================================================================
