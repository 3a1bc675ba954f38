------------------------ MODULE IddCxBackend_proofs ------------------------
(***************************************************************************)
(* The monitors of the Windows driver, for any number of arrivals,         *)
(* requests, faults and swapchains: what refuses requests goes away again, *)
(* an arrival that came too late is accounted for, and every swapchain     *)
(* processor has one owner and closes its swapchain once at most.          *)
(*                                                                         *)
(* It rests on the two marks of a monitor record.  A record marked as      *)
(* arriving belongs to the worker of its arrival, one marked as departing  *)
(* to a single thread, or to the departure worker this thread left behind; *)
(* nobody else takes the mark off or removes the record.  A callback in    *)
(* progress is counted in the record, which no departure takes away until  *)
(* the count is zero: so a thread that stops processors is alone with      *)
(* them, and a callback's processor is its own until it hands it over.     *)
(***************************************************************************)
EXTENDS IddCxBackend, FiniteSetTheorems, TLAPS

\* The fields of a thread and of a callback; where they are is left open.
IsThread(x) ==
    /\ x = [at |-> x.at, generation |-> x.generation, then |-> x.then, failed |-> x.failed,
            active |-> x.active, holds |-> x.holds]
    /\ x.generation \in 0..MaxGeneration
    /\ x.active \in SwapChains \cup {NoChain} /\ x.holds \subseteq SwapChains

IsCallback(x) ==
    /\ x = [at |-> x.at, generation |-> x.generation, chain |-> x.chain, holds |-> x.holds]
    /\ x.generation \in 0..MaxGeneration /\ x.holds \subseteq SwapChains
    /\ x.at = "assign" => x.chain \in SwapChains
    /\ x.at = "retire" => x.holds # {}

ThreadsTyped ==
    /\ threads = [t \in Threads |-> threads[t]]
    /\ \A t \in Threads : IsThread(threads[t])

Types ==
    /\ monitor \in MonitorRecord \cup {NoMonitor}
    /\ ThreadsTyped
    /\ arrival \in [Generations -> [done : BOOLEAN, timedOut : BOOLEAN]]
    /\ departing \in [Threads \X Generations -> {"none", "calling", "departed", "failed"}]
    /\ IsCallback(callback)
    /\ deferred \subseteq SwapChains /\ leaked \subseteq SwapChains

DepartSites == {"depart", "awaitCallbacks", "stopping", "awaitDeparture"}

\* The thread has marked the monitor of generation g, and its departure worker runs.
Leaves(t) == threads[t].at \in {"awaitCallbacks", "stopping"}
Leaving(t, g) == Leaves(t) /\ threads[t].generation = g
Calling(t, g) == departing[<<t, g>>] = "calling"

ArrivalWorks(g) == threads[g].at \in {"arrive", "arrived"}

\* Every mark of the record has one owner, and no owner has lost its record.
HasMarked(t) == Leaves(t) => Is(threads[t].generation) /\ monitor.departing
SomeOwner(g) == \E t \in Threads : Leaving(t, g) \/ Calling(t, g)
MarkOwned ==
    monitor # NoMonitor /\ monitor.departing => ~monitor.arriving /\ SomeOwner(monitor.generation)

Marks ==
    /\ MarkOwned
    /\ \A t \in Threads : HasMarked(t)
    /\ \A t \in Threads, g \in Generations : Calling(t, g) => Is(g) /\ monitor.departing
    /\ \A t, o \in Threads, g \in Generations :
           (Leaving(t, g) \/ Calling(t, g)) /\ (Leaving(o, g) \/ Calling(o, g)) => t = o
    /\ \A t \in Threads, g \in Generations : ~(Leaving(t, g) /\ Calling(t, g))
    /\ \A g \in Generations : ArrivalWorks(g) <=> Is(g) /\ monitor.arriving

\* A worker of an arrival that has not inserted its record, or has reported its end.
BeforeInsert(x) ==
    \/ x.at \in {"idle", "heal", "create", "insert", "failed"}
    \/ x.at \in DepartSites /\ x.then = "create"

AfterReport(x) ==
    \/ x.at \in {"tag", "finish", "notify", "ended"}
    \/ x.at \in DepartSites /\ x.then = "finish"

Between(x) == x.at \in {"arrive", "arrived", "succeeded"}

\* What is known of an arrival, by how far its worker is.
ThenFits(t) ==
    threads[t].at \in DepartSites =>
        threads[t].then \in IF t \in Generations THEN {"create", "finish"} ELSE {"idle", "departed"}

Reported(g) ==
    /\ BeforeInsert(threads[g]) \/ Between(threads[g]) \/ AfterReport(threads[g])
    /\ BeforeInsert(threads[g]) => ~Is(g)
    /\ AfterReport(threads[g]) => arrival[g].done \/ arrival[g].timedOut
    /\ threads[g].at = "idle" => ~arrival[g].done /\ ~arrival[g].timedOut
    /\ arrival[g].timedOut /\ Is(g) /\ AfterReport(threads[g]) /\ threads[g].at # "tag" => monitor.orphan

\* The controller waits for an arrival it has asked for, and not in vain.
Awaited(g) == threads[g].at # "idle" /\ ~arrival[g].timedOut
ControllerWaits ==
    threads[Controller].at = "awaitArrival" =>
        threads[Controller].generation \in Generations /\ Awaited(threads[Controller].generation)

Reports ==
    /\ \A t \in Threads : ThenFits(t)
    /\ \A g \in Generations : Reported(g)
    /\ ControllerWaits

Landed == {"idle", "notify", "ended"}
InFlight == {g \in Generations : threads[g].at \notin Landed}
SomeCalling == \E t \in Threads, g \in Generations : Calling(t, g)

\* The counts are those of the workers, and the flag waits for one of them.
Counts ==
    /\ arrivals = Cardinality(InFlight)
    /\ departures = IF SomeCalling THEN 1 ELSE 0
    /\ unhealthy => arrivals + departures > 0 \/ RenderInFlight
    /\ \E k \in 0..MaxGeneration : Asked = 1..k

ModesRegistered == registered = {g \in Generations : Is(g) \/ threads[g].at = "insert"}

IndInv == Types /\ Marks /\ Reports /\ Counts /\ ModesRegistered

-----------------------------------------------------------------------------
(* What a thread becomes.                                                  *)

Moved(t) ==
    /\ threads' = [o \in Threads |-> threads'[o]]
    /\ IsThread(threads'[t])
    /\ \A o \in Threads \ {t} : threads'[o] = threads[o]

LEMMA IdleThread ==
  IsThread(Idle) /\ Idle.at = "idle" /\ Idle.then = "idle" /\ Idle.active = NoChain /\ Idle.holds = {}
<1>1. 0 \in 0..MaxGeneration
  BY BoundsAssumption
<1> QED
  BY <1>1 DEF Idle, IsThread

\* A thread elsewhere.
LEMMA ThreadAt ==
  ASSUME NEW x, IsThread(x), NEW at
  PROVE  LET y == [x EXCEPT !.at = at]
         IN  /\ IsThread(y) /\ y.at = at /\ y.generation = x.generation /\ y.then = x.then
             /\ y.active = x.active /\ y.holds = x.holds
BY DEF IsThread

LEMMA Going ==
  ASSUME ThreadsTyped, NEW t \in Threads, NEW at, Goes(t, at)
  PROVE  /\ Moved(t) /\ threads'[t].at = at
         /\ threads'[t].generation = threads[t].generation /\ threads'[t].then = threads[t].then
         /\ threads'[t].active = threads[t].active /\ threads'[t].holds = threads[t].holds
<1> DEFINE y == [threads[t] EXCEPT !.at = at]
<1>1. threads' = [threads EXCEPT ![t] = y]
  BY DEF Goes
<1>2. IsThread(threads[t]) /\ threads = [o \in Threads |-> threads[o]]
  BY DEF ThreadsTyped
<1>3. /\ IsThread(y) /\ y.at = at /\ y.generation = threads[t].generation
      /\ y.then = threads[t].then /\ y.active = threads[t].active /\ y.holds = threads[t].holds
  BY <1>2, ThreadAt
<1> HIDE DEF y
<1> QED
  BY <1>1, <1>2, <1>3 DEF Moved

\* A thread that is to depart the monitor of generation g.
Departing(x, g, then) == [x EXCEPT !.at = "depart", !.generation = g, !.then = then]

LEMMA DepartingRecord ==
  ASSUME NEW x, IsThread(x), NEW g \in 0..MaxGeneration, NEW then
  PROVE  LET y == Departing(x, g, then)
         IN  /\ IsThread(y) /\ y.at = "depart" /\ y.generation = g /\ y.then = then
             /\ y.active = x.active /\ y.holds = x.holds
<1> DEFINE u == [x EXCEPT !.at = "depart"]
           v == [u EXCEPT !.generation = g]
           y == [v EXCEPT !.then = then]
<1>1. IsThread(u) /\ u.at = "depart" /\ u.active = x.active /\ u.holds = x.holds
  BY DEF IsThread
<1> HIDE DEF u
<1>2. /\ IsThread(v) /\ v.at = "depart" /\ v.generation = g
      /\ v.active = x.active /\ v.holds = x.holds
  BY <1>1 DEF IsThread
<1> HIDE DEF v
<1>3. /\ IsThread(y) /\ y.at = "depart" /\ y.generation = g /\ y.then = then
      /\ y.active = x.active /\ y.holds = x.holds
  BY <1>2 DEF IsThread
<1>4. y = Departing(x, g, then)
  BY DEF u, v, Departing
<1> HIDE DEF y
<1> QED
  BY <1>3, <1>4

LEMMA GoingToDepart ==
  ASSUME ThreadsTyped, NEW t \in Threads, NEW g \in 0..MaxGeneration, NEW then, Departs(t, g, then)
  PROVE  /\ Moved(t) /\ threads'[t].at = "depart"
         /\ threads'[t].generation = g /\ threads'[t].then = then
         /\ threads'[t].active = threads[t].active /\ threads'[t].holds = threads[t].holds
<1> DEFINE y == Departing(threads[t], g, then)
<1>1. threads' = [threads EXCEPT ![t] = y]
  BY Zenon DEF Departs, Departing
<1>2. IsThread(threads[t]) /\ threads = [o \in Threads |-> threads[o]]
  BY DEF ThreadsTyped
<1>3. /\ IsThread(y) /\ y.at = "depart" /\ y.generation = g /\ y.then = then
      /\ y.active = threads[t].active /\ y.holds = threads[t].holds
  BY <1>2, DepartingRecord
<1> HIDE DEF y
<1> QED
  BY <1>1, <1>2, <1>3 DEF Moved

\* A thread goes on with the answer of its departure.
Onward(x, answer) == IF answer = "Failed" /\ x.then = "create" THEN "failed" ELSE x.then

LEMMA GoingOn ==
  ASSUME ThreadsTyped, NEW t \in Threads, NEW answer, AnswersDeparture(t, answer)
  PROVE  /\ Moved(t) /\ threads'[t].at = Onward(threads[t], answer)
         /\ threads'[t].active = NoChain /\ threads'[t].holds = {}
<1> DEFINE b == t = Cleanup /\ answer = "Failed"
           u == [Idle EXCEPT !.at = Onward(threads[t], answer)]
           y == [u EXCEPT !.failed = b]
<1>1. threads' = [threads EXCEPT ![t] = [Idle EXCEPT !.at = Onward(threads[t], answer), !.failed = b]]
  BY Zenon DEF AnswersDeparture, Onward
<1> HIDE DEF b
<1>2. IsThread(u) /\ u.at = Onward(threads[t], answer) /\ u.active = NoChain /\ u.holds = {}
  BY IdleThread, ThreadAt
<1>3. y = [Idle EXCEPT !.at = Onward(threads[t], answer), !.failed = b]
  OBVIOUS
<1> HIDE DEF u
<1>4. IsThread(y) /\ y.at = Onward(threads[t], answer) /\ y.active = NoChain /\ y.holds = {}
  BY <1>2 DEF IsThread
<1>5. threads' = [threads EXCEPT ![t] = y]
  BY <1>1, <1>3, Zenon
<1>6. threads = [o \in Threads |-> threads[o]]
  BY DEF ThreadsTyped
<1> HIDE DEF y
<1> QED
  BY <1>4, <1>5, <1>6 DEF Moved

-----------------------------------------------------------------------------
(* What a step keeps, if it moves no mark and no worker past its record.   *)

\* The record of the display is the same, under the same marks.
SameRecord ==
    /\ monitor = NoMonitor <=> monitor' = NoMonitor
    /\ monitor # NoMonitor =>
           /\ monitor'.generation = monitor.generation
           /\ monitor'.arriving = monitor.arriving
           /\ monitor'.departing = monitor.departing
           /\ monitor.orphan => monitor'.orphan

\* A thread that has marked no record as departing, or none at all.
Away(x) == x.at \notin {"awaitCallbacks", "stopping"}
Unmarked(x) == x.at \notin {"awaitCallbacks", "stopping", "arrive", "arrived"}

LEMMA SameIs ==
  ASSUME SameRecord, NEW g
  PROVE  Is(g)' <=> Is(g)
BY DEF SameRecord, Is

LEMMA MarksKept ==
  ASSUME Types, Marks, SameRecord,
         \A o \in Threads : threads'[o] = threads[o] \/ (Away(threads[o]) /\ Away(threads'[o])),
         \A g \in Generations : ArrivalWorks(g)' <=> ArrivalWorks(g),
         \A o \in Threads, g \in Generations : Calling(o, g)' <=> Calling(o, g)
  PROVE  Marks'
<1>1. \A t \in Threads : Leaves(t)' => Leaves(t) /\ threads'[t] = threads[t]
  BY DEF Leaves, Away
<1>2. \A t \in Threads : Leaves(t) => threads'[t] = threads[t]
  BY DEF Leaves, Away
<1>3. \A t \in Threads : \A g : Leaving(t, g)' <=> Leaving(t, g)
  BY <1>1, <1>2 DEF Leaving, Leaves
<1>4. \A g : Is(g)' <=> Is(g)
  BY SameIs
<1>6. \A g : Is(g) => /\ monitor'.departing = monitor.departing /\ monitor'.arriving = monitor.arriving
                     /\ monitor'.generation = monitor.generation
  BY DEF Is, SameRecord
<1>7. ASSUME NEW t \in Threads PROVE HasMarked(t)'
  BY <1>1, <1>4, <1>6 DEF Marks, HasMarked
<1>8. \A t \in Threads, g \in Generations : Calling(t, g)' => Is(g)' /\ monitor'.departing
  BY <1>4, <1>6 DEF Marks
<1>9. MarkOwned'
  <2>1. SUFFICES ASSUME monitor' # NoMonitor, monitor'.departing
        PROVE  ~monitor'.arriving /\ SomeOwner(monitor.generation)'
    BY DEF MarkOwned
  <2>2. /\ monitor # NoMonitor /\ monitor.departing /\ ~monitor'.arriving
        /\ monitor'.generation = monitor.generation /\ monitor.generation \in Generations
    BY <2>1 DEF Marks, MarkOwned, SameRecord, Types, MonitorRecord
  <2>3. PICK t \in Threads : Leaving(t, monitor.generation) \/ Calling(t, monitor.generation)
    BY <2>2 DEF Marks, MarkOwned, SomeOwner
  <2>4. Leaving(t, monitor.generation)' \/ Calling(t, monitor.generation)'
    <3> DEFINE g == monitor.generation
    <3>1. Leaving(t, g)' \/ Calling(t, g)'
      BY <2>2, <2>3, <1>3
    <3> QED
      BY <3>1, <2>2 DEF Leaving, Leaves, Calling
  <2> QED
    BY <2>2, <2>4 DEF SomeOwner
<1> QED
  BY <1>3, <1>4, <1>6, <1>7, <1>8, <1>9 DEF Marks

\* No record appears, and one that stays keeps its tag.
KeepsRecord(g) == Is(g)' => Is(g) /\ (monitor.orphan => monitor'.orphan)
NoNewRecord == \A g : KeepsRecord(g)

LEMMA SameRecordIsNoNew ==
  ASSUME SameRecord
  PROVE  NoNewRecord
BY DEF SameRecord, NoNewRecord, KeepsRecord, Is

Stays(g) == threads'[g] = threads[g] /\ arrival'[g] = arrival[g]

LEMMA ReportsKept ==
  ASSUME Reports,
         \A o \in Threads : threads'[o] = threads[o] \/ ThenFits(o)',
         \A g \in Generations : (Stays(g) /\ KeepsRecord(g)) \/ Reported(g)',
         \A g \in Generations : Awaited(g) => Awaited(g)',
         threads'[Controller] = threads[Controller] \/ threads'[Controller].at # "awaitArrival"
  PROVE  Reports'
<1>1. ASSUME NEW o \in Threads PROVE ThenFits(o)'
  BY DEF Reports, ThenFits
<1>2. ASSUME NEW g \in Generations, Stays(g), KeepsRecord(g) PROVE Reported(g)'
  <2>1. Reported(g)
    BY DEF Reports
  <2>2. Is(g)' => Is(g) /\ (monitor.orphan => monitor'.orphan)
    BY <1>2 DEF KeepsRecord
  <2>3. (BeforeInsert(threads[g]))' <=> BeforeInsert(threads[g])
    BY <1>2 DEF Stays, BeforeInsert
  <2>4. (AfterReport(threads[g]))' <=> AfterReport(threads[g])
    BY <1>2 DEF Stays, AfterReport
  <2>5. (Between(threads[g]))' <=> Between(threads[g])
    BY <1>2 DEF Stays, Between
  <2> QED
    BY <1>2, <2>1, <2>2, <2>3, <2>4, <2>5 DEF Reported, Stays
<1>3. ControllerWaits'
  <2>1. SUFFICES ASSUME threads'[Controller].at = "awaitArrival"
        PROVE  (threads[Controller].generation \in Generations
                /\ Awaited(threads[Controller].generation))'
    BY DEF ControllerWaits
  <2> DEFINE g == threads[Controller].generation
  <2>2. threads'[Controller] = threads[Controller]
    BY <2>1
  <2>3. g \in Generations /\ Awaited(g)
    BY <2>1, <2>2 DEF Reports, ControllerWaits
  <2>4. Awaited(g) => threads'[g].at # "idle" /\ ~arrival'[g].timedOut
    BY <2>3 DEF Awaited
  <2> QED
    BY <2>2, <2>3, <2>4 DEF Awaited
<1> QED
  BY <1>1, <1>2, <1>3 DEF Reports

LEMMA CountsKept ==
  ASSUME Counts,
         \A g \in Generations : threads'[g].at \in Landed <=> threads[g].at \in Landed,
         \A g \in Generations : threads'[g].at = "idle" <=> threads[g].at = "idle",
         \A o \in Threads, g \in Generations : Calling(o, g)' <=> Calling(o, g),
         arrivals' = arrivals, departures' = departures,
         unhealthy' => arrivals + departures > 0 \/ RenderInFlight'
  PROVE  Counts'
<1>1. InFlight' = InFlight
  BY DEF InFlight
<1>2. Asked' = Asked
  BY DEF Asked
<1>3. SomeCalling' <=> SomeCalling
  BY DEF SomeCalling
<1> QED
  BY <1>1, <1>2, <1>3 DEF Counts

LEMMA ModesKept ==
  ASSUME ModesRegistered, SameRecord, registered' = registered,
         \A g \in Generations : threads'[g].at = "insert" <=> threads[g].at = "insert"
  PROVE  ModesRegistered'
BY SameIs DEF ModesRegistered

-----------------------------------------------------------------------------
(* Moves of one thread.                                                    *)

\* Every worker of an arrival is as far as it was, as the counts and the modes see it.
SameWorkers ==
    \A g \in Generations :
        /\ threads'[g].at \in Landed <=> threads[g].at \in Landed
        /\ threads'[g].at = "idle" <=> threads[g].at = "idle"
        /\ threads'[g].at = "insert" <=> threads[g].at = "insert"

\* The invariant but for the types.
Elsewhere == Marks' /\ Reports' /\ Counts' /\ ModesRegistered'

HealthKept == unhealthy' => arrivals + departures > 0 \/ RenderInFlight'

LEMMA MovedTyped ==
  ASSUME ThreadsTyped, NEW t \in Threads, Moved(t)
  PROVE  ThreadsTyped'
<1>1. ASSUME NEW o \in Threads PROVE IsThread(threads'[o])
  BY DEF ThreadsTyped, Moved
<1>2. threads' = [o \in Threads |-> threads'[o]]
  BY DEF Moved
<1>3. ASSUME NEW o \in Threads PROVE IsThread(threads[o])'
  BY <1>1 DEF IsThread
<1> QED
  BY <1>2, <1>3 DEF ThreadsTyped

\* A caller, which is no worker of an arrival.
LEMMA CallerMoves ==
  ASSUME IndInv, NEW t \in {Controller, Reaper, Cleanup}, Moved(t), ThenFits(t)', NoNewRecord,
         arrival' = arrival, threads'[Controller] = threads[Controller]
                             \/ threads'[Controller].at # "awaitArrival"
  PROVE  Reports' /\ SameWorkers
<1>1. t \in Threads /\ t \notin Generations
  BY ThreadsAssumption DEF Threads
<1>2. \A g \in Generations : threads'[g] = threads[g]
  BY <1>1 DEF Moved, Threads
<1>3. \A o \in Threads : threads'[o] = threads[o] \/ ThenFits(o)'
  BY <1>1 DEF Moved
<1>4. \A g \in Generations : Stays(g) /\ KeepsRecord(g)
  BY <1>2 DEF Stays, NoNewRecord
<1>5. \A g \in Generations : Awaited(g) => Awaited(g)'
  BY <1>2 DEF Awaited
<1> QED
  BY <1>2, <1>3, <1>4, <1>5, ReportsKept DEF IndInv, SameWorkers

\* A worker of an arrival that moves on among the places where it has no record to mark.
LEMMA WorkerMoves ==
  ASSUME IndInv, NEW t \in Generations, Moved(t), ThenFits(t)', Reported(t)',
         \A g \in Generations \ {t} : KeepsRecord(g),
         arrival' = arrival \/ arrival' = [arrival EXCEPT ![t].done = TRUE],
         threads'[t].at # "idle"
  PROVE  Reports'
<1>1. t \in Threads /\ t # Controller
  BY ThreadsAssumption DEF Threads
<1>2. \A g \in Generations \ {t} : Stays(g)
  BY DEF Moved, Threads, Stays, IndInv, Types
<1>3. \A g \in Generations : Awaited(g) => Awaited(g)'
  <2>1. \A g \in Generations : arrival'[g].timedOut = arrival[g].timedOut
    BY DEF IndInv, Types
  <2> QED
    BY <1>2, <2>1 DEF Awaited, Stays
<1>4. \A o \in Threads : threads'[o] = threads[o] \/ ThenFits(o)'
  BY <1>1 DEF Moved
<1>5. threads'[Controller] = threads[Controller]
  BY <1>1 DEF Moved, Threads
<1> QED
  BY <1>2, <1>3, <1>4, <1>5, ReportsKept DEF IndInv

LEMMA AnswerMoves ==
  ASSUME IndInv, NEW t \in Threads, threads[t].at \in DepartSites, NEW answer,
         AnswersDeparture(t, answer), arrival' = arrival, NoNewRecord
  PROVE  Moved(t) /\ Unmarked(threads'[t]) /\ Reports' /\ SameWorkers
<1>1. Moved(t) /\ threads'[t].at = Onward(threads[t], answer)
  BY GoingOn DEF IndInv, Types
<1>2. threads[t].then \in IF t \in Generations THEN {"create", "finish"} ELSE {"idle", "departed"}
  BY DEF IndInv, Reports, ThenFits
<1>3. CASE t \in Generations
  <2>1. \/ threads[t].then = "create" /\ threads'[t].at \in {"create", "failed"}
        \/ threads[t].then = "finish" /\ threads'[t].at = "finish"
    BY <1>1, <1>2, <1>3 DEF Onward
  <2>2. Unmarked(threads'[t]) /\ ThenFits(t)' /\ threads'[t].at # "idle"
    BY <2>1 DEF Unmarked, ThenFits, DepartSites
  <2>3. Reported(t)
    BY <1>3 DEF IndInv, Reports
  <2>4. Is(t)' => Is(t) /\ (monitor.orphan => monitor'.orphan)
    BY DEF NoNewRecord, KeepsRecord
  <2>5. Reported(t)'
    <3>1. CASE threads[t].then = "create"
      <4>1. BeforeInsert(threads[t]) /\ threads'[t].at \in {"create", "failed"}
        BY <2>1, <3>1 DEF BeforeInsert
      <4> QED
        BY <4>1, <2>3, <2>4 DEF Reported, BeforeInsert, AfterReport, Between, DepartSites
    <3>2. CASE threads[t].then = "finish"
      <4>1. AfterReport(threads[t]) /\ threads[t].at # "tag" /\ threads'[t].at = "finish"
        BY <2>1, <3>2 DEF AfterReport, DepartSites
      <4> QED
        BY <4>1, <2>3, <2>4 DEF Reported, BeforeInsert, AfterReport, Between, DepartSites
    <3> QED
      BY <3>1, <3>2, <2>1
  <2>6. Reports'
    BY <1>1, <1>3, <2>2, <2>5, WorkerMoves DEF NoNewRecord
  <2>7. \A g \in Generations \ {t} : threads'[g] = threads[g]
    BY <1>1 DEF Moved, Threads
  <2>8. SameWorkers
    BY <2>1, <2>7 DEF SameWorkers, Landed, DepartSites
  <2> QED
    BY <1>1, <2>2, <2>6, <2>8
<1>4. CASE t \notin Generations
  <2>1. t \in {Controller, Reaper, Cleanup}
    BY <1>4 DEF Threads
  <2>2. threads'[t].at \in {"idle", "departed"}
    BY <1>1, <1>2, <1>4 DEF Onward
  <2>3. Unmarked(threads'[t]) /\ ThenFits(t)'
    BY <2>2 DEF Unmarked, ThenFits, DepartSites
  <2>4. threads'[Controller] = threads[Controller] \/ threads'[Controller].at # "awaitArrival"
    BY <1>1, <2>2 DEF Moved, Threads
  <2> QED
    BY <1>1, <2>1, <2>3, <2>4, CallerMoves
<1> QED
  BY <1>3, <1>4

\* A thread that held no mark moves, and the record stays as it is.
LEMMA PlainMove ==
  ASSUME IndInv, NEW t \in Threads, Moved(t), Unmarked(threads[t]), Unmarked(threads'[t]),
         Reports', SameWorkers, SameRecord, HealthKept,
         \A o \in Threads, g \in Generations : Calling(o, g)' <=> Calling(o, g),
         arrivals' = arrivals, departures' = departures, registered' = registered
  PROVE  Elsewhere
<1>1. \A o \in Threads : threads'[o] = threads[o] \/ (Away(threads[o]) /\ Away(threads'[o]))
  BY DEF Moved, Unmarked, Away
<1>2. Marks'
  <2>1. \A g \in Generations : ArrivalWorks(g)' <=> ArrivalWorks(g)
    <3> TAKE g \in Generations
    <3>1. g \in Threads /\ (g # t => threads'[g] = threads[g])
      BY DEF Threads, Moved
    <3> QED
      BY <3>1 DEF ArrivalWorks, Unmarked
  <2> QED
    BY <1>1, <2>1, MarksKept DEF IndInv
<1>3. Counts'
  BY CountsKept DEF IndInv, SameWorkers, HealthKept
<1>4. ModesRegistered'
  BY ModesKept DEF IndInv, SameWorkers
<1> QED
  BY <1>2, <1>3, <1>4 DEF Elsewhere

\* The same, for a step that leaves the records alone.
LEMMA ThreadOnlyMove ==
  ASSUME IndInv, NEW t \in Threads, Moved(t), Unmarked(threads[t]), Unmarked(threads'[t]),
         Reports', SameWorkers, HealthKept,
         \A o \in Threads, g \in Generations : Calling(o, g)' <=> Calling(o, g),
         arrival' \in [Generations -> [done : BOOLEAN, timedOut : BOOLEAN]],
         departing' \in [Threads \X Generations -> {"none", "calling", "departed", "failed"}],
         UNCHANGED <<monitor, arrivals, departures, os, callback, deferred, leaked>>
  PROVE  IndInv'
<1>1. SameRecord
  BY DEF SameRecord
<1>2. Elsewhere
  BY <1>1, PlainMove DEF os
<1>3. ThreadsTyped'
  BY MovedTyped DEF IndInv, Types
<1>4. Types'
  BY <1>3 DEF IndInv, Types, IsCallback
<1> QED
  BY <1>2, <1>4 DEF IndInv, Elsewhere

LEMMA NothingNew ==
  ASSUME UNCHANGED monitor
  PROVE  NoNewRecord
BY DEF NoNewRecord, KeepsRecord, Is

-----------------------------------------------------------------------------
(* Departures that leave the record alone.                                 *)

LEMMA CountsTyped ==
  ASSUME IndInv
  PROVE  /\ IsFiniteSet(InFlight) /\ arrivals \in Nat /\ departures \in {0, 1}
<1>1. IsFiniteSet(Generations) /\ InFlight \subseteq Generations
  BY BoundsAssumption, FS_Interval DEF Generations, InFlight
<1> QED
  BY <1>1, FS_Subset, FS_CardinalityType DEF IndInv, Counts

LEMMA HealthUnchanged ==
  ASSUME IndInv, UNCHANGED <<counts, render>>
  PROVE  HealthKept
BY DEF IndInv, Counts, HealthKept, counts, RenderInFlight

\* A move with no effect on anything the invariant is about.
LEMMA QuietMove ==
  ASSUME IndInv, NEW t \in Threads, Moved(t), Unmarked(threads[t]), Unmarked(threads'[t]),
         Reports', SameWorkers,
         UNCHANGED <<monitor, counts, arrival, departing, render, os, chains>>
  PROVE  IndInv'
<1>1. /\ \A o \in Threads, h \in Generations : Calling(o, h)' <=> Calling(o, h)
      /\ UNCHANGED <<monitor, arrivals, departures, os, callback, deferred, leaked>>
      /\ arrival' \in [Generations -> [done : BOOLEAN, timedOut : BOOLEAN]]
      /\ departing' \in [Threads \X Generations -> {"none", "calling", "departed", "failed"}]
  BY DEF Calling, counts, chains, IndInv, Types
<1>2. HealthKept
  BY HealthUnchanged
<1> QED
  BY <1>1, <1>2, ThreadOnlyMove

LEMMA DepartAnswersAtOnceKeeps ==
  ASSUME IndInv, NEW t \in Threads, DepartAnswersAtOnce(t)
  PROVE  IndInv'
<1>1. /\ threads[t].at = "depart"
      /\ UNCHANGED <<monitor, counts, arrival, departing, render, os, chains>>
  BY DEF DepartAnswersAtOnce
<1>2. PICK answer : AnswersDeparture(t, answer)
  BY DEF DepartAnswersAtOnce
<1>3. threads[t].at \in DepartSites /\ Unmarked(threads[t])
  BY <1>1 DEF DepartSites, Unmarked
<1>4. Moved(t) /\ Unmarked(threads'[t]) /\ Reports' /\ SameWorkers
  BY <1>1, <1>2, <1>3, NothingNew, AnswerMoves
<1> QED
  BY <1>1, <1>3, <1>4, QuietMove

\* The departure worker's answer is dropped, or it goes on without being waited for.
LEMMA AnswerTakenKeeps ==
  ASSUME IndInv, NEW t \in Threads, threads[t].at = "awaitDeparture",
         NEW answer, AnswersDeparture(t, answer), HealthKept,
         \A w \in Threads \X Generations : departing'[w] = departing[w]
                \/ (departing[w] \in {"departed", "failed"} /\ departing'[w] = "none"),
         departing' = [w \in Threads \X Generations |-> departing'[w]],
         UNCHANGED <<monitor, arrivals, departures, arrival, os, callback, deferred, leaked>>
  PROVE  IndInv'
<1>1. threads[t].at \in DepartSites /\ Unmarked(threads[t])
  BY DEF DepartSites, Unmarked
<1>2. Moved(t) /\ Unmarked(threads'[t]) /\ Reports' /\ SameWorkers
  BY <1>1, NothingNew, AnswerMoves
<1>3. \A o \in Threads, g \in Generations : Calling(o, g)' <=> Calling(o, g)
  BY DEF Calling
<1>4. departing' \in [Threads \X Generations -> {"none", "calling", "departed", "failed"}]
  BY DEF IndInv, Types
<1>5. arrival' \in [Generations -> [done : BOOLEAN, timedOut : BOOLEAN]]
  BY DEF IndInv, Types
<1> QED
  BY <1>1, <1>2, <1>3, <1>4, <1>5, ThreadOnlyMove

LEMMA DepartEndsKeeps ==
  ASSUME IndInv, NEW t \in Threads, DepartEnds(t)
  PROVE  IndInv'
<1>1. /\ threads[t].at = "awaitDeparture"
      /\ departing[<<t, threads[t].generation>>] \in {"departed", "failed"}
      /\ departing' = [departing EXCEPT ![<<t, threads[t].generation>>] = "none"]
      /\ UNCHANGED <<monitor, counts, arrival, render, os, chains>>
  BY DEF DepartEnds
<1>2. PICK answer : AnswersDeparture(t, answer)
  BY DEF DepartEnds
<1>3. /\ \A w \in Threads \X Generations : departing'[w] = departing[w]
            \/ (departing[w] \in {"departed", "failed"} /\ departing'[w] = "none")
      /\ departing' = [w \in Threads \X Generations |-> departing'[w]]
  BY <1>1 DEF IndInv, Types
<1>4. HealthKept
  BY <1>1, HealthUnchanged
<1>5. UNCHANGED <<monitor, arrivals, departures, arrival, os, callback, deferred, leaked>>
  BY <1>1 DEF counts, chains
<1> QED
  BY <1>1, <1>2, <1>3, <1>4, <1>5, AnswerTakenKeeps

LEMMA DepartDetachesKeeps ==
  ASSUME IndInv, NEW t \in Threads, DepartDetaches(t)
  PROVE  IndInv'
<1> DEFINE w == <<t, threads[t].generation>>
           x == IF departing[w] \in {"departed", "failed"} THEN "none" ELSE departing[w]
<1>1. /\ threads[t].at = "awaitDeparture" /\ AnswersDeparture(t, "Failed")
      /\ unhealthy' = (unhealthy \/ departures > 0)
      /\ departing' = [departing EXCEPT ![w] = x]
      /\ UNCHANGED <<monitor, arrivals, departures, arrival, render, os, chains>>
  BY DEF DepartDetaches
<1>2. \A v \in Threads \X Generations : departing'[v] = departing[v]
            \/ (departing[v] \in {"departed", "failed"} /\ departing'[v] = "none")
  BY <1>1 DEF IndInv, Types
<1>3. departing' = [v \in Threads \X Generations |-> departing'[v]]
  BY <1>1 DEF IndInv, Types
<1>4. arrivals \in Nat /\ departures \in Nat
  BY CountsTyped
<1>5. HealthKept
  <2>1. unhealthy => arrivals + departures > 0 \/ RenderInFlight
    BY DEF IndInv, Counts
  <2>2. RenderInFlight' <=> RenderInFlight
    BY <1>1 DEF RenderInFlight
  <2>3. departures > 0 => arrivals + departures > 0
    BY <1>4
  <2>4. unhealthy' => unhealthy \/ departures > 0
    BY <1>1
  <2> QED
    BY <2>1, <2>2, <2>3, <2>4 DEF HealthKept
<1>6. UNCHANGED <<callback, deferred, leaked>>
  BY <1>1 DEF chains
<1> QED
  BY <1>1, <1>2, <1>3, <1>5, <1>6, AnswerTakenKeeps

-----------------------------------------------------------------------------
(* The worker of an arrival.                                               *)

\* Before it inserts its record, and after its report.
LEMMA EarlyMoves ==
  ASSUME IndInv, NEW g \in Generations, Moved(g), arrival' = arrival, NoNewRecord,
         BeforeInsert(threads[g]), BeforeInsert(threads'[g]), threads'[g].at # "idle"
  PROVE  Reports'
<1>1. Reported(g)
  BY DEF IndInv, Reports
<1>2. ~Is(g)'
  BY <1>1 DEF Reported, NoNewRecord, KeepsRecord
<1>3. ~AfterReport(threads'[g])
  BY DEF BeforeInsert, AfterReport, DepartSites
<1>4. Reported(g)'
  BY <1>2, <1>3 DEF Reported, BeforeInsert, AfterReport, Between
<1>5. ThenFits(g)'
  BY DEF ThenFits, BeforeInsert, DepartSites
<1> QED
  BY <1>4, <1>5, WorkerMoves DEF NoNewRecord

LEMMA LateMoves ==
  ASSUME IndInv, NEW g \in Generations, Moved(g), arrival' = arrival, NoNewRecord,
         AfterReport(threads[g]), AfterReport(threads'[g]), threads'[g].at # "tag",
         threads[g].at = "tag" => monitor' = NoMonitor \/ monitor'.generation # g \/ monitor'.orphan
  PROVE  Reports'
<1>1. Reported(g)
  BY DEF IndInv, Reports
<1>2. Is(g)' => Is(g) /\ (monitor.orphan => monitor'.orphan)
  BY DEF NoNewRecord, KeepsRecord
<1>3. ~BeforeInsert(threads'[g]) /\ threads'[g].at # "idle"
  BY DEF BeforeInsert, AfterReport, DepartSites
<1>4. arrival[g].timedOut /\ Is(g)' => monitor'.orphan
  BY <1>1, <1>2 DEF Reported, Is
<1>5. Reported(g)'
  BY <1>1, <1>3, <1>4 DEF Reported, BeforeInsert, AfterReport, Between
<1>6. ThenFits(g)'
  BY DEF ThenFits, AfterReport, DepartSites
<1> QED
  BY <1>3, <1>5, <1>6, WorkerMoves DEF NoNewRecord

\* What a move of one worker does to the sets the counts and the modes are about.
LEMMA OthersStay ==
  ASSUME NEW t \in Threads, Moved(t)
  PROVE  \A g \in Generations \ {t} : threads'[g] = threads[g]
BY DEF Moved, Threads

LEMMA WorkersSame ==
  ASSUME NEW t \in Generations, Moved(t),
         threads'[t].at \in Landed <=> threads[t].at \in Landed,
         threads'[t].at = "idle" <=> threads[t].at = "idle",
         threads'[t].at = "insert" <=> threads[t].at = "insert"
  PROVE  SameWorkers
<1>1. t \in Threads
  BY DEF Threads
<1> QED
  BY <1>1, OthersStay DEF SameWorkers

LEMMA ArrivalHealsKeeps ==
  ASSUME IndInv, NEW g \in Generations, ArrivalHeals(g)
  PROVE  IndInv'
<1>1. /\ threads[g].at = "heal" /\ g \in Threads
      /\ UNCHANGED <<monitor, counts, arrival, departing, render, os, chains>>
  BY DEF ArrivalHeals, Threads
<1>2. /\ Moved(g)
      /\ \/ threads'[g].at = "create"
         \/ threads'[g].at = "depart" /\ threads'[g].then = "create"
  <2>1. CASE Goes(g, "create")
    BY <1>1, <2>1, Going DEF IndInv, Types
  <2>2. CASE monitor # NoMonitor /\ Departs(g, monitor.generation, "create")
    <3>1. monitor.generation \in 0..MaxGeneration
      BY <2>2, BoundsAssumption DEF IndInv, Types, MonitorRecord, Generations
    <3> QED
      BY <1>1, <2>2, <3>1, GoingToDepart DEF IndInv, Types
  <2> QED
    BY <2>1, <2>2 DEF ArrivalHeals
<1>3. BeforeInsert(threads[g]) /\ BeforeInsert(threads'[g]) /\ threads'[g].at # "idle"
  BY <1>1, <1>2 DEF BeforeInsert, DepartSites
<1>4. Reports'
  BY <1>1, <1>2, <1>3, NothingNew, EarlyMoves
<1>5. SameWorkers
  BY <1>1, <1>2, WorkersSame DEF Landed
<1>6. Unmarked(threads[g]) /\ Unmarked(threads'[g])
  BY <1>1, <1>2 DEF Unmarked
<1> QED
  BY <1>1, <1>2, <1>4, <1>5, <1>6, QuietMove

LEMMA ArrivalNotifiesKeeps ==
  ASSUME IndInv, NEW g \in Generations, ArrivalNotifies(g)
  PROVE  IndInv'
<1>1. /\ threads[g].at = "notify" /\ g \in Threads
      /\ UNCHANGED <<monitor, counts, arrival, departing, render, os, chains>>
  BY DEF ArrivalNotifies, Threads
<1>2. Moved(g) /\ threads'[g].at = "ended"
  BY <1>1, Going DEF ArrivalNotifies, IndInv, Types
<1>3. AfterReport(threads[g]) /\ AfterReport(threads'[g])
  BY <1>1, <1>2 DEF AfterReport
<1>4. Reports'
  BY <1>1, <1>2, <1>3, NothingNew, LateMoves
<1>5. SameWorkers
  BY <1>1, <1>2, WorkersSame DEF Landed
<1>6. Unmarked(threads[g]) /\ Unmarked(threads'[g])
  BY <1>1, <1>2 DEF Unmarked
<1> QED
  BY <1>1, <1>2, <1>4, <1>5, <1>6, QuietMove

\* The record of a worker at its report is there only if it has succeeded.
LEMMA ArrivalReportsKeeps ==
  ASSUME IndInv, NEW g \in Generations, ArrivalReports(g)
  PROVE  IndInv'
<1>1. /\ threads[g].at \in {"succeeded", "failed"} /\ g \in Threads
      /\ UNCHANGED <<monitor, counts, departing, render, os, chains>>
  BY DEF ArrivalReports, Threads
<1>2. /\ Moved(g)
      /\ \/ /\ arrival[g].timedOut /\ arrival' = arrival
            /\ \/ threads[g].at = "succeeded" /\ threads'[g].at = "tag"
               \/ threads[g].at = "failed" /\ threads'[g].at = "finish"
         \/ /\ ~arrival[g].timedOut /\ threads'[g].at = "finish"
            /\ arrival' = [arrival EXCEPT ![g].done = TRUE]
  <2>1. CASE arrival[g].timedOut
    <3>1. Goes(g, IF threads[g].at = "succeeded" THEN "tag" ELSE "finish") /\ arrival' = arrival
      BY <2>1 DEF ArrivalReports
    <3> QED
      BY <1>1, <2>1, <3>1, Going DEF IndInv, Types
  <2>2. CASE ~arrival[g].timedOut
    <3>1. Goes(g, "finish") /\ arrival' = [arrival EXCEPT ![g].done = TRUE]
      BY <2>2 DEF ArrivalReports
    <3> QED
      BY <1>1, <2>2, <3>1, Going DEF IndInv, Types
  <2> QED
    BY <2>1, <2>2
<1>3. threads[g].at = "failed" => ~Is(g)
  BY DEF IndInv, Reports, Reported, BeforeInsert
<1>4. Is(g)' <=> Is(g)
  BY <1>1 DEF Is
<1>5. /\ arrival'[g].timedOut = arrival[g].timedOut
      /\ arrival'[g].done \/ arrival'[g].timedOut
      /\ arrival' \in [Generations -> [done : BOOLEAN, timedOut : BOOLEAN]]
  BY <1>2 DEF IndInv, Types
<1>6. Reported(g)'
  BY <1>2, <1>3, <1>4, <1>5 DEF Reported, BeforeInsert, AfterReport, Between, DepartSites
<1>7. ThenFits(g)'
  BY <1>2 DEF ThenFits, DepartSites
<1>8. Reports'
  BY <1>1, <1>2, <1>6, <1>7, NothingNew, WorkerMoves DEF NoNewRecord
<1>9. SameWorkers
  BY <1>1, <1>2, WorkersSame DEF Landed
<1>10. Unmarked(threads[g]) /\ Unmarked(threads'[g])
  BY <1>1, <1>2 DEF Unmarked
<1>11. /\ \A o \in Threads, h \in Generations : Calling(o, h)' <=> Calling(o, h)
       /\ UNCHANGED <<monitor, arrivals, departures, os, callback, deferred, leaked>>
       /\ departing' \in [Threads \X Generations -> {"none", "calling", "departed", "failed"}]
  BY <1>1 DEF Calling, counts, chains, IndInv, Types
<1>12. HealthKept
  BY <1>1, HealthUnchanged
<1> QED
  BY <1>1, <1>2, <1>5, <1>8, <1>9, <1>10, <1>11, <1>12, ThreadOnlyMove

\* The tag is on the record before the worker departs it.
LEMMA ArrivalTagsKeeps ==
  ASSUME IndInv, NEW g \in Generations, ArrivalTags(g)
  PROVE  IndInv'
<1>1. /\ threads[g].at = "tag" /\ g \in Threads
      /\ Departs(g, g, "finish")
      /\ monitor' = IF Is(g) THEN [monitor EXCEPT !.orphan = TRUE] ELSE monitor
      /\ UNCHANGED <<counts, arrival, departing, render, os, chains>>
  BY DEF ArrivalTags, Threads
<1>2. /\ SameRecord /\ monitor' \in MonitorRecord \cup {NoMonitor}
      /\ Is(g) => monitor'.orphan
  <2>1. CASE Is(g)
    <3>1. monitor \in MonitorRecord /\ monitor' = [monitor EXCEPT !.orphan = TRUE]
      BY <1>1, <2>1 DEF IndInv, Types, Is
    <3>2. monitor' \in MonitorRecord /\ monitor'.orphan
      BY <3>1 DEF MonitorRecord
    <3>3. monitor' # NoMonitor /\ monitor # NoMonitor
      BY <3>1, <3>2, NoMonitorAssumption
    <3> QED
      BY <3>1, <3>2, <3>3 DEF SameRecord, MonitorRecord
  <2>2. CASE ~Is(g)
    BY <1>1, <2>2 DEF IndInv, Types, SameRecord
  <2> QED
    BY <2>1, <2>2
<1>3. /\ Moved(g) /\ threads'[g].at = "depart" /\ threads'[g].then = "finish"
  <2>1. g \in 0..MaxGeneration
    BY BoundsAssumption DEF Generations
  <2> QED
    BY <1>1, <2>1, GoingToDepart DEF IndInv, Types
<1>4. AfterReport(threads[g]) /\ AfterReport(threads'[g])
  BY <1>1, <1>3 DEF AfterReport, DepartSites
<1>5. NoNewRecord /\ (monitor' = NoMonitor \/ monitor'.generation # g \/ monitor'.orphan)
  BY <1>2, SameRecordIsNoNew DEF SameRecord, Is
<1>6. Reports'
  BY <1>1, <1>3, <1>4, <1>5, LateMoves
<1>7. SameWorkers
  BY <1>1, <1>3, WorkersSame DEF Landed
<1>8. Unmarked(threads[g]) /\ Unmarked(threads'[g])
  BY <1>1, <1>3 DEF Unmarked
<1>9. HealthKept
  BY <1>1, HealthUnchanged
<1>10. Elsewhere
  <2>1. /\ \A o \in Threads, h \in Generations : Calling(o, h)' <=> Calling(o, h)
        /\ arrivals' = arrivals /\ departures' = departures /\ registered' = registered
    BY <1>1 DEF Calling, counts, os
  <2> QED
    BY <1>1, <1>2, <1>3, <1>6, <1>7, <1>8, <1>9, <2>1, PlainMove
<1>11. Types'
  <2>1. ThreadsTyped'
    BY <1>1, <1>3, MovedTyped DEF IndInv, Types
  <2> QED
    BY <1>1, <1>2, <2>1 DEF IndInv, Types, IsCallback, chains
<1> QED
  BY <1>10, <1>11 DEF IndInv, Elsewhere

\* The reference on the mode comes and goes with the call that needs it.
LEMMA ModeMoves ==
  ASSUME IndInv, NEW g \in Generations, Moved(g),
         UNCHANGED <<monitor, counts, arrival, departing, render, chains>>,
         threads[g].at \in {"create", "insert"}, threads'[g].at \in {"insert", "failed"},
         registered' = IF threads'[g].at = "insert" THEN registered \cup {g} ELSE registered \ {g}
  PROVE  IndInv'
<1>1. g \in Threads /\ NoNewRecord /\ SameRecord
  BY NothingNew DEF Threads, SameRecord
<1>2. BeforeInsert(threads[g]) /\ BeforeInsert(threads'[g]) /\ threads'[g].at # "idle"
  BY DEF BeforeInsert
<1>3. Reports'
  BY <1>1, <1>2, EarlyMoves
<1>4. Unmarked(threads[g]) /\ Unmarked(threads'[g])
  BY DEF Unmarked
<1>5. \A h \in Generations \ {g} : threads'[h] = threads[h]
  BY <1>1, OthersStay
<1>6. Marks'
  <2>1. \A o \in Threads : threads'[o] = threads[o] \/ (Away(threads[o]) /\ Away(threads'[o]))
    BY <1>4 DEF Moved, Unmarked, Away
  <2>2. \A h \in Generations : ArrivalWorks(h)' <=> ArrivalWorks(h)
    BY <1>4, <1>5 DEF ArrivalWorks, Unmarked
  <2>3. \A o \in Threads, h \in Generations : Calling(o, h)' <=> Calling(o, h)
    BY DEF Calling
  <2> QED
    BY <1>1, <2>1, <2>2, <2>3, MarksKept DEF IndInv
<1>7. Counts'
  <2>1. \A h \in Generations : threads'[h].at \in Landed <=> threads[h].at \in Landed
    BY <1>5 DEF Landed
  <2>2. \A h \in Generations : threads'[h].at = "idle" <=> threads[h].at = "idle"
    BY <1>5
  <2>3. /\ \A o \in Threads, h \in Generations : Calling(o, h)' <=> Calling(o, h)
        /\ arrivals' = arrivals /\ departures' = departures
    BY DEF Calling, counts
  <2>4. HealthKept
    BY HealthUnchanged
  <2> QED
    BY <2>1, <2>2, <2>3, <2>4, CountsKept DEF IndInv, HealthKept
<1>8. ModesRegistered'
  <2>1. ~Is(g)
    BY <1>2 DEF IndInv, Reports, Reported
  <2>2. \A h : Is(h)' <=> Is(h)
    BY DEF Is
  <2>3. \A h \in Generations \ {g} : h \in registered' <=> h \in registered
    OBVIOUS
  <2>4. g \in registered' <=> threads'[g].at = "insert"
    OBVIOUS
  <2>5. registered' \subseteq Generations
    BY DEF IndInv, ModesRegistered
  <2> QED
    BY <1>5, <2>1, <2>2, <2>3, <2>4, <2>5 DEF IndInv, ModesRegistered
<1>9. Types'
  <2>1. ThreadsTyped'
    BY <1>1, MovedTyped DEF IndInv, Types
  <2> QED
    BY <2>1 DEF IndInv, Types, IsCallback, chains
<1> QED
  BY <1>3, <1>6, <1>7, <1>8, <1>9 DEF IndInv

LEMMA ArrivalCreatesKeeps ==
  ASSUME IndInv, NEW g \in Generations, ArrivalCreates(g)
  PROVE  IndInv'
<1>1. /\ threads[g].at = "create" /\ g \in Threads
      /\ UNCHANGED <<monitor, counts, arrival, departing, render, chains>>
  BY DEF ArrivalCreates, Threads
<1>2. CASE Goes(g, "insert") /\ registered' = registered \cup {g}
  <2>1. Moved(g) /\ threads'[g].at = "insert"
    BY <1>1, <1>2, Going DEF IndInv, Types
  <2> QED
    BY <1>1, <1>2, <2>1, ModeMoves
<1>3. CASE Goes(g, "failed") /\ registered' = registered
  <2>1. Moved(g) /\ threads'[g].at = "failed"
    BY <1>1, <1>3, Going DEF IndInv, Types
  <2>2. g \notin registered
    BY <1>1 DEF IndInv, ModesRegistered, Reports, Reported, BeforeInsert
  <2>3. registered' = registered \ {g}
    BY <1>3, <2>2
  <2> QED
    BY <1>1, <2>1, <2>3, ModeMoves
<1> QED
  BY <1>2, <1>3 DEF ArrivalCreates

LEMMA ArrivalCreateFailsKeeps ==
  ASSUME IndInv, NEW g \in Generations, ArrivalCreateFails(g)
  PROVE  IndInv'
<1>1. /\ threads[g].at = "insert" /\ g \in Threads
      /\ registered' = registered \ {g}
      /\ UNCHANGED <<monitor, counts, arrival, departing, render, chains>>
  BY DEF ArrivalCreateFails, Threads
<1>2. Moved(g) /\ threads'[g].at = "failed"
  BY <1>1, Going DEF ArrivalCreateFails, IndInv, Types
<1> QED
  BY <1>1, <1>2, ModeMoves

-----------------------------------------------------------------------------
(* The record of an arrival comes, settles or goes.                        *)

\* Without the departing mark nobody departs the monitor.
LEMMA NobodyLeaves ==
  ASSUME Marks, monitor = NoMonitor \/ ~monitor.departing
  PROVE  /\ \A t \in Threads : ~Leaves(t)
         /\ \A t \in Threads, g \in Generations : ~Calling(t, g)
BY DEF Marks, HasMarked, Is

LEMMA MarksWithoutDeparture ==
  ASSUME monitor' = NoMonitor \/ ~monitor'.departing,
         \A t \in Threads : ~Leaves(t)',
         \A t \in Threads, g \in Generations : ~Calling(t, g)',
         \A g \in Generations : ArrivalWorks(g)' <=> Is(g)' /\ monitor'.arriving
  PROVE  Marks'
<1>1. \A t \in Threads, g \in Generations : ~Leaving(t, g)'
  BY DEF Leaving
<1>2. MarkOwned'
  BY DEF MarkOwned
<1>3. ASSUME NEW t \in Threads PROVE HasMarked(t)'
  BY DEF HasMarked
<1> QED
  BY <1>1, <1>2, <1>3 DEF Marks

\* Only the worker of an arrival has moved, and the departures are as they were.
LEMMA NobodyLeavesAfter ==
  ASSUME NEW g \in Generations, Moved(g), Away(threads'[g]), departing' = departing,
         \A t \in Threads : ~Leaves(t),
         \A t \in Threads, h \in Generations : ~Calling(t, h)
  PROVE  /\ \A t \in Threads : ~Leaves(t)'
         /\ \A t \in Threads, h \in Generations : ~Calling(t, h)'
BY DEF Moved, Leaves, Away, Calling

\* The counts, which do not see this.
LEMMA FlightGoesOn ==
  ASSUME IndInv, NEW g \in Generations, Moved(g),
         threads[g].at \notin Landed, threads'[g].at \notin Landed,
         UNCHANGED <<counts, departing, render>>
  PROVE  Counts'
<1>1. \A h \in Generations \ {g} : threads'[h] = threads[h]
  <2>1. g \in Threads
    BY DEF Threads
  <2> QED
    BY <2>1, OthersStay
<1>2. \A h \in Generations : threads'[h].at \in Landed <=> threads[h].at \in Landed
  BY <1>1 DEF Landed
<1>3. \A h \in Generations : threads'[h].at = "idle" <=> threads[h].at = "idle"
  BY <1>1 DEF Landed
<1>4. /\ \A o \in Threads, h \in Generations : Calling(o, h)' <=> Calling(o, h)
      /\ arrivals' = arrivals /\ departures' = departures
  BY DEF Calling, counts
<1>5. HealthKept
  BY HealthUnchanged
<1> QED
  BY <1>2, <1>3, <1>4, <1>5, CountsKept DEF IndInv, HealthKept

LEMMA ArrivingRecord ==
  ASSUME NEW g \in Generations
  PROVE  LET m == Arriving(g)
         IN  /\ m \in MonitorRecord /\ m # NoMonitor
             /\ m.generation = g /\ m.arriving /\ ~m.departing
<1>1. Arriving(g) \in MonitorRecord
  BY DEF Arriving, MonitorRecord
<1>2. Arriving(g) # NoMonitor
  BY <1>1, NoMonitorAssumption
<1> QED
  BY <1>1, <1>2 DEF Arriving

\* What is not about the marks, when the worker of an arrival touches its own record.
LEMMA OwnRecordMoves ==
  ASSUME IndInv, NEW g \in Generations, Moved(g),
         threads'[g].at \in {"arrive", "arrived", "succeeded", "failed"},
         threads'[g].at = "failed" => ~Is(g)',
         \A h \in Generations \ {g} : Is(h)' => Is(h) /\ monitor' = monitor,
         arrival' = arrival
  PROVE  Reports'
<1>1. ThenFits(g)'
  BY DEF ThenFits, DepartSites
<1>2. Reported(g)'
  BY DEF Reported, BeforeInsert, AfterReport, Between, DepartSites
<1>3. \A h \in Generations \ {g} : KeepsRecord(h)
  BY DEF KeepsRecord
<1> QED
  BY <1>1, <1>2, <1>3, WorkerMoves

LEMMA ArrivalInsertsKeeps ==
  ASSUME IndInv, NEW g \in Generations, ArrivalInserts(g)
  PROVE  IndInv'
<1>1. /\ threads[g].at = "insert" /\ g \in Threads
      /\ UNCHANGED <<counts, arrival, departing, render, up, chains>>
  BY DEF ArrivalInserts, Threads
<1>2. CASE monitor # NoMonitor
  <2>1. /\ Goes(g, "failed") /\ registered' = registered \ {g} /\ monitor' = monitor
    BY <1>2 DEF ArrivalInserts
  <2>2. Moved(g) /\ threads'[g].at = "failed"
    BY <1>1, <2>1, Going DEF IndInv, Types
  <2> QED
    BY <1>1, <2>1, <2>2, ModeMoves
<1>3. CASE monitor = NoMonitor
  <2>1. monitor' = Arriving(g) /\ Goes(g, "arrive") /\ registered' = registered
    BY <1>3 DEF ArrivalInserts
  <2>2. Moved(g) /\ threads'[g].at = "arrive"
    BY <1>1, <2>1, Going DEF IndInv, Types
  <2>3. /\ monitor' \in MonitorRecord /\ monitor' # NoMonitor
        /\ monitor'.generation = g /\ monitor'.arriving /\ ~monitor'.departing
    BY <2>1, ArrivingRecord
  <2>4. \A h : Is(h)' <=> h = g
    BY <2>3 DEF Is
  <2>5. \A h : ~Is(h)
    BY <1>3 DEF Is
  <2>6. Reports'
    BY <1>1, <2>2, <2>4, OwnRecordMoves
  <2>7. /\ \A t \in Threads : ~Leaves(t)
        /\ \A t \in Threads, h \in Generations : ~Calling(t, h)
    BY <1>3, NobodyLeaves DEF IndInv
  <2>8. \A h \in Generations : threads'[h] = threads[h] \/ h = g
    BY <1>1, <2>2, OthersStay
  <2>9. Marks'
    <3>1. \A h \in Generations : ~ArrivalWorks(h)
      BY <2>5 DEF IndInv, Marks
    <3>2. \A h \in Generations : ArrivalWorks(h)' <=> Is(h)' /\ monitor'.arriving
      BY <2>2, <2>3, <2>4, <2>8, <3>1 DEF ArrivalWorks
    <3>3. /\ \A t \in Threads : ~Leaves(t)'
          /\ \A t \in Threads, h \in Generations : ~Calling(t, h)'
      BY <1>1, <2>2, <2>7, NobodyLeavesAfter DEF Away
    <3> QED
      BY <2>3, <3>2, <3>3, MarksWithoutDeparture
  <2>10. Counts'
    BY <1>1, <2>2, FlightGoesOn DEF Landed
  <2>11. ModesRegistered'
    BY <1>1, <2>1, <2>2, <2>4, <2>5, <2>8 DEF IndInv, ModesRegistered
  <2>12. Types'
    <3>1. ThreadsTyped'
      BY <1>1, <2>2, MovedTyped DEF IndInv, Types
    <3> QED
      BY <1>1, <2>3, <3>1 DEF IndInv, Types, IsCallback, chains
  <2> QED
    BY <2>6, <2>9, <2>10, <2>11, <2>12 DEF IndInv
<1> QED
  BY <1>2, <1>3

LEMMA ArrivalReturnsKeeps ==
  ASSUME IndInv, NEW g \in Generations, NEW arrived \in BOOLEAN, ArrivalReturns(g, arrived)
  PROVE  IndInv'
<1>1. /\ threads[g].at = "arrive" /\ g \in Threads
      /\ UNCHANGED <<counts, arrival, departing, render, chains>>
  BY DEF ArrivalReturns, Threads
<1>2. Is(g) /\ monitor.arriving /\ ~monitor.departing
  BY <1>1 DEF IndInv, Marks, MarkOwned, ArrivalWorks, Is
<1>3. /\ \A t \in Threads : ~Leaves(t)
      /\ \A t \in Threads, h \in Generations : ~Calling(t, h)
  BY <1>2, NobodyLeaves DEF IndInv
<1>4. \A h \in Generations : ArrivalWorks(h) <=> h = g
  BY <1>2 DEF IndInv, Marks, Is
<1>5. CASE arrived
  <2>1. Goes(g, "arrived") /\ UNCHANGED <<monitor, registered>>
    BY <1>5 DEF ArrivalReturns
  <2>2. Moved(g) /\ threads'[g].at = "arrived"
    BY <1>1, <2>1, Going DEF IndInv, Types
  <2>3. \A h \in Generations : threads'[h] = threads[h] \/ h = g
    BY <1>1, <2>2, OthersStay
  <2>4. \A h : Is(h)' <=> Is(h)
    BY <2>1 DEF Is
  <2>5. Reports'
    BY <1>1, <2>1, <2>2, <2>4, OwnRecordMoves
  <2>6. Marks'
    <3>1. \A h \in Generations : ArrivalWorks(h)' <=> Is(h)' /\ monitor'.arriving
      <4>1. \A h \in Generations : ArrivalWorks(h)' <=> h = g
        BY <1>4, <2>2, <2>3 DEF ArrivalWorks
      <4> QED
        BY <1>2, <2>1, <2>4, <4>1 DEF Is
    <3>2. /\ \A t \in Threads : ~Leaves(t)'
          /\ \A t \in Threads, h \in Generations : ~Calling(t, h)'
      BY <1>1, <1>3, <2>2, NobodyLeavesAfter DEF Away
    <3> QED
      BY <1>2, <2>1, <3>1, <3>2, MarksWithoutDeparture
  <2>7. Counts'
    BY <1>1, <2>2, FlightGoesOn DEF Landed
  <2>8. ModesRegistered'
    BY <1>1, <2>1, <2>2, <2>3, <2>4 DEF IndInv, ModesRegistered
  <2>9. Types'
    <3>1. ThreadsTyped'
      BY <1>1, <2>2, MovedTyped DEF IndInv, Types
    <3> QED
      BY <1>1, <2>1, <3>1 DEF IndInv, Types, IsCallback, chains
  <2> QED
    BY <2>5, <2>6, <2>7, <2>8, <2>9 DEF IndInv
<1>6. CASE ~arrived
  <2>1. Goes(g, "failed") /\ monitor' = NoMonitor /\ registered' = registered \ {g}
    BY <1>6 DEF ArrivalReturns
  <2>2. Moved(g) /\ threads'[g].at = "failed"
    BY <1>1, <2>1, Going DEF IndInv, Types
  <2>3. \A h \in Generations : threads'[h] = threads[h] \/ h = g
    BY <1>1, <2>2, OthersStay
  <2>4. \A h : ~Is(h)'
    BY <2>1 DEF Is
  <2>5. Reports'
    BY <1>1, <2>2, <2>4, OwnRecordMoves
  <2>6. Marks'
    <3>1. \A h \in Generations : ~ArrivalWorks(h)'
      BY <1>4, <2>2, <2>3 DEF ArrivalWorks
    <3>2. /\ \A t \in Threads : ~Leaves(t)'
          /\ \A t \in Threads, h \in Generations : ~Calling(t, h)'
      BY <1>1, <1>3, <2>2, NobodyLeavesAfter DEF Away
    <3> QED
      BY <2>1, <2>4, <3>1, <3>2, MarksWithoutDeparture
  <2>7. Counts'
    BY <1>1, <2>2, FlightGoesOn DEF Landed
  <2>8. ModesRegistered'
    <3>1. \A h \in Generations : Is(h) => h = g
      BY <1>2 DEF Is
    <3> QED
      BY <1>1, <2>1, <2>2, <2>3, <2>4, <3>1 DEF IndInv, ModesRegistered
  <2>9. Types'
    <3>1. ThreadsTyped'
      BY <1>1, <2>2, MovedTyped DEF IndInv, Types
    <3> QED
      BY <1>1, <2>1, <3>1 DEF IndInv, Types, IsCallback, chains
  <2> QED
    BY <2>5, <2>6, <2>7, <2>8, <2>9 DEF IndInv
<1> QED
  BY <1>5, <1>6

\* A record without its mark.
LEMMA Unmarking ==
  ASSUME NEW m \in MonitorRecord
  PROVE  /\ LET u == [m EXCEPT !.arriving = FALSE]
            IN  /\ u \in MonitorRecord /\ u # NoMonitor /\ u.generation = m.generation
                /\ ~u.arriving /\ u.departing = m.departing /\ u.orphan = m.orphan
         /\ LET u == [m EXCEPT !.departing = FALSE]
            IN  /\ u \in MonitorRecord /\ u # NoMonitor /\ u.generation = m.generation
                /\ u.arriving = m.arriving /\ ~u.departing /\ u.orphan = m.orphan
<1>1. [m EXCEPT !.arriving = FALSE] \in MonitorRecord /\ [m EXCEPT !.departing = FALSE] \in MonitorRecord
  BY DEF MonitorRecord
<1> QED
  BY <1>1, NoMonitorAssumption DEF MonitorRecord

LEMMA ArrivalSettlesKeeps ==
  ASSUME IndInv, NEW g \in Generations, ArrivalSettles(g)
  PROVE  IndInv'
<1>1. /\ threads[g].at = "arrived" /\ Is(g) /\ g \in Threads
      /\ monitor' = [monitor EXCEPT !.arriving = FALSE]
      /\ UNCHANGED <<counts, arrival, departing, render, os, chains>>
  BY DEF ArrivalSettles, Threads
<1>2. Moved(g) /\ threads'[g].at = "succeeded"
  BY <1>1, Going DEF ArrivalSettles, IndInv, Types
<1>3. monitor \in MonitorRecord /\ monitor.arriving /\ ~monitor.departing
  BY <1>1 DEF IndInv, Types, Marks, MarkOwned, ArrivalWorks, Is
<1>4. /\ monitor' \in MonitorRecord /\ monitor' # NoMonitor
      /\ monitor'.generation = monitor.generation
      /\ ~monitor'.arriving /\ ~monitor'.departing /\ monitor'.orphan = monitor.orphan
  BY <1>1, <1>3, Unmarking
<1>5. \A h : Is(h)' <=> Is(h)
  BY <1>1, <1>4 DEF Is
<1>6. \A h \in Generations : threads'[h] = threads[h] \/ h = g
  BY <1>1, <1>2, OthersStay
<1>7. Reports'
  <2>1. \A h \in Generations \ {g} : ~Is(h)'
    BY <1>1, <1>5 DEF Is
  <2> QED
    BY <1>1, <1>2, <2>1, OwnRecordMoves
<1>8. Marks'
  <2>1. \A h \in Generations : ~ArrivalWorks(h)'
    <3>1. \A h \in Generations : ArrivalWorks(h) => h = g
      BY <1>1 DEF IndInv, Marks, Is
    <3> QED
      BY <1>2, <1>6, <3>1 DEF ArrivalWorks
  <2>2. /\ \A t \in Threads : ~Leaves(t)
        /\ \A t \in Threads, h \in Generations : ~Calling(t, h)
    BY <1>3, NobodyLeaves DEF IndInv
  <2>3. /\ \A t \in Threads : ~Leaves(t)'
        /\ \A t \in Threads, h \in Generations : ~Calling(t, h)'
    BY <1>1, <1>2, <2>2, NobodyLeavesAfter DEF Away
  <2> QED
    BY <1>4, <2>1, <2>3, MarksWithoutDeparture
<1>9. Counts'
  BY <1>1, <1>2, FlightGoesOn DEF Landed
<1>10. ModesRegistered'
  BY <1>1, <1>2, <1>5, <1>6 DEF IndInv, ModesRegistered, os
<1>11. Types'
  <2>1. ThreadsTyped'
    BY <1>1, <1>2, MovedTyped DEF IndInv, Types
  <2> QED
    BY <1>1, <1>4, <2>1 DEF IndInv, Types, IsCallback, chains
<1> QED
  BY <1>7, <1>8, <1>9, <1>10, <1>11 DEF IndInv

\* The last step that counts: the arrival is over, and settles the backend.
LEMMA ArrivalFinishesKeeps ==
  ASSUME IndInv, NEW g \in Generations, ArrivalFinishes(g)
  PROVE  IndInv'
<1>1. /\ threads[g].at = "finish" /\ g \in Threads
      /\ arrivals' = arrivals - 1
      /\ unhealthy' = (unhealthy /\ ~(arrivals - 1 = 0 /\ departures = 0 /\ ~RenderInFlight))
      /\ UNCHANGED <<monitor, departures, arrival, departing, render, os, chains>>
  BY DEF ArrivalFinishes, ClearIfSettled, Threads
<1>2. Moved(g) /\ threads'[g].at = "notify"
  BY <1>1, Going DEF ArrivalFinishes, IndInv, Types
<1>3. NoNewRecord /\ SameRecord
  BY <1>1, NothingNew DEF SameRecord
<1>4. AfterReport(threads[g]) /\ AfterReport(threads'[g])
  BY <1>1, <1>2 DEF AfterReport
<1>5. Reports'
  BY <1>1, <1>2, <1>3, <1>4, LateMoves
<1>6. \A h \in Generations : threads'[h] = threads[h] \/ h = g
  BY <1>1, <1>2, OthersStay
<1>7. \A o \in Threads, h \in Generations : Calling(o, h)' <=> Calling(o, h)
  BY <1>1 DEF Calling
<1>8. Marks'
  <2>1. \A o \in Threads : threads'[o] = threads[o] \/ (Away(threads[o]) /\ Away(threads'[o]))
    BY <1>1, <1>2 DEF Moved, Away
  <2>2. \A h \in Generations : ArrivalWorks(h)' <=> ArrivalWorks(h)
    BY <1>1, <1>2, <1>6 DEF ArrivalWorks
  <2> QED
    BY <1>3, <1>7, <2>1, <2>2, MarksKept DEF IndInv
<1>9. Counts'
  <2>1. IsFiniteSet(InFlight) /\ arrivals \in Nat /\ departures \in {0, 1}
    BY CountsTyped
  <2>2. g \in InFlight /\ InFlight' = InFlight \ {g}
    BY <1>1, <1>2, <1>6 DEF InFlight, Landed
  <2>3. Cardinality(InFlight') = Cardinality(InFlight) - 1
    BY <2>1, <2>2, FS_RemoveElement
  <2>4. arrivals' = Cardinality(InFlight') /\ arrivals' \in Nat
    <3>1. IsFiniteSet(InFlight')
      BY <2>1, <2>2, FS_RemoveElement
    <3> QED
      BY <1>1, <2>3, <3>1, FS_CardinalityType DEF IndInv, Counts
  <2>5. unhealthy' => arrivals' + departures' > 0 \/ RenderInFlight'
    <3>1. SUFFICES ASSUME unhealthy', ~RenderInFlight' PROVE arrivals' + departures' > 0
      OBVIOUS
    <3>2. ~RenderInFlight
      BY <1>1, <3>1 DEF RenderInFlight
    <3>3. ~(arrivals' = 0 /\ departures' = 0)
      BY <1>1, <3>1, <3>2
    <3> QED
      BY <1>1, <2>1, <2>4, <3>3
  <2>6. Asked' = Asked
    BY <1>1, <1>2, <1>6 DEF Asked
  <2>7. SomeCalling' <=> SomeCalling
    BY <1>7 DEF SomeCalling
  <2> QED
    BY <1>1, <2>4, <2>5, <2>6, <2>7 DEF IndInv, Counts
<1>10. ModesRegistered'
  <2>1. \A h \in Generations : threads'[h].at = "insert" <=> threads[h].at = "insert"
    BY <1>1, <1>2, <1>6
  <2>2. registered' = registered
    BY <1>1 DEF os
  <2> QED
    BY <1>3, <2>1, <2>2, ModesKept DEF IndInv
<1>11. Types'
  <2>1. ThreadsTyped'
    BY <1>1, <1>2, MovedTyped DEF IndInv, Types
  <2> QED
    BY <1>1, <2>1 DEF IndInv, Types, IsCallback, chains
<1> QED
  BY <1>5, <1>8, <1>9, <1>10, <1>11 DEF IndInv

-----------------------------------------------------------------------------
(* Departures that mark the record, and their worker.                      *)

\* Whoever leaves with the record is alone with it.
LEMMA OnlyLeaver ==
  ASSUME Types, Marks, NEW t \in Threads, Leaves(t)
  PROVE  /\ Is(threads[t].generation) /\ monitor \in MonitorRecord
         /\ monitor.departing /\ ~monitor.arriving
         /\ \A o \in Threads \ {t} : ~Leaves(o)
         /\ \A o \in Threads, h \in Generations : ~Calling(o, h)
         /\ \A h \in Generations : ~ArrivalWorks(h)
<1> DEFINE g == threads[t].generation
<1>1. Is(g) /\ monitor.departing
  BY DEF Marks, HasMarked
<1>2. monitor \in MonitorRecord /\ g \in Generations /\ ~monitor.arriving
  BY <1>1 DEF Types, MonitorRecord, Is, Marks, MarkOwned
<1>3. Leaving(t, g)
  BY DEF Leaving
<1>4. ASSUME NEW o \in Threads, Leaves(o) PROVE o = t
  <2>1. Is(threads[o].generation)
    BY <1>4 DEF Marks, HasMarked
  <2>2. Leaving(o, g)
    BY <1>1, <1>4, <2>1 DEF Is, Leaving
  <2> QED
    BY <1>2, <1>3, <2>2 DEF Marks
<1>5. ASSUME NEW o \in Threads, NEW h \in Generations, Calling(o, h) PROVE FALSE
  <2>1. h = g
    BY <1>1, <1>5 DEF Marks, Is
  <2>2. o = t
    BY <1>2, <1>3, <1>5, <2>1 DEF Marks
  <2> QED
    BY <1>2, <1>3, <1>5, <2>1, <2>2 DEF Marks
<1>6. \A h \in Generations : ~ArrivalWorks(h)
  BY <1>2 DEF Marks
<1> QED
  BY <1>1, <1>2, <1>4, <1>5, <1>6

LEMMA OnlyCaller ==
  ASSUME Types, Marks, NEW t \in Threads, NEW g \in Generations, Calling(t, g)
  PROVE  /\ Is(g) /\ monitor \in MonitorRecord /\ monitor.departing /\ ~monitor.arriving
         /\ \A o \in Threads : ~Leaves(o)
         /\ \A o \in Threads, h \in Generations : Calling(o, h) => o = t /\ h = g
         /\ \A h \in Generations : ~ArrivalWorks(h)
<1>1. Is(g) /\ monitor.departing
  BY DEF Marks
<1>2. monitor \in MonitorRecord /\ ~monitor.arriving
  BY <1>1 DEF Types, MonitorRecord, Is, Marks, MarkOwned
<1>3. ASSUME NEW o \in Threads, NEW h \in Generations, Calling(o, h) PROVE o = t /\ h = g
  <2>1. h = g
    BY <1>1, <1>3 DEF Marks, Is
  <2> QED
    BY <1>3, <2>1 DEF Marks
<1>4. ASSUME NEW o \in Threads, Leaves(o) PROVE FALSE
  BY <1>4, OnlyLeaver
<1>5. \A h \in Generations : ~ArrivalWorks(h)
  BY <1>2 DEF Marks
<1> QED
  BY <1>1, <1>2, <1>3, <1>4, <1>5

LEMMA MarksWithOneLeaver ==
  ASSUME NEW t \in Threads, Leaves(t)',
         \A o \in Threads \ {t} : ~Leaves(o)',
         \A o \in Threads, h \in Generations : ~Calling(o, h)',
         \A h \in Generations : ~ArrivalWorks(h)',
         monitor' # NoMonitor, monitor'.generation = threads'[t].generation,
         monitor'.departing, ~monitor'.arriving
  PROVE  Marks'
<1>1. \A o \in Threads, h \in Generations : Leaving(o, h)' => o = t
  BY DEF Leaving
<1>2. MarkOwned'
  <2>1. Leaving(t, monitor.generation)'
    BY DEF Leaving
  <2> QED
    BY <2>1 DEF MarkOwned, SomeOwner
<1>3. ASSUME NEW o \in Threads PROVE HasMarked(o)'
  BY DEF HasMarked, Is
<1> QED
  BY <1>1, <1>2, <1>3 DEF Marks

LEMMA MarksWithOneCaller ==
  ASSUME NEW t \in Threads, NEW g \in Generations, Calling(t, g)',
         \A o \in Threads : ~Leaves(o)',
         \A o \in Threads, h \in Generations : Calling(o, h)' => o = t /\ h = g,
         \A h \in Generations : ~ArrivalWorks(h)',
         Is(g)', monitor'.departing, ~monitor'.arriving
  PROVE  Marks'
<1>1. \A o \in Threads, h \in Generations : ~Leaving(o, h)'
  BY DEF Leaving
<1>2. MarkOwned'
  <2>1. Calling(t, monitor.generation)'
    BY DEF Calling, Is
  <2> QED
    BY <2>1 DEF MarkOwned, SomeOwner
<1>3. ASSUME NEW o \in Threads PROVE HasMarked(o)'
  BY DEF HasMarked
<1>4. ASSUME NEW h \in Generations PROVE ArrivalWorks(h)' <=> (Is(h) /\ monitor.arriving)'
  OBVIOUS
<1> QED
  BY <1>1, <1>2, <1>3, <1>4 DEF Marks

\* A thread goes on with its departure.
LEMMA DepartingOn ==
  ASSUME IndInv, NEW t \in Threads, Moved(t), arrival' = arrival, NoNewRecord,
         threads[t].at \in DepartSites, threads'[t].at \in DepartSites,
         threads'[t].then = threads[t].then
  PROVE  Reports' /\ SameWorkers
<1>1. ThenFits(t)'
  BY DEF IndInv, Reports, ThenFits
<1>2. threads'[t].at \notin Landed /\ threads[t].at \notin Landed
      /\ threads'[t].at \notin {"insert", "idle", "awaitArrival", "tag", "arrive", "arrived", "succeeded"}
      /\ threads[t].at \notin {"insert", "idle", "awaitArrival", "tag", "arrive", "arrived", "succeeded"}
  BY DEF DepartSites, Landed
<1>3. CASE t \in Generations
  <2>1. Reported(t)
    BY <1>3 DEF IndInv, Reports
  <2>2. KeepsRecord(t)
    BY DEF NoNewRecord
  <2>3. BeforeInsert(threads'[t]) <=> BeforeInsert(threads[t])
    BY DEF BeforeInsert, DepartSites
  <2>4. AfterReport(threads'[t]) <=> AfterReport(threads[t])
    BY DEF AfterReport, DepartSites
  <2>5. ~Between(threads'[t]) /\ ~Between(threads[t])
    BY <1>2 DEF Between
  <2>6. Reported(t)'
    BY <1>2, <2>1, <2>2, <2>3, <2>4, <2>5 DEF Reported, KeepsRecord
  <2>7. Reports'
    BY <1>1, <1>2, <1>3, <2>6, WorkerMoves DEF NoNewRecord
  <2> QED
    BY <1>2, <1>3, <2>7, WorkersSame
<1>4. CASE t \notin Generations
  <2>1. t \in {Controller, Reaper, Cleanup}
    BY <1>4 DEF Threads
  <2>2. threads'[Controller] = threads[Controller] \/ threads'[Controller].at # "awaitArrival"
    BY <1>2 DEF Moved, Threads
  <2> QED
    BY <1>1, <2>1, <2>2, CallerMoves
<1> QED
  BY <1>3, <1>4

\* What the thread remembers of a departure.
MarkedFor(x, at, g) == [x EXCEPT !.at = at, !.generation = g]
HoldingOn(x, a, held) == [x EXCEPT !.active = a, !.holds = held]

LEMMA MarkedForRecord ==
  ASSUME NEW x, IsThread(x), NEW at, NEW g \in 0..MaxGeneration
  PROVE  LET y == MarkedFor(x, at, g)
         IN  /\ IsThread(y) /\ y.at = at /\ y.generation = g /\ y.then = x.then
             /\ y.active = x.active /\ y.holds = x.holds
<1> DEFINE u == [x EXCEPT !.at = at]
           y == [u EXCEPT !.generation = g]
<1>1. IsThread(u) /\ u.at = at /\ u.then = x.then /\ u.active = x.active /\ u.holds = x.holds
  BY DEF IsThread
<1>2. y = MarkedFor(x, at, g)
  BY DEF MarkedFor
<1> HIDE DEF u
<1>3. /\ IsThread(y) /\ y.at = at /\ y.generation = g /\ y.then = x.then
      /\ y.active = x.active /\ y.holds = x.holds
  BY <1>1 DEF IsThread
<1> QED
  BY <1>2, <1>3

LEMMA HoldingOnRecord ==
  ASSUME NEW x, IsThread(x), NEW a \in SwapChains \cup {NoChain}, NEW held \in SUBSET SwapChains
  PROVE  LET y == HoldingOn(x, a, held)
         IN  /\ IsThread(y) /\ y.at = x.at /\ y.generation = x.generation /\ y.then = x.then
             /\ y.active = a /\ y.holds = held
<1> DEFINE u == [x EXCEPT !.active = a]
           y == [u EXCEPT !.holds = held]
<1>1. /\ IsThread(u) /\ u.at = x.at /\ u.generation = x.generation /\ u.then = x.then
      /\ u.active = a
  BY DEF IsThread
<1>2. y = HoldingOn(x, a, held)
  BY DEF HoldingOn
<1> HIDE DEF u
<1>3. /\ IsThread(y) /\ y.at = x.at /\ y.generation = x.generation /\ y.then = x.then
      /\ y.active = a /\ y.holds = held
  BY <1>1 DEF IsThread
<1> QED
  BY <1>2, <1>3

LEMMA ThreadBecomes ==
  ASSUME ThreadsTyped, NEW t \in Threads, NEW y, IsThread(y), threads' = [threads EXCEPT ![t] = y]
  PROVE  Moved(t) /\ threads'[t] = y
BY DEF ThreadsTyped, Moved

LEMMA MonitorGeneration ==
  ASSUME Types, monitor # NoMonitor
  PROVE  /\ monitor \in MonitorRecord /\ monitor.generation \in Generations
         /\ monitor.generation \in 0..MaxGeneration
BY BoundsAssumption DEF Types, MonitorRecord, Generations

\* Where nobody left, the thread now does.
LEMMA LeaverAlone ==
  ASSUME NEW t \in Threads, Moved(t), departing' = departing,
         \A o \in Threads \ {t} : ~Leaves(o),
         \A o \in Threads, h \in Generations : ~Calling(o, h),
         \A h \in Generations : ~ArrivalWorks(h),
         threads'[t].at \notin {"arrive", "arrived"}
  PROVE  /\ \A o \in Threads \ {t} : ~Leaves(o)'
         /\ \A o \in Threads, h \in Generations : ~Calling(o, h)'
         /\ \A h \in Generations : ~ArrivalWorks(h)'
<1>1. \A h \in Generations : h = t \/ threads'[h] = threads[h]
  BY OthersStay
<1>2. \A h \in Generations : ~ArrivalWorks(h)'
  BY <1>1 DEF ArrivalWorks
<1> QED
  BY <1>2 DEF Moved, Leaves, Calling

\* The record may be marked: nobody has marked it.
LEMMA MayDepartAlone ==
  ASSUME Types, Marks, NEW t \in Threads, MayDepart(t)
  PROVE  /\ threads[t].at = "depart" /\ monitor # NoMonitor /\ ~monitor.departing /\ ~monitor.arriving
         /\ \A o \in Threads : ~Leaves(o)
         /\ \A o \in Threads, h \in Generations : ~Calling(o, h)
         /\ \A h \in Generations : ~ArrivalWorks(h)
BY NobodyLeaves DEF MayDepart, Marks

LEMMA DepartMarksKeeps ==
  ASSUME IndInv, NEW t \in Threads, DepartMarks(t)
  PROVE  IndInv'
<1> DEFINE y == MarkedFor(threads[t], "awaitCallbacks", monitor.generation)
<1>1. /\ MayDepart(t) /\ monitor' = [monitor EXCEPT !.departing = TRUE]
      /\ threads' = [threads EXCEPT ![t] = y]
      /\ UNCHANGED <<counts, arrival, departing, render, os, chains>>
  BY Zenon DEF DepartMarks, MarkedFor
<1>2. /\ threads[t].at = "depart" /\ monitor # NoMonitor /\ ~monitor.departing /\ ~monitor.arriving
      /\ \A o \in Threads : ~Leaves(o)
      /\ \A o \in Threads, h \in Generations : ~Calling(o, h)
      /\ \A h \in Generations : ~ArrivalWorks(h)
  BY <1>1, MayDepartAlone DEF IndInv
<1>3. monitor \in MonitorRecord /\ monitor.generation \in 0..MaxGeneration
  BY <1>2, MonitorGeneration DEF IndInv
<1>4. IsThread(threads[t])
  BY DEF IndInv, Types, ThreadsTyped
<1>5. /\ IsThread(y) /\ y.at = "awaitCallbacks" /\ y.generation = monitor.generation
      /\ y.then = threads[t].then
  BY <1>3, <1>4, MarkedForRecord
<1> HIDE DEF y
<1>6. Moved(t) /\ threads'[t] = y
  BY <1>1, <1>5, ThreadBecomes DEF IndInv, Types
<1>7. /\ monitor' \in MonitorRecord /\ monitor'.generation = monitor.generation
      /\ monitor'.departing /\ ~monitor'.arriving /\ monitor'.orphan = monitor.orphan
  BY <1>1, <1>2, <1>3 DEF MonitorRecord
<1>8. monitor' # NoMonitor
  BY <1>7, NoMonitorAssumption
<1>9. \A h : Is(h)' <=> Is(h)
  BY <1>2, <1>7, <1>8 DEF Is
<1>10. Reports' /\ SameWorkers
  <2>1. NoNewRecord
    BY <1>7, <1>9 DEF NoNewRecord, KeepsRecord
  <2>2. threads[t].at \in DepartSites /\ threads'[t].at \in DepartSites
    BY <1>2, <1>5, <1>6 DEF DepartSites
  <2> QED
    BY <1>1, <1>5, <1>6, <2>1, <2>2, DepartingOn
<1>11. Marks'
  <2>1. /\ \A o \in Threads \ {t} : ~Leaves(o)'
        /\ \A o \in Threads, h \in Generations : ~Calling(o, h)'
        /\ \A h \in Generations : ~ArrivalWorks(h)'
    BY <1>1, <1>2, <1>5, <1>6, LeaverAlone
  <2>2. Leaves(t)' /\ monitor'.generation = threads'[t].generation
    BY <1>5, <1>6, <1>7 DEF Leaves
  <2> QED
    BY <1>7, <1>8, <2>1, <2>2, MarksWithOneLeaver
<1>12. Counts' /\ ModesRegistered'
  <2>1. HealthKept
    BY <1>1, HealthUnchanged
  <2>2. /\ \A o \in Threads, h \in Generations : Calling(o, h)' <=> Calling(o, h)
        /\ arrivals' = arrivals /\ departures' = departures
    BY <1>1 DEF Calling, counts
  <2>3. Counts'
    BY <1>10, <2>1, <2>2, CountsKept DEF IndInv, HealthKept, SameWorkers
  <2>4. ModesRegistered'
    BY <1>1, <1>9, <1>10 DEF IndInv, ModesRegistered, SameWorkers, os
  <2> QED
    BY <2>3, <2>4
<1>13. Types'
  <2>1. ThreadsTyped'
    BY <1>6, MovedTyped DEF IndInv, Types
  <2> QED
    BY <1>1, <1>7, <2>1 DEF IndInv, Types, IsCallback, chains
<1> QED
  BY <1>10, <1>11, <1>12, <1>13 DEF IndInv

\* The record loses its processors, and gets some of them back.
Bared(m) == [m EXCEPT !.departing = TRUE, !.active = NoChain, !.retired = {}]
Refilled(m, a, r) == [m EXCEPT !.departing = FALSE, !.active = a, !.retired = r]

LEMMA BaredRecord ==
  ASSUME NEW m \in MonitorRecord
  PROVE  LET u == Bared(m)
         IN  /\ u \in MonitorRecord /\ u # NoMonitor /\ u.generation = m.generation
             /\ u.arriving = m.arriving /\ u.departing = TRUE /\ u.orphan = m.orphan
             /\ u.active = NoChain /\ u.retired = {}
             /\ u.assigns = m.assigns /\ u.unassigns = m.unassigns
<1> DEFINE v == [m EXCEPT !.departing = TRUE]
           w == [v EXCEPT !.active = NoChain]
           u == [w EXCEPT !.retired = {}]
<1>1. /\ v \in MonitorRecord /\ v.generation = m.generation /\ v.arriving = m.arriving
      /\ v.departing = TRUE /\ v.orphan = m.orphan
      /\ v.assigns = m.assigns /\ v.unassigns = m.unassigns
  BY DEF MonitorRecord
<1>2. u = Bared(m)
  BY DEF Bared
<1> HIDE DEF v
<1>3. /\ w \in MonitorRecord /\ w.generation = m.generation /\ w.arriving = m.arriving
      /\ w.departing = TRUE /\ w.orphan = m.orphan /\ w.active = NoChain
      /\ w.assigns = m.assigns /\ w.unassigns = m.unassigns
  BY <1>1 DEF MonitorRecord
<1> HIDE DEF w
<1>4. /\ u \in MonitorRecord /\ u.generation = m.generation /\ u.arriving = m.arriving
      /\ u.departing = TRUE /\ u.orphan = m.orphan /\ u.active = NoChain /\ u.retired = {}
      /\ u.assigns = m.assigns /\ u.unassigns = m.unassigns
  BY <1>3 DEF MonitorRecord
<1>5. u # NoMonitor
  BY <1>4, NoMonitorAssumption
<1> HIDE DEF u
<1> QED
  BY <1>2, <1>4, <1>5

LEMMA RefilledRecord ==
  ASSUME NEW m \in MonitorRecord, NEW a \in SwapChains \cup {NoChain}, NEW r \in SUBSET SwapChains
  PROVE  LET u == Refilled(m, a, r)
         IN  /\ u \in MonitorRecord /\ u # NoMonitor /\ u.generation = m.generation
             /\ u.arriving = m.arriving /\ u.departing = FALSE /\ u.orphan = m.orphan
             /\ u.active = a /\ u.retired = r
             /\ u.assigns = m.assigns /\ u.unassigns = m.unassigns
<1> DEFINE v == [m EXCEPT !.departing = FALSE]
           w == [v EXCEPT !.active = a]
           u == [w EXCEPT !.retired = r]
<1>1. /\ v \in MonitorRecord /\ v.generation = m.generation /\ v.arriving = m.arriving
      /\ v.departing = FALSE /\ v.orphan = m.orphan
      /\ v.assigns = m.assigns /\ v.unassigns = m.unassigns
  BY DEF MonitorRecord
<1>2. u = Refilled(m, a, r)
  BY DEF Refilled
<1> HIDE DEF v
<1>3. /\ w \in MonitorRecord /\ w.generation = m.generation /\ w.arriving = m.arriving
      /\ w.departing = FALSE /\ w.orphan = m.orphan /\ w.active = a
      /\ w.assigns = m.assigns /\ w.unassigns = m.unassigns
  BY <1>1 DEF MonitorRecord
<1> HIDE DEF w
<1>4. /\ u \in MonitorRecord /\ u.generation = m.generation /\ u.arriving = m.arriving
      /\ u.departing = FALSE /\ u.orphan = m.orphan /\ u.active = a /\ u.retired = r
      /\ u.assigns = m.assigns /\ u.unassigns = m.unassigns
  BY <1>3 DEF MonitorRecord
<1>5. u # NoMonitor
  BY <1>4, NoMonitorAssumption
<1> HIDE DEF u
<1> QED
  BY <1>2, <1>4, <1>5

LEMMA DepartTakesKeeps ==
  ASSUME IndInv, NEW t \in Threads, DepartTakes(t)
  PROVE  IndInv'
<1> DEFINE held == Active \cup monitor.retired
           x == MarkedFor(threads[t], "stopping", monitor.generation)
           y == HoldingOn(x, monitor.active, held)
           m == Bared(monitor)
<1>1. /\ MayDepart(t) \/ threads[t].at = "awaitCallbacks"
      /\ UNCHANGED <<counts, arrival, departing, render, os, callback, deferred, leaked>>
  BY DEF DepartTakes
<1>2. threads' = [threads EXCEPT ![t] = y]
  BY Zenon DEF DepartTakes, MarkedFor, HoldingOn
<1>3. monitor' = m
  BY Zenon DEF DepartTakes, Bared
<1>4. /\ threads[t].at \in DepartSites /\ monitor # NoMonitor /\ ~monitor.arriving
      /\ \A o \in Threads \ {t} : ~Leaves(o)
      /\ \A o \in Threads, h \in Generations : ~Calling(o, h)
      /\ \A h \in Generations : ~ArrivalWorks(h)
  <2>1. CASE MayDepart(t)
    BY <2>1, MayDepartAlone DEF IndInv, DepartSites
  <2>2. CASE threads[t].at = "awaitCallbacks"
    <3>1. Leaves(t) /\ threads[t].at \in DepartSites
      BY <2>2 DEF Leaves, DepartSites
    <3> QED
      BY <3>1, OnlyLeaver DEF IndInv, Is
  <2> QED
    BY <1>1, <2>1, <2>2
<1>5. monitor \in MonitorRecord /\ monitor.generation \in 0..MaxGeneration
  BY <1>4, MonitorGeneration DEF IndInv
<1>6. monitor.active \in SwapChains \cup {NoChain} /\ monitor.retired \in SUBSET SwapChains
  BY <1>5 DEF MonitorRecord
<1>7. held \in SUBSET SwapChains
  BY <1>6 DEF Active
<1>8. IsThread(threads[t])
  BY DEF IndInv, Types, ThreadsTyped
<1> HIDE DEF held
<1>9. /\ IsThread(x) /\ x.at = "stopping" /\ x.generation = monitor.generation
      /\ x.then = threads[t].then
  BY <1>5, <1>8, MarkedForRecord
<1> HIDE DEF x
<1>10. /\ IsThread(y) /\ y.at = "stopping" /\ y.generation = monitor.generation
       /\ y.then = threads[t].then
  BY <1>6, <1>7, <1>9, HoldingOnRecord
<1> HIDE DEF y
<1>11. Moved(t) /\ threads'[t] = y
  BY <1>2, <1>10, ThreadBecomes DEF IndInv, Types
<1>12. /\ m \in MonitorRecord /\ m # NoMonitor /\ m.generation = monitor.generation
       /\ m.departing /\ ~m.arriving /\ m.orphan = monitor.orphan
  BY <1>4, <1>5, BaredRecord
<1> HIDE DEF m
<1>13. \A h : Is(h)' <=> Is(h)
  BY <1>3, <1>4, <1>12 DEF Is
<1>14. Reports' /\ SameWorkers
  <2>1. NoNewRecord
    BY <1>3, <1>12, <1>13 DEF NoNewRecord, KeepsRecord
  <2>2. threads'[t].at \in DepartSites
    BY <1>10, <1>11 DEF DepartSites
  <2> QED
    BY <1>1, <1>4, <1>10, <1>11, <2>1, <2>2, DepartingOn
<1>15. Marks'
  <2>1. /\ \A o \in Threads \ {t} : ~Leaves(o)'
        /\ \A o \in Threads, h \in Generations : ~Calling(o, h)'
        /\ \A h \in Generations : ~ArrivalWorks(h)'
    BY <1>1, <1>4, <1>10, <1>11, LeaverAlone
  <2>2. Leaves(t)' /\ monitor'.generation = threads'[t].generation
    BY <1>3, <1>10, <1>11, <1>12 DEF Leaves
  <2> QED
    BY <1>3, <1>12, <2>1, <2>2, MarksWithOneLeaver
<1>16. Counts' /\ ModesRegistered'
  <2>1. HealthKept
    BY <1>1, HealthUnchanged
  <2>2. /\ \A o \in Threads, h \in Generations : Calling(o, h)' <=> Calling(o, h)
        /\ arrivals' = arrivals /\ departures' = departures
    BY <1>1 DEF Calling, counts
  <2>3. Counts'
    BY <1>14, <2>1, <2>2, CountsKept DEF IndInv, HealthKept, SameWorkers
  <2>4. ModesRegistered'
    BY <1>1, <1>13, <1>14 DEF IndInv, ModesRegistered, SameWorkers, os
  <2> QED
    BY <2>3, <2>4
<1>17. Types'
  <2>1. ThreadsTyped'
    BY <1>11, MovedTyped DEF IndInv, Types
  <2> QED
    BY <1>1, <1>3, <1>12, <2>1 DEF IndInv, Types, IsCallback
<1> QED
  BY <1>14, <1>15, <1>16, <1>17 DEF IndInv

\* The thread takes its mark off again, and answers that it failed.
LEMMA GivingUpKeeps ==
  ASSUME IndInv, NEW t \in Threads, Leaves(t), AnswersDeparture(t, "Failed"),
         monitor' \in MonitorRecord, monitor' # NoMonitor,
         monitor'.generation = monitor.generation, monitor'.arriving = monitor.arriving,
         ~monitor'.departing, monitor'.orphan = monitor.orphan,
         UNCHANGED <<counts, arrival, departing, render, os, callback, deferred, leaked>>
  PROVE  IndInv'
<1>1. /\ Is(threads[t].generation) /\ ~monitor.arriving
      /\ \A o \in Threads \ {t} : ~Leaves(o)
      /\ \A o \in Threads, h \in Generations : ~Calling(o, h)
      /\ \A h \in Generations : ~ArrivalWorks(h)
  BY OnlyLeaver DEF IndInv
<1>2. \A h : Is(h)' <=> Is(h)
  BY <1>1 DEF Is
<1>3. NoNewRecord
  BY <1>2 DEF NoNewRecord, KeepsRecord
<1>4. Moved(t) /\ Unmarked(threads'[t]) /\ Reports' /\ SameWorkers
  <2>1. threads[t].at \in DepartSites
    BY DEF Leaves, DepartSites
  <2> QED
    BY <1>3, <2>1, AnswerMoves
<1>5. Marks'
  <2>1. /\ \A o \in Threads \ {t} : ~Leaves(o)'
        /\ \A o \in Threads, h \in Generations : ~Calling(o, h)'
        /\ \A h \in Generations : ~ArrivalWorks(h)'
    BY <1>1, <1>4, LeaverAlone DEF Unmarked
  <2>2. ~Leaves(t)'
    BY <1>4 DEF Leaves, Unmarked
  <2> QED
    BY <1>1, <2>1, <2>2, MarksWithoutDeparture
<1>6. Counts' /\ ModesRegistered'
  <2>1. HealthKept
    BY HealthUnchanged
  <2>2. /\ \A o \in Threads, h \in Generations : Calling(o, h)' <=> Calling(o, h)
        /\ arrivals' = arrivals /\ departures' = departures
    BY DEF Calling, counts
  <2>3. Counts'
    BY <1>4, <2>1, <2>2, CountsKept DEF IndInv, HealthKept, SameWorkers
  <2>4. ModesRegistered'
    BY <1>2, <1>4 DEF IndInv, ModesRegistered, SameWorkers, os
  <2> QED
    BY <2>3, <2>4
<1>7. Types'
  <2>1. ThreadsTyped'
    BY <1>4, MovedTyped DEF IndInv, Types
  <2> QED
    BY <2>1 DEF IndInv, Types, IsCallback
<1> QED
  BY <1>4, <1>5, <1>6, <1>7 DEF IndInv

LEMMA DepartGivesUpOnCallbacksKeeps ==
  ASSUME IndInv, NEW t \in Threads, DepartGivesUpOnCallbacks(t)
  PROVE  IndInv'
<1>1. /\ threads[t].at = "awaitCallbacks" /\ AnswersDeparture(t, "Failed")
      /\ monitor' = [monitor EXCEPT !.departing = FALSE]
      /\ UNCHANGED <<counts, arrival, departing, render, os, chains>>
  BY DEF DepartGivesUpOnCallbacks
<1>2. Leaves(t)
  BY <1>1 DEF Leaves
<1>3. monitor \in MonitorRecord
  BY <1>2, OnlyLeaver DEF IndInv
<1>4. /\ monitor' \in MonitorRecord /\ monitor' # NoMonitor
      /\ monitor'.generation = monitor.generation /\ monitor'.arriving = monitor.arriving
      /\ ~monitor'.departing /\ monitor'.orphan = monitor.orphan
  BY <1>1, <1>3, Unmarking
<1>5. UNCHANGED <<callback, deferred, leaked>>
  BY <1>1 DEF chains
<1> QED
  BY <1>1, <1>2, <1>4, <1>5, GivingUpKeeps

\* What the thread gives back, and what stays active of it.
StillAlive(t) == {p \in threads[t].holds : ~Ended(p)}
ActiveAgain(t) == IF threads[t].active \in StillAlive(t) THEN threads[t].active ELSE monitor.active
RetiredAgain(t) == monitor.retired \cup (StillAlive(t) \ {threads[t].active})

LEMMA DepartGivesBackKeeps ==
  ASSUME IndInv, NEW t \in Threads, DepartGivesBack(t)
  PROVE  IndInv'
<1> DEFINE m == Refilled(monitor, ActiveAgain(t), RetiredAgain(t))
<1>1. /\ threads[t].at = "stopping" /\ AnswersDeparture(t, "Failed")
      /\ UNCHANGED <<counts, arrival, departing, render, os, callback, deferred, leaked>>
  BY DEF DepartGivesBack
<1>2. monitor' = m
  BY Zenon DEF DepartGivesBack, Refilled, ActiveAgain, RetiredAgain, StillAlive
<1>3. Leaves(t)
  BY <1>1 DEF Leaves
<1>4. monitor \in MonitorRecord
  BY <1>3, OnlyLeaver DEF IndInv
<1>5. ActiveAgain(t) \in SwapChains \cup {NoChain} /\ RetiredAgain(t) \in SUBSET SwapChains
  <2>1. monitor.active \in SwapChains \cup {NoChain} /\ monitor.retired \in SUBSET SwapChains
    BY <1>4 DEF MonitorRecord
  <2>2. threads[t].holds \subseteq SwapChains
    BY DEF IndInv, Types, ThreadsTyped, IsThread
  <2> QED
    BY <2>1, <2>2 DEF ActiveAgain, RetiredAgain, StillAlive
<1>6. /\ m \in MonitorRecord /\ m # NoMonitor
      /\ m.generation = monitor.generation /\ m.arriving = monitor.arriving
      /\ ~m.departing /\ m.orphan = monitor.orphan
  BY <1>4, <1>5, RefilledRecord
<1> HIDE DEF m
<1> QED
  BY <1>1, <1>2, <1>3, <1>6, GivingUpKeeps

\* The call that departs the monitor is handed to a worker, which owns the mark now.
LEMMA DepartCallsKeeps ==
  ASSUME IndInv, NEW t \in Threads, DepartCalls(t)
  PROVE  IndInv'
<1> DEFINE g == threads[t].generation
           x == [threads[t] EXCEPT !.at = "awaitDeparture"]
           y == HoldingOn(x, NoChain, {})
<1>1. /\ threads[t].at = "stopping" /\ departures' = departures + 1
      /\ departing' = [departing EXCEPT ![<<t, g>>] = "calling"]
      /\ UNCHANGED <<monitor, arrivals, unhealthy, arrival, render, os, callback, deferred, leaked>>
  BY DEF DepartCalls
<1>2. threads' = [threads EXCEPT ![t] = y]
  BY Zenon DEF DepartCalls, HoldingOn
<1>3. Leaves(t)
  BY <1>1 DEF Leaves
<1>4. /\ Is(g) /\ monitor \in MonitorRecord /\ monitor.departing /\ ~monitor.arriving
      /\ \A o \in Threads \ {t} : ~Leaves(o)
      /\ \A o \in Threads, h \in Generations : ~Calling(o, h)
      /\ \A h \in Generations : ~ArrivalWorks(h)
  BY <1>3, OnlyLeaver DEF IndInv
<1>5. g \in Generations
  BY <1>4 DEF Is, MonitorRecord
<1>6. IsThread(threads[t])
  BY DEF IndInv, Types, ThreadsTyped
<1>7. IsThread(x) /\ x.at = "awaitDeparture" /\ x.then = threads[t].then
  BY <1>6, ThreadAt
<1> HIDE DEF x
<1>8. IsThread(y) /\ y.at = "awaitDeparture" /\ y.then = threads[t].then
  <2>1. NoChain \in SwapChains \cup {NoChain} /\ {} \in SUBSET SwapChains
    OBVIOUS
  <2> QED
    BY <1>7, <2>1, HoldingOnRecord
<1> HIDE DEF y
<1>9. Moved(t) /\ threads'[t] = y
  BY <1>2, <1>8, ThreadBecomes DEF IndInv, Types
<1> HIDE DEF g
<1>10. /\ departing' \in [Threads \X Generations -> {"none", "calling", "departed", "failed"}]
       /\ \A o \in Threads, h \in Generations : Calling(o, h)' <=> o = t /\ h = g
  BY <1>1, <1>4, <1>5 DEF Calling, IndInv, Types
<1>11. Reports' /\ SameWorkers
  <2>1. threads[t].at \in DepartSites /\ threads'[t].at \in DepartSites
    BY <1>1, <1>8, <1>9 DEF DepartSites
  <2> QED
    BY <1>1, <1>8, <1>9, <2>1, NothingNew, DepartingOn
<1>12. Marks'
  <2>1. \A o \in Threads : ~Leaves(o)'
    BY <1>4, <1>8, <1>9 DEF Moved, Leaves
  <2>2. \A h \in Generations : ~ArrivalWorks(h)'
    <3>1. \A h \in Generations : h = t \/ threads'[h] = threads[h]
      BY <1>9, OthersStay
    <3> QED
      BY <1>4, <1>8, <1>9, <3>1 DEF ArrivalWorks
  <2>3. PICK k \in Generations : k = g
    BY <1>5
  <2>4. Is(k)' /\ monitor'.departing /\ ~monitor'.arriving
    BY <1>1, <1>4, <2>3 DEF Is
  <2>5. /\ Calling(t, k)'
        /\ \A o \in Threads, h \in Generations : Calling(o, h)' => o = t /\ h = k
    BY <1>10, <2>3
  <2> QED
    BY <2>1, <2>2, <2>4, <2>5, MarksWithOneCaller
<1>13. Counts' /\ ModesRegistered'
  <2>1. InFlight' = InFlight /\ Asked' = Asked
    BY <1>11 DEF InFlight, Asked, SameWorkers
  <2>2. ~SomeCalling /\ SomeCalling'
    BY <1>4, <1>5, <1>10 DEF SomeCalling
  <2>3. departures = 0 /\ departures' = 1
    BY <1>1, <2>2 DEF IndInv, Counts
  <2>4. arrivals' \in Nat /\ arrivals' = arrivals
    BY <1>1, CountsTyped
  <2>5. Counts'
    <3>1. arrivals' + departures' > 0
      BY <2>3, <2>4
    <3> QED
      BY <2>1, <2>2, <2>3, <2>4, <3>1 DEF IndInv, Counts
  <2>6. ModesRegistered'
    BY <1>1, <1>11 DEF IndInv, ModesRegistered, SameWorkers, os, Is
  <2> QED
    BY <2>5, <2>6
<1>14. Types'
  <2>1. ThreadsTyped'
    BY <1>9, MovedTyped DEF IndInv, Types
  <2> QED
    BY <1>1, <1>10, <2>1 DEF IndInv, Types, IsCallback
<1> QED
  BY <1>11, <1>12, <1>13, <1>14 DEF IndInv

LEMMA DepartureReturnsKeeps ==
  ASSUME IndInv, NEW t \in Threads, NEW g \in Generations, NEW departed \in BOOLEAN,
         DepartureReturns(t, g, departed)
  PROVE  IndInv'
<1>1. Calling(t, g)
  BY DEF DepartureReturns, Calling
<1>2. /\ Is(g) /\ monitor \in MonitorRecord /\ monitor.departing /\ ~monitor.arriving
      /\ \A o \in Threads : ~Leaves(o)
      /\ \A o \in Threads, h \in Generations : Calling(o, h) => o = t /\ h = g
      /\ \A h \in Generations : ~ArrivalWorks(h)
  BY <1>1, OnlyCaller DEF IndInv
<1>3. /\ departures' = departures - 1
      /\ unhealthy' = (unhealthy /\ ~(arrivals = 0 /\ departures - 1 = 0 /\ ~RenderInFlight))
      /\ monitor' = IF departed THEN NoMonitor ELSE [monitor EXCEPT !.departing = FALSE]
      /\ registered' = IF departed THEN registered \ {g} ELSE registered
      /\ UNCHANGED <<arrivals, threads, arrival, render, state, chains>>
  BY <1>2 DEF DepartureReturns, ClearIfSettled
<1>4. /\ departing' \in [Threads \X Generations -> {"none", "calling", "departed", "failed"}]
      /\ \A o \in Threads, h \in Generations : ~Calling(o, h)'
  <2>1. PICK a \in {"none", "departed", "failed"} : departing' = [departing EXCEPT ![<<t, g>>] = a]
    BY DEF DepartureReturns
  <2> QED
    BY <1>2, <2>1 DEF Calling, IndInv, Types
<1>5. /\ monitor' \in MonitorRecord \cup {NoMonitor}
      /\ departed => monitor' = NoMonitor
      /\ ~departed => /\ monitor' # NoMonitor /\ monitor'.generation = monitor.generation
                      /\ ~monitor'.arriving /\ ~monitor'.departing /\ monitor'.orphan = monitor.orphan
  BY <1>2, <1>3, Unmarking
<1>6. \A h : Is(h)' <=> Is(h) /\ ~departed
  BY <1>2, <1>5 DEF Is
<1>7. NoNewRecord
  BY <1>5, <1>6 DEF NoNewRecord, KeepsRecord
<1>8. Reports'
  <2>1. \A o \in Threads : threads'[o] = threads[o]
    BY <1>3
  <2>2. \A h \in Generations : Stays(h) /\ KeepsRecord(h)
    BY <1>3, <1>7 DEF Stays, NoNewRecord
  <2>3. \A h \in Generations : Awaited(h) => Awaited(h)'
    BY <1>3 DEF Awaited
  <2> QED
    BY <1>3, <2>1, <2>2, <2>3, ReportsKept DEF IndInv
<1>9. Marks'
  <2>1. \A o \in Threads : ~Leaves(o)'
    BY <1>2, <1>3 DEF Leaves
  <2>2. \A h \in Generations : ~ArrivalWorks(h)'
    BY <1>2, <1>3 DEF ArrivalWorks
  <2>3. \A h \in Generations : ArrivalWorks(h)' <=> Is(h)' /\ monitor'.arriving
    BY <1>5, <1>6, <2>2
  <2>4. monitor' = NoMonitor \/ ~monitor'.departing
    BY <1>5
  <2> QED
    BY <1>4, <2>1, <2>3, <2>4, MarksWithoutDeparture
<1>10. Counts'
  <2>1. InFlight' = InFlight /\ Asked' = Asked
    BY <1>3 DEF InFlight, Asked
  <2>2. SomeCalling /\ ~SomeCalling'
    BY <1>1, <1>4 DEF SomeCalling
  <2>3. departures' = 0
    BY <1>3, <2>2 DEF IndInv, Counts
  <2>4. arrivals' \in Nat /\ arrivals' = arrivals
    BY <1>3, CountsTyped
  <2>5. unhealthy' => arrivals' + departures' > 0 \/ RenderInFlight'
    <3>1. SUFFICES ASSUME unhealthy', ~RenderInFlight' PROVE arrivals' + departures' > 0
      OBVIOUS
    <3>2. ~RenderInFlight
      BY <1>3, <3>1 DEF RenderInFlight
    <3>3. ~(arrivals = 0 /\ departures' = 0)
      BY <1>3, <3>1, <3>2
    <3> QED
      BY <2>3, <2>4, <3>3
  <2> QED
    BY <2>1, <2>2, <2>3, <2>4, <2>5 DEF IndInv, Counts
<1>11. ModesRegistered'
  <2>1. threads[g].at # "insert"
    BY <1>2 DEF IndInv, Reports, Reported, BeforeInsert
  <2>2. \A h : Is(h) => h = g
    BY <1>2 DEF Is
  <2> QED
    BY <1>3, <1>6, <2>1, <2>2 DEF IndInv, ModesRegistered
<1>12. Types'
  BY <1>3, <1>4, <1>5 DEF IndInv, Types, ThreadsTyped, IsThread, IsCallback, chains
<1> QED
  BY <1>8, <1>9, <1>10, <1>11, <1>12 DEF IndInv

-----------------------------------------------------------------------------
(* The callers.                                                            *)

LEMMA ControllerGoesQuietly ==
  ASSUME IndInv, NEW t \in {Controller, Reaper, Cleanup}, Moved(t),
         Unmarked(threads[t]), Unmarked(threads'[t]), ThenFits(t)', threads'[t].at # "awaitArrival",
         UNCHANGED <<monitor, arrivals, departures, arrival, departing, os, chains>>, HealthKept
  PROVE  IndInv'
<1>1. t \in Threads
  BY DEF Threads
<1>2. threads'[Controller] = threads[Controller] \/ threads'[Controller].at # "awaitArrival"
  BY <1>1 DEF Moved, Threads
<1>3. Reports' /\ SameWorkers
  BY <1>2, NothingNew, CallerMoves
<1>4. /\ \A o \in Threads, h \in Generations : Calling(o, h)' <=> Calling(o, h)
      /\ UNCHANGED <<monitor, arrivals, departures, os, callback, deferred, leaked>>
      /\ arrival' \in [Generations -> [done : BOOLEAN, timedOut : BOOLEAN]]
      /\ departing' \in [Threads \X Generations -> {"none", "calling", "departed", "failed"}]
  BY DEF Calling, chains, IndInv, Types
<1> QED
  BY <1>1, <1>3, <1>4, ThreadOnlyMove

\* No thread moves, and neither do the records.
LEMMA NoThreadMoves ==
  ASSUME IndInv, UNCHANGED <<threads, arrivals, departures, arrival, departing, registered>>, SameRecord, HealthKept
  PROVE  Elsewhere
<1>1. Marks'
  BY MarksKept DEF IndInv, ArrivalWorks, Calling
<1>2. NoNewRecord
  BY SameRecordIsNoNew
<1>3. Reports'
  <2>1. \A g \in Generations : Stays(g) /\ KeepsRecord(g)
    BY <1>2 DEF Stays, NoNewRecord
  <2>2. \A g \in Generations : Awaited(g) => Awaited(g)'
    BY DEF Awaited
  <2> QED
    BY <2>1, <2>2, ReportsKept DEF IndInv
<1>4. Counts'
  BY CountsKept DEF IndInv, HealthKept, Calling
<1>5. ModesRegistered'
  BY ModesKept DEF IndInv
<1> QED
  BY <1>1, <1>3, <1>4, <1>5 DEF Elsewhere

\* The next generation to be asked for.
LEMMA NextAsked ==
  ASSUME IndInv, NEW g, g = Cardinality(Asked) + 1, g \in Generations
  PROVE  /\ threads[g].at = "idle"
         /\ \E k \in 0..MaxGeneration : Asked \cup {g} = 1..k
<1>1. PICK k \in 0..MaxGeneration : Asked = 1..k
  BY DEF IndInv, Counts
<1>2. k \in Nat /\ MaxGeneration \in Nat /\ k <= MaxGeneration
  BY BoundsAssumption
<1>3. Cardinality(1..k) = k
  BY <1>2, FS_Interval
<1>4. g = k + 1 /\ g <= MaxGeneration
  BY <1>1, <1>2, <1>3 DEF Generations
<1>5. g \notin Asked
  BY <1>1, <1>2, <1>4
<1>6. Asked \cup {g} = 1..g
  BY <1>1, <1>2, <1>4
<1>7. g \in 0..MaxGeneration
  BY <1>2, <1>4
<1> QED
  BY <1>5, <1>6, <1>7 DEF Asked

\* Both threads of the call.
LEMMA AskedThreads ==
  ASSUME ThreadsTyped, NEW g \in Generations,
         threads' = [threads EXCEPT ![Controller].at = "awaitArrival",
                                    ![Controller].generation = g, ![g].at = "heal"]
  PROVE  /\ ThreadsTyped'
         /\ threads'[Controller].at = "awaitArrival" /\ threads'[Controller].generation = g
         /\ threads'[g].at = "heal"
         /\ \A o \in Threads \ {Controller, g} : threads'[o] = threads[o]
         /\ \A o \in Threads : threads'[o].holds = threads[o].holds /\ threads'[o].active = threads[o].active
<1> DEFINE y == MarkedFor(threads[Controller], "awaitArrival", g)
           z == [threads[g] EXCEPT !.at = "heal"]
<1>1. Controller \in Threads /\ g \in Threads /\ g # Controller /\ g \in 0..MaxGeneration
  BY ThreadsAssumption, BoundsAssumption DEF Threads, Generations
<1>2. /\ IsThread(threads[Controller]) /\ IsThread(threads[g])
      /\ threads = [o \in Threads |-> threads[o]]
      /\ \A o \in Threads : IsThread(threads[o])
  BY <1>1 DEF ThreadsTyped
<1>3. /\ IsThread(y) /\ y.at = "awaitArrival" /\ y.generation = g
      /\ y.holds = threads[Controller].holds /\ y.active = threads[Controller].active
  BY <1>1, <1>2, MarkedForRecord
<1>4. /\ IsThread(z) /\ z.at = "heal"
      /\ z.holds = threads[g].holds /\ z.active = threads[g].active
  BY <1>2, ThreadAt
<1> DEFINE one == [threads EXCEPT ![Controller] = y]
<1>5. one[g] = threads[g]
  BY <1>1, <1>2
<1>6. threads' = [one EXCEPT ![g] = z]
  <2>1. threads' = [one EXCEPT ![g].at = "heal"]
    BY Zenon DEF MarkedFor
  <2> HIDE DEF one
  <2> QED
    BY <1>5, <2>1
<1> HIDE DEF y, z
<1>7. one = [o \in Threads |-> IF o = Controller THEN y ELSE threads[o]]
  BY <1>2
<1> HIDE DEF one
<1>8. threads' = [o \in Threads |-> IF o = g THEN z ELSE IF o = Controller THEN y ELSE threads[o]]
  BY <1>6, <1>7
<1>9. ASSUME NEW o \in Threads PROVE IsThread(threads'[o])
  BY <1>2, <1>3, <1>4, <1>8
<1>10. ThreadsTyped'
  <2>1. threads' = [o \in Threads |-> threads'[o]]
    BY <1>8
  <2>2. ASSUME NEW o \in Threads PROVE IsThread(threads[o])'
    BY <1>9 DEF IsThread
  <2> QED
    BY <2>1, <2>2 DEF ThreadsTyped
<1> QED
  BY <1>1, <1>3, <1>4, <1>8, <1>10

LEMMA ArrivalAskedKeeps ==
  ASSUME IndInv, ArrivalAsked
  PROVE  IndInv'
<1>1. PICK g \in Generations :
          /\ g = Cardinality(Asked) + 1
          /\ threads[Controller].at = "idle" /\ arrivals' = arrivals + 1
          /\ threads' = [threads EXCEPT ![Controller].at = "awaitArrival",
                                        ![Controller].generation = g, ![g].at = "heal"]
          /\ UNCHANGED <<monitor, departures, unhealthy, arrival, departing, render, os, chains>>
  BY DEF ArrivalAsked, ControllerCalls
<1>2. g \in Threads /\ g # Controller /\ Controller \in Threads /\ Controller \notin Generations
  BY ThreadsAssumption DEF Threads
<1>3. /\ ThreadsTyped'
      /\ threads'[Controller].at = "awaitArrival" /\ threads'[Controller].generation = g
      /\ threads'[g].at = "heal"
      /\ \A o \in Threads \ {Controller, g} : threads'[o] = threads[o]
  BY <1>1, AskedThreads DEF IndInv, Types
<1>4. threads[g].at = "idle" /\ \E k \in 0..MaxGeneration : Asked \cup {g} = 1..k
  BY <1>1, NextAsked
<1>5. \A h \in Generations : h = g \/ threads'[h] = threads[h]
  BY <1>2, <1>3 DEF Threads
<1>6. NoNewRecord /\ SameRecord
  BY <1>1, NothingNew DEF SameRecord
<1>7. Reported(g) /\ BeforeInsert(threads[g])
  BY <1>4 DEF IndInv, Reports, BeforeInsert
<1>8. Reports'
  <2>1. Reported(g)'
    <3>1. ~Is(g)'
      BY <1>6, <1>7 DEF NoNewRecord, KeepsRecord, Reported
    <3> QED
      BY <1>3, <3>1 DEF Reported, BeforeInsert, AfterReport, DepartSites
  <2>2. ASSUME NEW o \in Threads PROVE threads'[o] = threads[o] \/ ThenFits(o)'
    BY <1>3 DEF ThenFits, DepartSites
  <2>4. ASSUME NEW h \in Generations PROVE Reported(h)'
    <3>1. CASE h = g
      BY <2>1, <3>1
    <3>2. CASE h # g
      <4>1. threads'[h] = threads[h] /\ arrival'[h] = arrival[h] /\ Reported(h)
        BY <1>1, <1>5, <3>2 DEF IndInv, Reports
      <4>2. KeepsRecord(h)
        BY <1>6 DEF NoNewRecord
      <4> QED
        BY <4>1, <4>2 DEF Reported, BeforeInsert, Between, AfterReport, KeepsRecord
    <3> QED
      BY <3>1, <3>2
  <2>5. ASSUME NEW o \in Threads PROVE ThenFits(o)'
    BY <2>2 DEF ThenFits, IndInv, Reports
  <2>6. ControllerWaits'
    <3>1. ~arrival'[g].timedOut
      BY <1>1, <1>4, <1>7 DEF Reported
    <3> QED
      BY <1>3, <3>1 DEF ControllerWaits, Awaited
  <2> QED
    BY <2>4, <2>5, <2>6 DEF Reports
<1>9. \A o \in Threads, h \in Generations : Calling(o, h)' <=> Calling(o, h)
  BY <1>1 DEF Calling
<1>10. Marks'
  <2>1. \A o \in Threads : threads'[o] = threads[o] \/ (Away(threads[o]) /\ Away(threads'[o]))
    BY <1>1, <1>3, <1>4 DEF Away
  <2>2. \A h \in Generations : ArrivalWorks(h)' <=> ArrivalWorks(h)
    BY <1>3, <1>4, <1>5 DEF ArrivalWorks
  <2> QED
    BY <1>6, <1>9, <2>1, <2>2, MarksKept DEF IndInv
<1>11. Counts'
  <2>1. IsFiniteSet(InFlight) /\ arrivals \in Nat /\ departures \in {0, 1}
    BY CountsTyped
  <2>2. g \notin InFlight /\ InFlight' = InFlight \cup {g}
    BY <1>3, <1>4, <1>5 DEF InFlight, Landed
  <2>3. Cardinality(InFlight') = Cardinality(InFlight) + 1
    BY <2>1, <2>2, FS_AddElement
  <2>4. arrivals' = Cardinality(InFlight')
    BY <1>1, <2>3 DEF IndInv, Counts
  <2>5. Asked' = Asked \cup {g}
    BY <1>3, <1>5 DEF Asked
  <2>6. SomeCalling' <=> SomeCalling
    BY <1>9 DEF SomeCalling
  <2>7. arrivals' + departures' > 0
    BY <1>1, <2>1
  <2> QED
    BY <1>1, <1>4, <2>4, <2>5, <2>6, <2>7 DEF IndInv, Counts
<1>12. ModesRegistered'
  <2>1. \A h \in Generations : threads'[h].at = "insert" <=> threads[h].at = "insert"
    BY <1>3, <1>4, <1>5
  <2>2. registered' = registered
    BY <1>1 DEF os
  <2> QED
    BY <1>6, <2>1, <2>2, ModesKept DEF IndInv
<1>13. Types'
  BY <1>1, <1>3 DEF IndInv, Types, IsCallback, chains
<1> QED
  BY <1>8, <1>10, <1>11, <1>12, <1>13 DEF IndInv

LEMMA ArrivalAnsweredKeeps ==
  ASSUME IndInv, ArrivalAnswered
  PROVE  IndInv'
<1>1. /\ threads[Controller].at = "awaitArrival"
      /\ threads' = [threads EXCEPT ![Controller] = Idle]
      /\ UNCHANGED <<monitor, counts, arrival, departing, render, os, chains>>
  BY DEF ArrivalAnswered
<1>2. Controller \in Threads
  BY DEF Threads
<1>3. Moved(Controller) /\ threads'[Controller].at = "idle"
  BY <1>1, <1>2, IdleThread, ThreadBecomes DEF IndInv, Types
<1>4. Unmarked(threads[Controller]) /\ Unmarked(threads'[Controller]) /\ ThenFits(Controller)'
  BY <1>1, <1>3 DEF Unmarked, ThenFits, DepartSites
<1>5. HealthKept /\ UNCHANGED <<arrivals, departures>>
  BY <1>1, HealthUnchanged DEF counts
<1> QED
  BY <1>1, <1>3, <1>4, <1>5, ControllerGoesQuietly

\* The caller gives up on a worker that is still counted.
LEMMA ArrivalTimesOutKeeps ==
  ASSUME IndInv, ArrivalTimesOut
  PROVE  IndInv'
<1>1. PICK g : g = threads[Controller].generation
  OBVIOUS
<1>2. /\ threads[Controller].at = "awaitArrival" /\ ~arrival[g].done
      /\ arrival' = [arrival EXCEPT ![g].timedOut = TRUE]
      /\ threads' = [threads EXCEPT ![Controller] = Idle]
      /\ UNCHANGED <<monitor, arrivals, departures, departing, render, os, chains>>
  BY <1>1 DEF ArrivalTimesOut
<1>3. g \in Generations /\ threads[g].at # "idle" /\ ~arrival[g].timedOut
  BY <1>1, <1>2 DEF IndInv, Reports, ControllerWaits, Awaited
<1>4. Controller \in Threads /\ g \in Threads /\ Controller \notin Generations
  BY <1>3, ThreadsAssumption DEF Threads
<1>5. Moved(Controller) /\ threads'[Controller].at = "idle"
  BY <1>2, <1>4, IdleThread, ThreadBecomes DEF IndInv, Types
<1>6. Unmarked(threads[Controller]) /\ Unmarked(threads'[Controller]) /\ ThenFits(Controller)'
  BY <1>2, <1>5 DEF Unmarked, ThenFits, DepartSites
<1>7. \A h \in Generations : threads'[h] = threads[h]
  BY <1>4, <1>5 DEF Moved, Threads
<1>8. /\ arrival' \in [Generations -> [done : BOOLEAN, timedOut : BOOLEAN]]
      /\ \A h \in Generations \ {g} : arrival'[h] = arrival[h]
      /\ arrival'[g].done = arrival[g].done
  BY <1>2, <1>3 DEF IndInv, Types
<1>9. Reported(g) /\ ~AfterReport(threads[g])
  BY <1>2, <1>3 DEF IndInv, Reports, Reported
<1>10. NoNewRecord
  BY <1>2, NothingNew
<1>11. Reports'
  <2>1. Reported(g)'
    <3>1. threads'[g] = threads[g]
      BY <1>3, <1>7
    <3>2. Is(g)' => Is(g)
      BY <1>10 DEF NoNewRecord, KeepsRecord
    <3> QED
      BY <1>3, <1>8, <1>9, <3>1, <3>2 DEF Reported, BeforeInsert, Between, AfterReport
  <2>2. ASSUME NEW h \in Generations PROVE Reported(h)'
    <3>1. CASE h = g
      BY <2>1, <3>1
    <3>2. CASE h # g
      <4>1. threads'[h] = threads[h] /\ arrival'[h] = arrival[h] /\ Reported(h)
        BY <1>7, <1>8, <3>2 DEF IndInv, Reports
      <4>2. KeepsRecord(h)
        BY <1>10 DEF NoNewRecord
      <4> QED
        BY <4>1, <4>2 DEF Reported, BeforeInsert, Between, AfterReport, KeepsRecord
    <3> QED
      BY <3>1, <3>2
  <2>3. ASSUME NEW o \in Threads PROVE ThenFits(o)'
    <3>1. CASE o = Controller
      BY <1>6, <3>1
    <3>2. CASE o # Controller
      BY <1>5, <3>2 DEF Moved, ThenFits, IndInv, Reports
    <3> QED
      BY <3>1, <3>2
  <2>4. ControllerWaits'
    BY <1>5 DEF ControllerWaits
  <2> QED
    BY <2>2, <2>3, <2>4 DEF Reports
<1>12. SameWorkers
  BY <1>7 DEF SameWorkers
<1>13. HealthKept
  <2>1. g \in InFlight
    BY <1>3, <1>9 DEF InFlight, Landed, AfterReport
  <2>2. IsFiniteSet(InFlight) /\ arrivals = Cardinality(InFlight) /\ arrivals \in Nat
        /\ departures \in {0, 1}
    BY CountsTyped DEF IndInv, Counts
  <2>3. arrivals # 0
    BY <2>1, <2>2, FS_EmptySet
  <2> QED
    BY <2>2, <2>3 DEF HealthKept
<1>14. /\ \A o \in Threads, h \in Generations : Calling(o, h)' <=> Calling(o, h)
       /\ departing' \in [Threads \X Generations -> {"none", "calling", "departed", "failed"}]
       /\ UNCHANGED <<monitor, arrivals, departures, os, callback, deferred, leaked>>
  BY <1>2 DEF Calling, IndInv, Types, chains
<1> QED
  BY <1>4, <1>5, <1>6, <1>8, <1>11, <1>12, <1>13, <1>14, ThreadOnlyMove

LEMMA DepartureAskedKeeps ==
  ASSUME IndInv, NEW g \in Generations \cup {0}, DepartureAsked(g)
  PROVE  IndInv'
<1>1. /\ threads[Controller].at = "idle" /\ Departs(Controller, g, "idle")
      /\ UNCHANGED <<monitor, counts, arrival, departing, render, os, chains>>
  BY DEF DepartureAsked, ControllerCalls, counts
<1>2. Controller \in Threads /\ Controller \notin Generations
  BY ThreadsAssumption DEF Threads
<1>3. Moved(Controller) /\ threads'[Controller].at = "depart" /\ threads'[Controller].then = "idle"
  <2>1. g \in 0..MaxGeneration
    BY BoundsAssumption DEF Generations
  <2> QED
    BY <1>1, <1>2, <2>1, GoingToDepart DEF IndInv, Types
<1>4. Unmarked(threads[Controller]) /\ Unmarked(threads'[Controller]) /\ ThenFits(Controller)'
  BY <1>1, <1>2, <1>3 DEF Unmarked, ThenFits
<1>5. HealthKept /\ UNCHANGED <<arrivals, departures>>
  BY <1>1, HealthUnchanged DEF counts
<1> QED
  BY <1>1, <1>3, <1>4, <1>5, ControllerGoesQuietly

\* The change of the render adapter, and the flag that waits for its worker.
LEMMA RenderAdapterKeeps ==
  ASSUME IndInv, \/ RenderAdapterAsked \/ RenderAdapterAnswered \/ RenderAdapterTimesOut
  PROVE  IndInv'
<1>1. PICK at \in {"awaitRender", "idle"} :
          /\ Goes(Controller, at) /\ threads[Controller].at \in {"idle", "awaitRender"}
          /\ UNCHANGED <<monitor, arrivals, departures, arrival, departing, os, chains>>
  BY DEF RenderAdapterAsked, RenderAdapterAnswered, RenderAdapterTimesOut, ControllerCalls, counts
<1>2. Controller \in Threads
  BY DEF Threads
<1>3. Moved(Controller) /\ threads'[Controller].at = at
  BY <1>1, <1>2, Going DEF IndInv, Types
<1>4. Unmarked(threads[Controller]) /\ Unmarked(threads'[Controller]) /\ ThenFits(Controller)'
  BY <1>1, <1>3 DEF Unmarked, ThenFits, DepartSites
<1>5. HealthKept
  <2>1. CASE RenderAdapterAsked
    BY <2>1 DEF RenderAdapterAsked, ControllerCalls, HealthKept, RenderInFlight
  <2>2. CASE RenderAdapterAnswered
    BY <2>2, HealthUnchanged DEF RenderAdapterAnswered
  <2>3. CASE RenderAdapterTimesOut
    BY <2>3 DEF RenderAdapterTimesOut, HealthKept, RenderInFlight
  <2> QED
    BY <2>1, <2>2, <2>3
<1> QED
  BY <1>1, <1>3, <1>4, <1>5, ControllerGoesQuietly

\* No thread moves, and the record keeps its life and its marks.
LEMMA RecordOnly ==
  ASSUME IndInv, SameRecord, monitor' \in MonitorRecord \cup {NoMonitor}, HealthKept,
         IsCallback(callback)', deferred' \subseteq SwapChains, leaked' \subseteq SwapChains,
         UNCHANGED <<threads, arrivals, departures, arrival, departing, os>>
  PROVE  IndInv'
<1>1. Elsewhere
  BY NoThreadMoves DEF os
<1>2. Types'
  BY DEF IndInv, Types, ThreadsTyped, IsThread
<1> QED
  BY <1>1, <1>2 DEF IndInv, Elsewhere

LEMMA RenderAdapterReturnsKeeps ==
  ASSUME IndInv, RenderAdapterReturns
  PROVE  IndInv'
<1>1. /\ unhealthy' = (unhealthy /\ ~(arrivals = 0 /\ departures = 0 /\ ~FALSE))
      /\ UNCHANGED <<monitor, arrivals, departures, threads, arrival, departing, os, chains>>
  BY DEF RenderAdapterReturns, ClearIfSettled
<1>2. arrivals \in Nat /\ departures \in {0, 1}
  BY CountsTyped
<1>3. HealthKept
  <2>1. unhealthy' => ~(arrivals = 0 /\ departures = 0)
    BY <1>1
  <2> QED
    BY <1>2, <2>1 DEF HealthKept
<1>4. /\ SameRecord /\ monitor' \in MonitorRecord \cup {NoMonitor}
      /\ IsCallback(callback)' /\ deferred' \subseteq SwapChains /\ leaked' \subseteq SwapChains
  BY <1>1 DEF SameRecord, IndInv, Types, IsCallback, chains
<1> QED
  BY <1>1, <1>3, <1>4, RecordOnly

LEMMA AdapterInitFinishedKeeps ==
  ASSUME IndInv, AdapterInitFinished
  PROVE  IndInv'
<1>1. UNCHANGED <<monitor, counts, threads, arrival, departing, render, os, chains>>
  BY DEF AdapterInitFinished, calls
<1>2. /\ SameRecord /\ monitor' \in MonitorRecord \cup {NoMonitor}
      /\ IsCallback(callback)' /\ deferred' \subseteq SwapChains /\ leaked' \subseteq SwapChains
  BY <1>1 DEF SameRecord, IndInv, Types, IsCallback, chains
<1>3. HealthKept /\ UNCHANGED <<arrivals, departures>>
  BY <1>1, HealthUnchanged DEF counts
<1> QED
  BY <1>1, <1>2, <1>3, RecordOnly

\* The record of the display changes, but neither its life nor its marks.
Touched(m) ==
    /\ m \in MonitorRecord
    /\ m.generation = monitor.generation /\ m.arriving = monitor.arriving
    /\ m.departing = monitor.departing /\ m.orphan = monitor.orphan

LEMMA TouchedRecord ==
  ASSUME monitor \in MonitorRecord, Touched(monitor')
  PROVE  SameRecord
BY NoMonitorAssumption DEF Touched, SameRecord

LEMMA ReaperCleansUpKeeps ==
  ASSUME IndInv, ReaperCleansUp
  PROVE  IndInv'
<1>1. /\ threads[Reaper].at = "idle" /\ monitor # NoMonitor
      /\ monitor' = [monitor EXCEPT !.retired = {p \in monitor.retired : ~Ended(p)}]
      /\ Departs(Reaper, monitor.generation, "idle") \/ UNCHANGED threads
      /\ UNCHANGED <<counts, arrival, departing, render, os, callback, deferred, leaked>>
  BY DEF ReaperCleansUp
<1>2. monitor \in MonitorRecord /\ monitor.generation \in 0..MaxGeneration
  BY <1>1, MonitorGeneration DEF IndInv
<1>3. Touched(monitor')
  BY <1>1, <1>2 DEF Touched, MonitorRecord
<1>4. SameRecord /\ HealthKept /\ UNCHANGED <<arrivals, departures>>
  BY <1>1, <1>2, <1>3, TouchedRecord, HealthUnchanged DEF counts
<1>5. CASE UNCHANGED threads
  BY <1>1, <1>3, <1>4, <1>5, RecordOnly DEF Touched, IndInv, Types, IsCallback
<1>6. CASE Departs(Reaper, monitor.generation, "idle")
  <2>1. Reaper \in Threads /\ Reaper \notin Generations /\ Reaper # Controller
    BY ThreadsAssumption DEF Threads
  <2>2. Moved(Reaper) /\ threads'[Reaper].at = "depart" /\ threads'[Reaper].then = "idle"
    BY <1>2, <1>6, <2>1, GoingToDepart DEF IndInv, Types
  <2>3. Unmarked(threads[Reaper]) /\ Unmarked(threads'[Reaper]) /\ ThenFits(Reaper)'
    BY <1>1, <2>1, <2>2 DEF Unmarked, ThenFits
  <2>4. threads'[Controller] = threads[Controller]
    BY <2>1, <2>2 DEF Moved, Threads
  <2>5. Reports' /\ SameWorkers
    BY <1>1, <1>4, <2>2, <2>3, <2>4, SameRecordIsNoNew, CallerMoves
  <2>6. /\ \A o \in Threads, h \in Generations : Calling(o, h)' <=> Calling(o, h)
        /\ registered' = registered
    BY <1>1 DEF Calling, os
  <2>7. Elsewhere
    BY <1>4, <2>1, <2>2, <2>3, <2>5, <2>6, PlainMove
  <2>8. Types'
    <3>1. ThreadsTyped'
      BY <2>1, <2>2, MovedTyped DEF IndInv, Types
    <3> QED
      BY <1>1, <1>3, <3>1 DEF IndInv, Types, IsCallback, Touched
  <2> QED
    BY <2>7, <2>8 DEF IndInv, Elsewhere
<1> QED
  BY <1>1, <1>5, <1>6

LEMMA CleanupGoes ==
  ASSUME IndInv, NEW at \in {"settle", "departed", "leaked", "deleted"}, Goes(Cleanup, at),
         threads[Cleanup].at \in {"idle", "settle", "departed"}
  PROVE  /\ Moved(Cleanup) /\ Unmarked(threads[Cleanup]) /\ Unmarked(threads'[Cleanup])
         /\ ThenFits(Cleanup)' /\ threads'[Cleanup].at # "awaitArrival"
<1>1. Cleanup \in Threads
  BY DEF Threads
<1>2. Moved(Cleanup) /\ threads'[Cleanup].at = at
  BY <1>1, Going DEF IndInv, Types
<1> QED
  BY <1>2 DEF Unmarked, ThenFits, DepartSites

LEMMA ShutdownKeeps ==
  ASSUME IndInv, ShutdownBegins \/ ShutdownSettles \/ ShutdownGivesUp
  PROVE  IndInv'
<1>1. /\ threads[Cleanup].at \in {"idle", "settle"}
      /\ \/ \E at \in {"settle", "departed", "leaked"} : Goes(Cleanup, at)
         \/ Departs(Cleanup, 0, "departed")
      /\ UNCHANGED <<monitor, counts, arrival, departing, render, os, chains>>
  BY DEF ShutdownBegins, ShutdownSettles, ShutdownGivesUp, state
<1>2. Cleanup \in Threads /\ Cleanup \notin Generations
  BY ThreadsAssumption DEF Threads
<1>3. /\ Moved(Cleanup) /\ Unmarked(threads[Cleanup]) /\ Unmarked(threads'[Cleanup])
      /\ ThenFits(Cleanup)' /\ threads'[Cleanup].at # "awaitArrival"
  <2>1. CASE \E at \in {"settle", "departed", "leaked"} : Goes(Cleanup, at)
    BY <1>1, <2>1, CleanupGoes
  <2>2. CASE Departs(Cleanup, 0, "departed")
    <3>1. 0 \in 0..MaxGeneration
      BY BoundsAssumption
    <3>2. Moved(Cleanup) /\ threads'[Cleanup].at = "depart" /\ threads'[Cleanup].then = "departed"
      BY <1>2, <2>2, <3>1, GoingToDepart DEF IndInv, Types
    <3> QED
      BY <1>1, <1>2, <3>2 DEF Unmarked, ThenFits
  <2> QED
    BY <1>1, <2>1, <2>2
<1>4. HealthKept /\ UNCHANGED <<arrivals, departures>>
  BY <1>1, HealthUnchanged DEF counts
<1> QED
  BY <1>1, <1>3, <1>4, ControllerGoesQuietly

LEMMA ShutdownEndsKeeps ==
  ASSUME IndInv, ShutdownEnds
  PROVE  IndInv'
<1>1. /\ threads[Cleanup].at = "departed"
      /\ \E at \in {"leaked", "deleted"} : Goes(Cleanup, at)
      /\ \/ monitor' = monitor
         \/ monitor # NoMonitor /\ monitor' = [monitor EXCEPT !.connected = FALSE]
      /\ UNCHANGED <<counts, arrival, departing, render, os, chains>>
  BY DEF ShutdownEnds
<1>2. Cleanup \in Threads /\ Cleanup # Controller
  BY ThreadsAssumption DEF Threads
<1>3. /\ Moved(Cleanup) /\ Unmarked(threads[Cleanup]) /\ Unmarked(threads'[Cleanup])
      /\ ThenFits(Cleanup)'
  BY <1>1, CleanupGoes
<1>4. HealthKept /\ UNCHANGED <<arrivals, departures>>
  BY <1>1, HealthUnchanged DEF counts
<1>5. SameRecord /\ monitor' \in MonitorRecord \cup {NoMonitor}
  <2>1. CASE monitor' = monitor
    BY <2>1 DEF SameRecord, IndInv, Types
  <2>2. CASE monitor # NoMonitor /\ monitor' = [monitor EXCEPT !.connected = FALSE]
    <3>1. monitor \in MonitorRecord
      BY <2>2 DEF IndInv, Types
    <3>2. Touched(monitor')
      BY <2>2, <3>1 DEF Touched, MonitorRecord
    <3> QED
      BY <3>1, <3>2, TouchedRecord DEF Touched
  <2> QED
    BY <1>1, <2>1, <2>2
<1>6. threads'[Controller] = threads[Controller]
  BY <1>2, <1>3 DEF Moved, Threads
<1>7. Reports' /\ SameWorkers
  BY <1>1, <1>3, <1>5, <1>6, SameRecordIsNoNew, CallerMoves
<1>8. /\ \A o \in Threads, h \in Generations : Calling(o, h)' <=> Calling(o, h)
      /\ registered' = registered
  BY <1>1 DEF Calling, os
<1>9. Elsewhere
  BY <1>2, <1>3, <1>4, <1>5, <1>7, <1>8, PlainMove
<1>10. Types'
  <2>1. ThreadsTyped'
    BY <1>2, <1>3, MovedTyped DEF IndInv, Types
  <2> QED
    BY <1>1, <1>5, <2>1 DEF IndInv, Types, IsCallback, chains
<1> QED
  BY <1>9, <1>10 DEF IndInv, Elsewhere

-----------------------------------------------------------------------------
(* The callbacks of the operating system, and the threads of processors.   *)

\* A callback, or what cleans up after one, touches nothing but the record's processors.
LEMMA CallbackKeeps ==
  ASSUME IndInv, UNCHANGED <<counts, calls, os>>,
         monitor' = monitor \/ (monitor \in MonitorRecord /\ Touched(monitor')),
         IsCallback(callback)', deferred' \subseteq SwapChains, leaked' \subseteq SwapChains
  PROVE  IndInv'
<1>1. SameRecord /\ monitor' \in MonitorRecord \cup {NoMonitor}
  <2>1. CASE monitor' = monitor
    BY <2>1 DEF SameRecord, IndInv, Types
  <2>2. CASE monitor \in MonitorRecord /\ Touched(monitor')
    BY <2>2, TouchedRecord DEF Touched
  <2> QED
    BY <2>1, <2>2
<1>2. HealthKept /\ UNCHANGED <<arrivals, departures, threads, arrival, departing>>
  BY HealthUnchanged DEF counts, calls
<1> QED
  BY <1>1, <1>2, RecordOnly

LEMMA CallbackFields ==
  ASSUME NEW at, NEW g \in Generations, NEW p, NEW held \in SUBSET SwapChains,
         at = "assign" => p \in SwapChains, at # "retire"
  PROVE  IsCallback([at |-> at, generation |-> g, chain |-> p, holds |-> held])
<1>1. g \in 0..MaxGeneration
  BY BoundsAssumption DEF Generations
<1> QED
  BY <1>1 DEF IsCallback

LEMMA CallbackMoves ==
  ASSUME NEW c, IsCallback(c), NEW at, NEW held \in SUBSET SwapChains,
         at # "assign", at = "retire" => held # {}
  PROVE  /\ IsCallback([c EXCEPT !.at = at, !.holds = held])
         /\ at # "retire" => IsCallback([c EXCEPT !.at = at])
<1> DEFINE d == [c EXCEPT !.at = at]
<1>1. /\ d = [at |-> d.at, generation |-> d.generation, chain |-> d.chain, holds |-> d.holds]
      /\ d.at = at /\ d.generation = c.generation /\ d.holds = c.holds
      /\ c.generation \in 0..MaxGeneration /\ c.holds \subseteq SwapChains
  BY DEF IsCallback
<1>2. at # "retire" => IsCallback(d)
  BY <1>1 DEF IsCallback
<1>3. [c EXCEPT !.at = at, !.holds = held] = [d EXCEPT !.holds = held]
  OBVIOUS
<1> HIDE DEF d
<1>4. IsCallback([d EXCEPT !.holds = held])
  BY <1>1 DEF IsCallback
<1> QED
  BY <1>2, <1>3, <1>4 DEF d

LEMMA NoCallbackFields == IsCallback(NoCallback)
<1>1. 0 \in 0..MaxGeneration
  BY BoundsAssumption
<1> QED
  BY <1>1 DEF NoCallback, IsCallback

LEMMA AssignBeginsKeeps ==
  ASSUME IndInv, NEW g \in Generations, NEW p \in SwapChains, AssignBegins(g, p)
  PROVE  IndInv'
<1>1. /\ Is(g) /\ monitor' = [monitor EXCEPT !.assigns = monitor.assigns + 1]
      /\ callback' = [at |-> "assign", generation |-> g, chain |-> p, holds |-> {}]
      /\ UNCHANGED <<counts, calls, os, deferred, leaked>>
  BY DEF AssignBegins
<1>2. monitor \in MonitorRecord
  BY <1>1 DEF Is, IndInv, Types
<1>3. Touched(monitor')
  BY <1>1, <1>2 DEF Touched, MonitorRecord
<1>4. IsCallback(callback')
  BY <1>1, CallbackFields
<1>5. IsCallback(callback)'
  BY <1>4 DEF IsCallback
<1> QED
  BY <1>1, <1>2, <1>3, <1>5, CallbackKeeps DEF IndInv, Types

LEMMA UnassignBeginsKeeps ==
  ASSUME IndInv, NEW g \in Generations, UnassignBegins(g)
  PROVE  IndInv'
<1> DEFINE held == Active \cup monitor.retired
           more == [monitor EXCEPT !.unassigns = monitor.unassigns + 1]
<1>1. /\ Is(g)
      /\ monitor' = [more EXCEPT !.active = NoChain, !.retired = {}]
      /\ callback' = [at |-> "unassign", generation |-> g, chain |-> NoChain, holds |-> held]
      /\ UNCHANGED <<counts, calls, os, deferred, leaked>>
  BY DEF UnassignBegins
<1>2. monitor \in MonitorRecord
  BY <1>1 DEF Is, IndInv, Types
<1>3. /\ more \in MonitorRecord /\ more.generation = monitor.generation
      /\ more.arriving = monitor.arriving /\ more.departing = monitor.departing
      /\ more.orphan = monitor.orphan
  BY <1>2 DEF MonitorRecord
<1>4. held \in SUBSET SwapChains
  BY <1>2 DEF MonitorRecord, Active
<1> HIDE DEF more, held
<1>5. Touched(monitor')
  BY <1>1, <1>3 DEF Touched, MonitorRecord
<1>6. IsCallback(callback')
  BY <1>1, <1>4, CallbackFields
<1>7. IsCallback(callback)'
  BY <1>6 DEF IsCallback
<1> QED
  BY <1>1, <1>2, <1>5, <1>7, CallbackKeeps DEF IndInv, Types

\* The callbacks that end.
LEMMA CallbackLeavesKeeps ==
  ASSUME IndInv, AssignLeaves \/ UnassignLeaves
  PROVE  IndInv'
<1>1. /\ callback' = NoCallback
      /\ \/ monitor' = monitor
         \/ /\ monitor # NoMonitor /\ monitor.assigns > 0
            /\ monitor' = [monitor EXCEPT !.assigns = monitor.assigns - 1]
         \/ /\ monitor # NoMonitor /\ monitor.unassigns > 0
            /\ monitor' = [monitor EXCEPT !.unassigns = monitor.unassigns - 1]
      /\ UNCHANGED <<counts, calls, os, deferred, leaked>>
  BY DEF AssignLeaves, UnassignLeaves, Is
<1>2. monitor' = monitor \/ (monitor \in MonitorRecord /\ Touched(monitor'))
  <2>1. CASE monitor' = monitor
    BY <2>1
  <2>2. CASE /\ monitor # NoMonitor /\ monitor.assigns > 0
             /\ monitor' = [monitor EXCEPT !.assigns = monitor.assigns - 1]
    <3>1. monitor \in MonitorRecord /\ monitor.assigns \in Nat
      BY <2>2 DEF IndInv, Types, MonitorRecord
    <3>2. monitor.assigns - 1 \in Nat
      BY <2>2, <3>1
    <3> QED
      BY <2>2, <3>1, <3>2 DEF Touched, MonitorRecord
  <2>3. CASE /\ monitor # NoMonitor /\ monitor.unassigns > 0
             /\ monitor' = [monitor EXCEPT !.unassigns = monitor.unassigns - 1]
    <3>1. monitor \in MonitorRecord /\ monitor.unassigns \in Nat
      BY <2>3 DEF IndInv, Types, MonitorRecord
    <3>2. monitor.unassigns - 1 \in Nat
      BY <2>3, <3>1
    <3> QED
      BY <2>3, <3>1, <3>2 DEF Touched, MonitorRecord
  <2> QED
    BY <1>1, <2>1, <2>2, <2>3
<1>3. IsCallback(callback)'
  BY <1>1, NoCallbackFields DEF IsCallback
<1> QED
  BY <1>1, <1>2, <1>3, CallbackKeeps DEF IndInv, Types

LEMMA AssignStartFailsKeeps ==
  ASSUME IndInv, AssignStartFails
  PROVE  IndInv'
<1>1. /\ callback' = [callback EXCEPT !.at = "leave"]
      /\ UNCHANGED <<monitor, counts, calls, os, deferred, leaked>>
  BY DEF AssignStartFails, CallbackGoes
<1>2. IsCallback(callback')
  <2>1. {} \in SUBSET SwapChains
    OBVIOUS
  <2> QED
    BY <1>1, <2>1, CallbackMoves DEF IndInv, Types
<1>3. IsCallback(callback)'
  BY <1>2 DEF IsCallback
<1> QED
  BY <1>1, <1>3, CallbackKeeps DEF IndInv, Types

LEMMA AssignDecidesKeeps ==
  ASSUME IndInv, AssignDecides
  PROVE  IndInv'
<1> DEFINE stays == Is(callback.generation) /\ ~monitor.departing
           at == IF ~stays THEN "stopNew" ELSE IF Active = {} THEN "leave" ELSE "retire"
           held == IF stays THEN Active ELSE {callback.chain}
<1>1. /\ callback.at = "assign"
      /\ \/ ~stays /\ monitor' = monitor
         \/ /\ stays
            /\ \E r \in SUBSET monitor.retired :
                   monitor' = [monitor EXCEPT !.active = callback.chain, !.retired = monitor.retired \ r]
      /\ UNCHANGED <<counts, calls, os, deferred, leaked>>
  BY DEF AssignDecides
<1>2. callback' = [callback EXCEPT !.at = at, !.holds = held]
  BY Zenon DEF AssignDecides
<1>3. callback.chain \in SwapChains /\ IsCallback(callback)
  BY <1>1 DEF IndInv, Types, IsCallback
<1>4. stays => monitor \in MonitorRecord
  BY DEF Is, IndInv, Types
<1>5. monitor' = monitor \/ (monitor \in MonitorRecord /\ Touched(monitor'))
  BY <1>1, <1>3, <1>4 DEF Touched, MonitorRecord
<1>6. held \in SUBSET SwapChains /\ at # "assign" /\ (at = "retire" => held # {})
  BY <1>3, <1>4 DEF Active, MonitorRecord
<1> HIDE DEF at, held
<1>7. IsCallback(callback')
  BY <1>2, <1>3, <1>6, CallbackMoves
<1>8. IsCallback(callback)'
  BY <1>7 DEF IsCallback
<1> QED
  BY <1>1, <1>5, <1>8, CallbackKeeps DEF IndInv, Types

LEMMA AssignStopsNewKeeps ==
  ASSUME IndInv, NEW timedOut \in BOOLEAN, AssignStopsNew(timedOut)
  PROVE  IndInv'
<1>1. /\ callback' = [callback EXCEPT !.at = "leave", !.holds = {}]
      /\ deferred' = deferred \cup {p \in callback.holds : ~Ended(p)}
      /\ UNCHANGED <<monitor, counts, calls, os, leaked>>
  BY DEF AssignStopsNew
<1>2. IsCallback(callback) /\ callback.holds \subseteq SwapChains
  BY DEF IndInv, Types, IsCallback
<1>3. IsCallback(callback')
  <2>1. {} \in SUBSET SwapChains
    OBVIOUS
  <2> QED
    BY <1>1, <1>2, <2>1, CallbackMoves
<1>4. IsCallback(callback)'
  BY <1>3 DEF IsCallback
<1>5. deferred' \subseteq SwapChains
  BY <1>1, <1>2 DEF IndInv, Types
<1> QED
  BY <1>1, <1>4, <1>5, CallbackKeeps DEF IndInv, Types

LEMMA AssignRetiresKeeps ==
  ASSUME IndInv, AssignRetires
  PROVE  IndInv'
<1> DEFINE q == CHOOSE q \in callback.holds : TRUE
<1>1. /\ callback.at = "retire"
      /\ monitor' = monitor
         \/ (monitor # NoMonitor /\ monitor' = [monitor EXCEPT !.retired = monitor.retired \cup {q}])
      /\ deferred' \in {deferred, deferred \cup {q}}
      /\ callback' = [callback EXCEPT !.at = "leave", !.holds = {}]
      /\ UNCHANGED <<counts, calls, os, leaked>>
  BY DEF AssignRetires, Is
<1>2. IsCallback(callback) /\ callback.holds \subseteq SwapChains /\ callback.holds # {}
  BY <1>1 DEF IndInv, Types, IsCallback
<1>3. q \in SwapChains
  BY <1>2
<1> HIDE DEF q
<1>4. monitor' = monitor \/ (monitor \in MonitorRecord /\ Touched(monitor'))
  BY <1>1, <1>3 DEF Touched, MonitorRecord, IndInv, Types
<1>5. IsCallback(callback')
  <2>1. {} \in SUBSET SwapChains
    OBVIOUS
  <2> QED
    BY <1>1, <1>2, <2>1, CallbackMoves
<1>6. IsCallback(callback)'
  BY <1>5 DEF IsCallback
<1>7. deferred' \subseteq SwapChains
  BY <1>1, <1>3 DEF IndInv, Types
<1> QED
  BY <1>1, <1>4, <1>6, <1>7, CallbackKeeps DEF IndInv, Types

LEMMA UnassignStopsKeeps ==
  ASSUME IndInv, NEW timedOut \in BOOLEAN, UnassignStops(timedOut), monitor # NoMonitor
  PROVE  IndInv'
<1>1. /\ monitor' = [monitor EXCEPT !.retired = monitor.retired \cup {p \in callback.holds : ~Ended(p)}]
      /\ callback' = [callback EXCEPT !.at = "leaveUnassign", !.holds = {}]
      /\ UNCHANGED <<counts, calls, os, deferred, leaked>>
  BY DEF UnassignStops
<1>2. IsCallback(callback) /\ callback.holds \subseteq SwapChains
  BY DEF IndInv, Types, IsCallback
<1>3. monitor \in MonitorRecord /\ Touched(monitor')
  BY <1>1, <1>2 DEF Touched, MonitorRecord, IndInv, Types
<1>4. IsCallback(callback')
  <2>1. {} \in SUBSET SwapChains
    OBVIOUS
  <2> QED
    BY <1>1, <1>2, <2>1, CallbackMoves
<1>5. IsCallback(callback)'
  BY <1>4 DEF IsCallback
<1> QED
  BY <1>1, <1>3, <1>5, CallbackKeeps DEF IndInv, Types

LEMMA ProcessorStepsKeep ==
  ASSUME IndInv,
         \/ \E p \in SwapChains, timedOut \in BOOLEAN : DeferredStop(p, timedOut)
         \/ \E p \in SwapChains : WorkerSteps(Worker(p)) \/ WorkerSteps(WorkerFaults(p))
  PROVE  IndInv'
<1>1. /\ UNCHANGED <<monitor, counts, calls, os, callback>>
      /\ deferred' \subseteq deferred
      /\ \E p \in SwapChains : leaked' \in {leaked, leaked \cup {p}}
  BY DEF DeferredStop, WorkerSteps
<1>2. deferred' \subseteq SwapChains /\ leaked' \subseteq SwapChains /\ IsCallback(callback)'
  BY <1>1 DEF IndInv, Types, IsCallback
<1> QED
  BY <1>1, <1>2, CallbackKeeps

-----------------------------------------------------------------------------
(* The callbacks and the processors.  A callback keeps the record it is    *)
(* about; with none in progress, a departure may empty the record, and     *)
(* only then has the monitor depart.                                       *)

AssignSites == {"assign", "stopNew", "retire", "leave"}
UnassignSites == {"unassign", "leaveUnassign"}

\* A worker whose monitor may have arrived.
Begun(x) == ~BeforeInsert(x) /\ x.at # "arrive"
NothingHeld == monitor.active = NoChain /\ monitor.retired = {}

CallbackServed ==
    callback.at # "none" => Is(callback.generation) /\ Begun(threads[callback.generation])

CallbackCounted ==
    monitor # NoMonitor =>
        /\ monitor.assigns = IF callback.at \in AssignSites THEN 1 ELSE 0
        /\ monitor.unassigns = IF callback.at \in UnassignSites THEN 1 ELSE 0

CallbackHolds ==
    /\ callback.at \in {"none"} \cup AssignSites \cup UnassignSites
    /\ callback.at \in {"none", "assign", "leave", "leaveUnassign"} => callback.holds = {}
    /\ callback.at \in AssignSites => callback.chain \in SwapChains
    /\ callback.at = "stopNew" => callback.holds = {callback.chain}
    /\ callback.at = "retire" => \E q \in SwapChains : callback.holds = {q}

Emptied(t) ==
    /\ threads[t].at = "stopping" => callback.at = "none" /\ NothingHeld
    /\ threads[t].at # "stopping" => threads[t].holds = {}
    /\ threads[t].active \in threads[t].holds \cup {NoChain}

Callbacks ==
    /\ CallbackServed /\ CallbackCounted /\ CallbackHolds
    /\ \A t \in Threads : Emptied(t)
    /\ \A t \in Threads, g \in Generations : Calling(t, g) => callback.at = "none" /\ NothingHeld
    /\ up \subseteq Generations /\ \A g \in up : Begun(threads[g])
    /\ \A g \in Generations : Is(g) /\ ~Begun(threads[g]) => NothingHeld

\* The owners of a processor.
Retired == IF monitor = NoMonitor THEN {} ELSE monitor.retired
Taken == callback.holds \cup (IF callback.at = "assign" THEN {callback.chain} ELSE {})
Held(p) == \E t \in Threads : p \in threads[t].holds
Exists(p) == processors[p].worker # "none" /\ ~processors[p].destroyed

OneOwner(p) ==
    /\ Exists(p) <=> Held(p) \/ p \in Active \/ p \in Retired \/ p \in Taken \/ p \in deferred \/ p \in leaked
    /\ Held(p) => p \notin Active /\ p \notin Retired /\ p \notin Taken /\ p \notin deferred /\ p \notin leaked
    /\ p \in Active => p \notin Retired /\ p \notin Taken /\ p \notin deferred /\ p \notin leaked
    /\ p \in Retired => p \notin Taken /\ p \notin deferred /\ p \notin leaked
    /\ p \in Taken => p \notin deferred /\ p \notin leaked
    /\ p \in deferred => p \notin leaked

ProcessorRecord ==
    [worker : {"none", "starting", "running", "closing", "ended"}, stop : BOOLEAN,
     completed : BOOLEAN, owns : BOOLEAN, handle : BOOLEAN, pinned : BOOLEAN,
     closed : {0, 1}, destroyed : BOOLEAN]

\* A processor: who may still close its swapchain.
IsProcessor(r) ==
    /\ r \in ProcessorRecord
    /\ r.handle => r.closed = 0
    /\ r.owns => r.completed
    /\ r.closed = 1 => r.completed /\ r.worker \notin {"starting", "running", "closing"}
    /\ r.worker = "none" => r.closed = 0

Undecided(p) ==
    callback.chain = p =>
        /\ callback.at = "assign" => ~processors[p].completed
        /\ callback.at = "stopNew" => ~processors[p].owns /\ processors[p].closed = 0

Processors ==
    /\ processors = [p \in SwapChains |-> processors[p]]
    /\ \A p \in SwapChains : IsProcessor(processors[p]) /\ Undecided(p)

Ownership == \A p \in SwapChains : OneOwner(p)

Inv == IndInv /\ Callbacks /\ Ownership /\ Processors

Rest == Callbacks /\ Ownership /\ Processors

\* The record keeps its processors and its counts of callbacks.
SameChains ==
    /\ monitor = NoMonitor <=> monitor' = NoMonitor
    /\ monitor # NoMonitor =>
           /\ monitor'.generation = monitor.generation
           /\ monitor'.assigns = monitor.assigns /\ monitor'.unassigns = monitor.unassigns
           /\ monitor'.active = monitor.active /\ monitor'.retired = monitor.retired

LEMMA SameChainsFacts ==
  ASSUME SameChains
  PROVE  /\ \A g : Is(g)' <=> Is(g)
         /\ \A g : Is(g) => (NothingHeld' <=> NothingHeld)
         /\ Active' = Active /\ Retired' = Retired
BY DEF SameChains, Is, NothingHeld, Active, Retired

\* The record keeps its counts of callbacks, and nothing is put into it.
SameCallbacks ==
    /\ monitor = NoMonitor <=> monitor' = NoMonitor
    /\ monitor # NoMonitor =>
           /\ monitor'.generation = monitor.generation
           /\ monitor'.assigns = monitor.assigns /\ monitor'.unassigns = monitor.unassigns
           /\ NothingHeld => NothingHeld'

\* The parts of the invariant about the callback, when nothing it relies on moves.
LEMMA ServedKept ==
  ASSUME CallbackServed, CallbackCounted, CallbackHolds, SameCallbacks, UNCHANGED callback,
         \A g \in Generations : Begun(threads[g]) => Begun(threads'[g]), IndInv
  PROVE  CallbackServed' /\ CallbackCounted' /\ CallbackHolds'
<1>1. CallbackServed'
  <2>1. SUFFICES ASSUME callback.at # "none"
        PROVE  (Is(callback.generation) /\ Begun(threads[callback.generation]))'
    BY DEF CallbackServed
  <2>2. Is(callback.generation) /\ Begun(threads[callback.generation])
    BY <2>1 DEF CallbackServed
  <2>3. callback.generation \in Generations
    BY <2>2 DEF Is, IndInv, Types, MonitorRecord
  <2>4. Begun(threads'[callback.generation])
    BY <2>2, <2>3
  <2>5. Is(callback.generation)'
    BY <2>2 DEF Is, SameCallbacks
  <2> QED
    BY <2>4, <2>5
<1>2. CallbackCounted'
  BY DEF CallbackCounted, SameCallbacks
<1>3. CallbackHolds'
  BY DEF CallbackHolds
<1> QED
  BY <1>1, <1>2, <1>3

\* A thread that holds no processor goes elsewhere.
Shifts(t) ==
    /\ Moved(t) /\ threads[t].at # "stopping" /\ threads'[t].at # "stopping"
    /\ threads'[t].holds = {} /\ threads'[t].active = NoChain
    /\ t \in Generations /\ Begun(threads[t]) => Begun(threads'[t])

\* The threads go on with the processors they hold.
Drifts ==
    \A o \in Threads :
        /\ threads'[o].at = "stopping" => threads'[o] = threads[o]
        /\ threads'[o].at # "stopping" => threads'[o].holds = {}
        /\ threads'[o].holds = threads[o].holds
        /\ threads'[o].active \in threads'[o].holds \cup {NoChain}
        /\ o \in Generations /\ Begun(threads[o]) => Begun(threads'[o])

LEMMA ThreadsDrift ==
  ASSUME Rest, UNCHANGED threads
  PROVE  Drifts
BY DEF Rest, Callbacks, Emptied, Begun, BeforeInsert, Drifts

LEMMA ShiftsDrift ==
  ASSUME Rest, NEW t \in Threads, Shifts(t)
  PROVE  Drifts
<1>1. \A o \in Threads : o = t \/ threads'[o] = threads[o]
  BY DEF Shifts, Moved
<1>2. \A o \in Threads : Emptied(o)
  BY DEF Rest, Callbacks
<1>3. ASSUME NEW o \in Threads
      PROVE  /\ threads'[o].at = "stopping" => threads'[o] = threads[o]
             /\ threads'[o].at # "stopping" => threads'[o].holds = {}
             /\ threads'[o].holds = threads[o].holds
             /\ threads'[o].active \in threads'[o].holds \cup {NoChain}
             /\ o \in Generations /\ Begun(threads[o]) => Begun(threads'[o])
  <2>1. CASE o = t
    BY <1>2, <2>1 DEF Shifts, Emptied
  <2>2. CASE o # t
    BY <1>1, <1>2, <2>2 DEF Emptied, Begun, BeforeInsert
  <2> QED
    BY <2>1, <2>2
<1> QED
  BY <1>3 DEF Drifts

LEMMA OwnersKept ==
  ASSUME Ownership, Active' = Active, Retired' = Retired,
         \A o \in Threads : threads'[o].holds = threads[o].holds,
         UNCHANGED <<processors, callback, deferred, leaked>>
  PROVE  Ownership'
<1>1. \A p : Held(p)' <=> Held(p)
  BY DEF Held
<1>2. Taken' = Taken
  BY DEF Taken
<1>3. \A p : Exists(p)' <=> Exists(p)
  BY DEF Exists
<1>4. ASSUME NEW p \in SwapChains PROVE OneOwner(p)'
  <2>1. OneOwner(p)
    BY DEF Ownership
  <2> QED
    BY <1>1, <1>2, <1>3, <2>1 DEF OneOwner
<1> QED
  BY <1>4 DEF Ownership

LEMMA DriftCallbacks ==
  ASSUME IndInv, Callbacks, Drifts, SameCallbacks,
         \A o \in Threads, g \in Generations : Calling(o, g)' => Calling(o, g),
         \A g \in up' \ up : g \in Generations /\ Begun(threads'[g]), UNCHANGED callback
  PROVE  Callbacks'
<1>1. \A g \in Generations : Begun(threads[g]) => Begun(threads'[g])
  BY DEF Drifts, Threads
<1>2. /\ \A g : Is(g)' <=> Is(g)
      /\ \A g : Is(g) /\ NothingHeld => NothingHeld'
  BY DEF SameCallbacks, Is
<1>4. CallbackServed' /\ CallbackCounted' /\ CallbackHolds'
  BY <1>1, ServedKept DEF Callbacks
<1>5. ASSUME NEW o \in Threads PROVE Emptied(o)'
  <2>1. Emptied(o)
    BY DEF Callbacks
  <2>2. CASE threads'[o].at = "stopping"
    <3>1. Leaves(o) /\ threads'[o] = threads[o]
      BY <2>2 DEF Leaves, Drifts
    <3>2. Is(threads[o].generation)
      BY <3>1 DEF IndInv, Marks, HasMarked
    <3> QED
      BY <1>2, <2>1, <3>1, <3>2 DEF Emptied
  <2>3. CASE threads'[o].at # "stopping"
    BY <2>3 DEF Emptied, Drifts
  <2> QED
    BY <2>2, <2>3
<1>6. \A o \in Threads, g \in Generations : Calling(o, g)' => callback'.at = "none" /\ NothingHeld'
  BY <1>2 DEF IndInv, Marks, Callbacks
<1>7. up' \subseteq Generations /\ \A g \in up' : Begun(threads'[g])
  BY <1>1 DEF Callbacks
<1>8. \A g \in Generations : Is(g)' /\ ~Begun(threads'[g]) => NothingHeld'
  BY <1>1, <1>2 DEF Callbacks
<1>9. \A g \in up' : Begun(threads[g])'
  BY <1>7 DEF Begun, BeforeInsert
<1>10. \A g \in Generations : (Is(g) /\ ~Begun(threads[g]) => NothingHeld)'
  BY <1>8 DEF Begun, BeforeInsert
<1> QED
  BY <1>4, <1>5, <1>6, <1>7, <1>9, <1>10 DEF Callbacks

LEMMA DriftKeeps ==
  ASSUME IndInv, Rest, Drifts, SameChains,
         \A o \in Threads, g \in Generations : Calling(o, g)' => Calling(o, g),
         \A g \in up' \ up : g \in Generations /\ Begun(threads'[g]), UNCHANGED chains
  PROVE  Rest'
<1>1. SameCallbacks /\ Active' = Active /\ Retired' = Retired
  BY SameChainsFacts DEF SameChains, SameCallbacks, NothingHeld
<1>2. UNCHANGED <<processors, callback, deferred, leaked>>
  BY DEF chains
<1>3. Callbacks'
  BY <1>1, <1>2, DriftCallbacks DEF Rest
<1>4. Ownership'
  BY <1>1, <1>2, OwnersKept DEF Rest, Drifts
<1>5. Processors'
  BY <1>2 DEF Rest, Processors, IsProcessor, Undecided
<1> QED
  BY <1>3, <1>4, <1>5 DEF Rest

LEMMA ShiftKeeps ==
  ASSUME IndInv, Rest, NEW t \in Threads, Shifts(t), SameChains,
         \A o \in Threads, g \in Generations : Calling(o, g)' => Calling(o, g),
         \A g \in up' \ up : g \in Generations /\ Begun(threads'[g]), UNCHANGED chains
  PROVE  Rest'
BY ShiftsDrift, DriftKeeps

LEMMA HoldsNothing ==
  ASSUME Rest, NEW t \in Threads, threads[t].at # "stopping"
  PROVE  threads[t].holds = {} /\ threads[t].active = NoChain
BY DEF Rest, Callbacks, Emptied

LEMMA AnswerShifts ==
  ASSUME IndInv, NEW t \in Threads, threads[t].at \in DepartSites \ {"stopping"},
         NEW answer, AnswersDeparture(t, answer)
  PROVE  Shifts(t)
<1>1. /\ Moved(t) /\ threads'[t].at = Onward(threads[t], answer)
      /\ threads'[t].active = NoChain /\ threads'[t].holds = {}
  BY GoingOn DEF IndInv, Types
<1>2. threads[t].then \in IF t \in Generations THEN {"create", "finish"} ELSE {"idle", "departed"}
  BY DEF IndInv, Reports, ThenFits
<1>3. threads'[t].at \in {"create", "finish", "idle", "departed", "failed"}
  BY <1>1, <1>2 DEF Onward
<1>4. t \in Generations /\ Begun(threads[t]) => Begun(threads'[t])
  <2>1. SUFFICES ASSUME t \in Generations, Begun(threads[t]) PROVE Begun(threads'[t])
    OBVIOUS
  <2>2. threads[t].then = "finish"
    BY <1>2, <2>1 DEF Begun, BeforeInsert
  <2>3. threads'[t].at = "finish"
    BY <1>1, <2>2 DEF Onward
  <2> QED
    BY <2>3 DEF Begun, BeforeInsert, DepartSites
<1> QED
  BY <1>1, <1>3, <1>4 DEF Shifts

LEMMA GoesShifts ==
  ASSUME IndInv, Rest, NEW t \in Threads, threads[t].at # "stopping", NEW at, Goes(t, at),
         at # "stopping", at \notin DepartSites,
         t \in Generations /\ Begun(threads[t]) => at \in {"succeeded", "tag", "finish", "notify", "ended"}
  PROVE  Shifts(t)
<1>1. /\ Moved(t) /\ threads'[t].at = at
      /\ threads'[t].active = threads[t].active /\ threads'[t].holds = threads[t].holds
  BY Going DEF IndInv, Types
<1>2. at \in {"succeeded", "tag", "finish", "notify", "ended"} => Begun(threads'[t])
  BY <1>1 DEF Begun, BeforeInsert, DepartSites
<1> QED
  BY <1>1, <1>2, HoldsNothing DEF Shifts

LEMMA DepartsShifts ==
  ASSUME IndInv, Rest, NEW t \in Threads, threads[t].at # "stopping",
         NEW g \in 0..MaxGeneration, NEW then, Departs(t, g, then),
         t \in Generations /\ Begun(threads[t]) => then = "finish"
  PROVE  Shifts(t)
<1>1. /\ Moved(t) /\ threads'[t].at = "depart" /\ threads'[t].then = then
      /\ threads'[t].active = threads[t].active /\ threads'[t].holds = threads[t].holds
  BY GoingToDepart DEF IndInv, Types
<1>2. then = "finish" => Begun(threads'[t])
  BY <1>1 DEF Begun, BeforeInsert
<1> QED
  BY <1>1, <1>2, HoldsNothing DEF Shifts

LEMMA IdleShifts ==
  ASSUME IndInv, Controller \notin Generations, threads[Controller].at # "stopping",
         threads' = [threads EXCEPT ![Controller] = Idle]
  PROVE  Shifts(Controller)
<1>1. Controller \in Threads
  BY DEF Threads
<1>2. Moved(Controller) /\ threads'[Controller] = Idle
  BY <1>1, IdleThread, ThreadBecomes DEF IndInv, Types
<1> QED
  BY <1>2, IdleThread DEF Shifts

\* The steps of a departure that take nothing from the record.
LEMMA DepartShiftsKeep ==
  ASSUME IndInv, Rest, NEW t \in Threads,
         \/ DepartAnswersAtOnce(t) \/ DepartMarks(t) \/ DepartEnds(t)
         \/ DepartDetaches(t) \/ DepartGivesUpOnCallbacks(t)
  PROVE  Rest'
<1>1. CASE DepartMarks(t)
  <2> DEFINE y == MarkedFor(threads[t], "awaitCallbacks", monitor.generation)
  <2>1. /\ threads[t].at = "depart" /\ monitor # NoMonitor
        /\ monitor' = [monitor EXCEPT !.departing = TRUE]
        /\ threads' = [threads EXCEPT ![t] = y]
        /\ UNCHANGED <<departing, os, chains>>
    BY <1>1, Zenon DEF DepartMarks, MarkedFor, MayDepart
  <2>2. monitor \in MonitorRecord /\ monitor.generation \in 0..MaxGeneration
    BY <2>1, MonitorGeneration DEF IndInv
  <2>3. IsThread(threads[t])
    BY DEF IndInv, Types, ThreadsTyped
  <2>4. /\ IsThread(y) /\ y.at = "awaitCallbacks" /\ y.then = threads[t].then
        /\ y.active = threads[t].active /\ y.holds = threads[t].holds
    BY <2>2, <2>3, MarkedForRecord
  <2> HIDE DEF y
  <2>5. Moved(t) /\ threads'[t] = y
    BY <2>1, <2>4, ThreadBecomes DEF IndInv, Types
  <2>6. Begun(threads[t]) => Begun(threads'[t])
    BY <2>1, <2>4, <2>5 DEF Begun, BeforeInsert, DepartSites
  <2>7. Shifts(t)
    BY <2>1, <2>4, <2>5, <2>6, HoldsNothing DEF Shifts
  <2>8. SameChains
    <3>1. monitor' \in MonitorRecord /\ monitor' # NoMonitor
      BY <2>1, <2>2, NoMonitorAssumption DEF MonitorRecord
    <3> QED
      BY <2>1, <2>2, <3>1 DEF SameChains, MonitorRecord
  <2> QED
    BY <2>1, <2>7, <2>8, ShiftKeeps DEF Calling, os
<1>2. CASE DepartAnswersAtOnce(t) \/ DepartEnds(t) \/ DepartDetaches(t) \/ DepartGivesUpOnCallbacks(t)
  <2>1. /\ threads[t].at \in DepartSites \ {"stopping"}
        /\ \E answer : AnswersDeparture(t, answer)
        /\ UNCHANGED <<os, chains>>
    BY <1>2 DEF DepartAnswersAtOnce, DepartEnds, DepartDetaches, DepartGivesUpOnCallbacks, DepartSites
  <2>2. Shifts(t)
    BY <2>1, AnswerShifts
  <2>3. \A o \in Threads, g \in Generations : Calling(o, g)' => Calling(o, g)
    <3>1. CASE DepartAnswersAtOnce(t) \/ DepartGivesUpOnCallbacks(t)
      BY <3>1 DEF DepartAnswersAtOnce, DepartGivesUpOnCallbacks, Calling
    <3>2. CASE DepartEnds(t) \/ DepartDetaches(t)
      <4>1. PICK a : departing' = [departing EXCEPT ![<<t, threads[t].generation>>] = a]
                     /\ (a = "calling" => departing[<<t, threads[t].generation>>] = "calling")
        BY <3>2 DEF DepartEnds, DepartDetaches
      <4> QED
        BY <4>1 DEF Calling, IndInv, Types
    <3> QED
      BY <1>2, <3>1, <3>2
  <2>4. SameChains
    <3>1. CASE monitor' = monitor
      BY <3>1 DEF SameChains
    <3>2. CASE DepartGivesUpOnCallbacks(t)
      <4>1. monitor' = [monitor EXCEPT !.departing = FALSE] /\ Leaves(t)
        BY <3>2 DEF DepartGivesUpOnCallbacks, Leaves
      <4>2. monitor \in MonitorRecord
        BY <4>1, OnlyLeaver DEF IndInv
      <4>3. monitor # NoMonitor /\ monitor' # NoMonitor
        BY <4>1, <4>2, Unmarking, NoMonitorAssumption
      <4> QED
        BY <4>1, <4>2, <4>3 DEF SameChains, MonitorRecord
    <3> QED
      BY <1>2, <3>1, <3>2 DEF DepartAnswersAtOnce, DepartEnds, DepartDetaches
  <2> QED
    BY <2>1, <2>2, <2>3, <2>4, ShiftKeeps DEF os
<1> QED
  BY <1>1, <1>2

\* The record appears or goes with nothing in it, and no callback about it.
LEMMA BareKeeps ==
  ASSUME IndInv, IndInv', Rest, Drifts,
         callback.at = "none", monitor # NoMonitor => NothingHeld,
         monitor' # NoMonitor => NothingHeld' /\ monitor'.assigns = 0 /\ monitor'.unassigns = 0,
         \A g \in up' \ up : g \in Generations /\ Begun(threads'[g]), UNCHANGED chains
  PROVE  Rest'
<1>1. \A g \in Generations : Begun(threads[g]) => Begun(threads'[g])
  BY DEF Drifts, Threads
<1>2. Active = {} /\ Retired = {} /\ Active' = {} /\ Retired' = {}
  BY DEF Active, Retired, NothingHeld
<1>3. UNCHANGED <<processors, callback, deferred, leaked>>
  BY DEF chains
<1>4. CallbackServed' /\ CallbackCounted' /\ CallbackHolds'
  BY <1>3 DEF CallbackServed, CallbackCounted, CallbackHolds, AssignSites, UnassignSites, Rest, Callbacks
<1>5. ASSUME NEW o \in Threads PROVE Emptied(o)'
  <2>1. threads'[o].at = "stopping" => monitor' # NoMonitor
    BY DEF IndInv, Marks, HasMarked, Leaves, Is
  <2> QED
    BY <1>3, <2>1 DEF Emptied, Drifts
<1>6. \A o \in Threads, g \in Generations : Calling(o, g)' => callback'.at = "none" /\ NothingHeld'
  BY <1>3 DEF IndInv, Marks, Is
<1>7. \A g \in up' : Begun(threads'[g]) /\ g \in Generations
  BY <1>1 DEF Rest, Callbacks
<1>8. \A g \in Generations : Is(g)' => NothingHeld'
  BY DEF Is
<1>9. Callbacks'
  <2>1. \A g \in up' : Begun(threads[g])'
    BY <1>7 DEF Begun, BeforeInsert
  <2>2. \A g \in Generations : (Is(g) /\ ~Begun(threads[g]) => NothingHeld)'
    BY <1>8
  <2> QED
    BY <1>4, <1>5, <1>6, <1>7, <2>1, <2>2 DEF Callbacks
<1>10. Ownership'
  BY <1>2, <1>3, OwnersKept DEF Rest, Drifts
<1>11. Processors'
  BY <1>3 DEF Rest, Processors, IsProcessor, Undecided
<1> QED
  BY <1>9, <1>10, <1>11 DEF Rest

LEMMA SameMonitorSameChains ==
  ASSUME UNCHANGED monitor
  PROVE  SameChains
BY DEF SameChains

\* The worker of an arrival, without its record.
LEMMA ArrivalShiftsKeep ==
  ASSUME IndInv, Rest, NEW g \in Generations,
         \/ ArrivalHeals(g) \/ ArrivalCreates(g) \/ ArrivalCreateFails(g)
         \/ ArrivalReports(g) \/ ArrivalFinishes(g) \/ ArrivalNotifies(g)
  PROVE  Rest'
<1>1. /\ UNCHANGED <<monitor, departing, up, chains>> /\ g \in Threads
      /\ threads[g].at \in {"heal", "create", "insert", "succeeded", "failed", "finish", "notify"}
  BY DEF ArrivalHeals, ArrivalCreates, ArrivalCreateFails, ArrivalReports, ArrivalFinishes,
         ArrivalNotifies, Threads, os
<1>2. threads[g].at \in {"heal", "create", "insert"} => ~Begun(threads[g])
  BY DEF Begun, BeforeInsert
<1>3. Shifts(g)
  <2>1. CASE ArrivalHeals(g)
    <3>1. CASE Goes(g, "create")
      BY <1>1, <1>2, <2>1, <3>1, GoesShifts DEF DepartSites, ArrivalHeals
    <3>2. CASE monitor # NoMonitor /\ Departs(g, monitor.generation, "create")
      <4>1. monitor.generation \in 0..MaxGeneration
        BY <3>2, MonitorGeneration DEF IndInv
      <4> QED
        BY <1>1, <1>2, <2>1, <3>2, <4>1, DepartsShifts DEF ArrivalHeals
    <3> QED
      BY <2>1, <3>1, <3>2 DEF ArrivalHeals
  <2>2. CASE ArrivalCreates(g) \/ ArrivalCreateFails(g)
    <3>1. PICK at \in {"insert", "failed"} : Goes(g, at)
      BY <2>2 DEF ArrivalCreates, ArrivalCreateFails
    <3>2. threads[g].at \in {"create", "insert"}
      BY <2>2 DEF ArrivalCreates, ArrivalCreateFails
    <3> QED
      BY <1>1, <1>2, <3>1, <3>2, GoesShifts DEF DepartSites
  <2>3. CASE ArrivalReports(g) \/ ArrivalFinishes(g) \/ ArrivalNotifies(g)
    <3>1. PICK at \in {"tag", "finish", "notify", "ended"} : Goes(g, at)
      BY <2>3 DEF ArrivalReports, ArrivalFinishes, ArrivalNotifies
    <3> QED
      BY <1>1, <3>1, GoesShifts DEF DepartSites
  <2> QED
    BY <2>1, <2>2, <2>3
<1> QED
  BY <1>1, <1>3, SameMonitorSameChains, ShiftKeeps DEF Calling

\* ... and with its record.
LEMMA ArrivalTouchesKeep ==
  ASSUME IndInv, Rest, NEW g \in Generations, ArrivalTags(g) \/ ArrivalSettles(g)
  PROVE  Rest'
<1>1. UNCHANGED <<departing, up, chains>> /\ g \in Threads
  BY DEF ArrivalTags, ArrivalSettles, Threads, os
<1>2. Shifts(g)
  <2>1. CASE ArrivalTags(g)
    <3>1. g \in 0..MaxGeneration
      BY BoundsAssumption DEF Generations
    <3> QED
      BY <1>1, <2>1, <3>1, DepartsShifts DEF ArrivalTags
  <2>2. CASE ArrivalSettles(g)
    BY <1>1, <2>2, GoesShifts DEF ArrivalSettles, DepartSites
  <2> QED
    BY <2>1, <2>2
<1>3. SameChains
  <2>1. CASE monitor' = monitor
    BY <2>1 DEF SameChains
  <2>2. CASE Is(g) /\ monitor' = [monitor EXCEPT !.orphan = TRUE]
    <3>1. monitor \in MonitorRecord
      BY <2>2 DEF Is, IndInv, Types
    <3>2. monitor' \in MonitorRecord /\ monitor' # NoMonitor /\ monitor # NoMonitor
      BY <2>2, <3>1, NoMonitorAssumption DEF MonitorRecord
    <3> QED
      BY <2>2, <3>1, <3>2 DEF SameChains, MonitorRecord
  <2>3. CASE Is(g) /\ monitor' = [monitor EXCEPT !.arriving = FALSE]
    <3>1. monitor \in MonitorRecord
      BY <2>3 DEF Is, IndInv, Types
    <3>2. monitor' \in MonitorRecord /\ monitor' # NoMonitor /\ monitor # NoMonitor
      BY <2>3, <3>1, NoMonitorAssumption DEF MonitorRecord
    <3> QED
      BY <2>3, <3>1, <3>2 DEF SameChains, MonitorRecord
  <2> QED
    BY <2>1, <2>2, <2>3 DEF ArrivalTags, ArrivalSettles
<1> QED
  BY <1>1, <1>2, <1>3, ShiftKeeps DEF Calling

\* A monitor that has not arrived has no swapchain, and no callback about it.
LEMMA NotBegunNothingHeld ==
  ASSUME IndInv, Rest, NEW g \in Generations, Is(g), ~Begun(threads[g])
  PROVE  callback.at = "none" /\ NothingHeld
BY DEF Rest, Callbacks, CallbackServed, Is

LEMMA ArrivalInsertsRest ==
  ASSUME IndInv, IndInv', Rest, NEW g \in Generations, ArrivalInserts(g)
  PROVE  Rest'
<1>1. /\ UNCHANGED <<departing, up, chains>> /\ g \in Threads
      /\ threads[g].at = "insert" /\ ~Begun(threads[g])
  BY DEF ArrivalInserts, Threads, Begun, BeforeInsert
<1>2. PICK at \in {"arrive", "failed"} : Goes(g, at)
  BY DEF ArrivalInserts
<1>3. Shifts(g)
  BY <1>1, <1>2, GoesShifts DEF DepartSites
<1>4. CASE monitor # NoMonitor
  <2>1. SameChains
    BY <1>4, SameMonitorSameChains DEF ArrivalInserts
  <2> QED
    BY <1>1, <1>3, <2>1, ShiftKeeps DEF Calling
<1>5. CASE monitor = NoMonitor
  <2>1. monitor' = Arriving(g) /\ callback.at = "none"
    BY <1>5 DEF ArrivalInserts, Rest, Callbacks, CallbackServed, Is
  <2>2. NothingHeld' /\ monitor'.assigns = 0 /\ monitor'.unassigns = 0
    BY <2>1 DEF Arriving, NothingHeld
  <2> QED
    BY <1>1, <1>3, <1>5, <2>1, <2>2, ShiftsDrift, BareKeeps
<1> QED
  BY <1>4, <1>5

LEMMA ArrivalReturnsRest ==
  ASSUME IndInv, IndInv', Rest, NEW g \in Generations, NEW arrived \in BOOLEAN, ArrivalReturns(g, arrived)
  PROVE  Rest'
<1>1. /\ UNCHANGED <<departing, chains>> /\ g \in Threads
      /\ threads[g].at = "arrive" /\ ~Begun(threads[g])
  BY DEF ArrivalReturns, Threads, Begun, BeforeInsert
<1>2. CASE arrived
  <2>1. /\ UNCHANGED monitor /\ up' = up \cup {g} /\ Goes(g, "arrived")
    BY <1>2 DEF ArrivalReturns
  <2>2. Shifts(g)
    BY <1>1, <2>1, GoesShifts DEF DepartSites
  <2>3. Begun(threads'[g])
    <3>1. threads'[g].at = "arrived"
      BY <1>1, <2>1, Going DEF IndInv, Types
    <3> QED
      BY <3>1 DEF Begun, BeforeInsert, DepartSites
  <2> QED
    BY <1>1, <2>1, <2>2, <2>3, SameMonitorSameChains, ShiftKeeps DEF Calling
<1>3. CASE ~arrived
  <2>1. /\ UNCHANGED up /\ monitor' = NoMonitor /\ Goes(g, "failed")
    BY <1>3 DEF ArrivalReturns
  <2>2. Shifts(g)
    BY <1>1, <2>1, GoesShifts DEF DepartSites
  <2>3. Is(g)
    BY <1>1 DEF IndInv, Marks, ArrivalWorks
  <2>4. callback.at = "none" /\ NothingHeld
    BY <1>1, <2>3, NotBegunNothingHeld
  <2> QED
    BY <1>1, <2>1, <2>2, <2>4, ShiftsDrift, BareKeeps
<1> QED
  BY <1>2, <1>3

LEMMA DepartureReturnsRest ==
  ASSUME IndInv, IndInv', Rest, NEW t \in Threads, NEW g \in Generations,
         NEW departed \in BOOLEAN, DepartureReturns(t, g, departed)
  PROVE  Rest'
<1>1. /\ UNCHANGED <<threads, chains>> /\ Calling(t, g) /\ up' \subseteq up
      /\ monitor' = IF ~Is(g) THEN monitor
                    ELSE IF departed THEN NoMonitor ELSE [monitor EXCEPT !.departing = FALSE]
  BY DEF DepartureReturns, Calling
<1>2. callback.at = "none" /\ NothingHeld /\ Is(g)
  BY <1>1 DEF Rest, Callbacks, IndInv, Marks
<1>3. monitor \in MonitorRecord /\ monitor.assigns = 0 /\ monitor.unassigns = 0
  BY <1>2 DEF IndInv, Types, Is, Rest, Callbacks, CallbackCounted, AssignSites, UnassignSites
<1>4. monitor' # NoMonitor => NothingHeld' /\ monitor'.assigns = 0 /\ monitor'.unassigns = 0
  <2>1. SUFFICES ASSUME monitor' = [monitor EXCEPT !.departing = FALSE]
        PROVE  NothingHeld' /\ monitor'.assigns = 0 /\ monitor'.unassigns = 0
    BY <1>1, <1>2
  <2> QED
    BY <1>2, <1>3, <2>1 DEF MonitorRecord, NothingHeld
<1> QED
  BY <1>1, <1>2, <1>4, ThreadsDrift, BareKeeps

LEMMA NotInGenerations ==
  /\ {Controller, Reaper, Cleanup} \subseteq Threads
  /\ Controller \notin Generations /\ Reaper \notin Generations /\ Cleanup \notin Generations
BY ThreadsAssumption DEF Threads

\* A caller that is no worker of an arrival, and leaves the record alone.
LEMMA CallerShiftsKeep ==
  ASSUME IndInv, Rest, NEW t \in Threads \ Generations, threads[t].at # "stopping",
         \/ \E at : at \notin DepartSites /\ Goes(t, at)
         \/ \E g \in 0..MaxGeneration : \E then : Departs(t, g, then)
         \/ t = Controller /\ threads' = [threads EXCEPT ![Controller] = Idle],
         SameChains, UNCHANGED <<departing, up, chains>>
  PROVE  Rest'
<1>1. Shifts(t)
  <2>1. CASE \E at : at \notin DepartSites /\ Goes(t, at)
    <3>1. PICK at : at \notin DepartSites /\ Goes(t, at)
      BY <2>1
    <3>2. at # "stopping"
      BY <3>1 DEF DepartSites
    <3> QED
      BY <3>1, <3>2, GoesShifts
  <2>2. CASE \E g \in 0..MaxGeneration : \E then : Departs(t, g, then)
    <3>1. PICK g \in 0..MaxGeneration : \E then : Departs(t, g, then)
      BY <2>2
    <3>2. PICK then : Departs(t, g, then)
      BY <3>1
    <3> QED
      BY <3>2, DepartsShifts
  <2>3. CASE t = Controller /\ threads' = [threads EXCEPT ![Controller] = Idle]
    BY <2>3, IdleShifts
  <2> QED
    BY <2>1, <2>2, <2>3
<1> QED
  BY <1>1, ShiftKeeps DEF Calling

LEMMA ControllerRest ==
  ASSUME IndInv, Rest,
         \/ ArrivalAnswered \/ ArrivalTimesOut
         \/ RenderAdapterAsked \/ RenderAdapterAnswered \/ RenderAdapterTimesOut
  PROVE  Rest'
<1>1. /\ threads[Controller].at \in {"idle", "awaitArrival", "awaitRender"}
      /\ UNCHANGED <<monitor, departing, os, chains>>
      /\ \/ \E at \in {"awaitRender", "idle"} : Goes(Controller, at)
         \/ threads' = [threads EXCEPT ![Controller] = Idle]
  BY DEF ArrivalAnswered, ArrivalTimesOut, RenderAdapterAsked, RenderAdapterAnswered,
         RenderAdapterTimesOut, ControllerCalls
<1>2. \/ \E at : at \notin DepartSites /\ Goes(Controller, at)
      \/ threads' = [threads EXCEPT ![Controller] = Idle]
  BY <1>1 DEF DepartSites
<1> QED
  BY <1>1, <1>2, NotInGenerations, SameMonitorSameChains, CallerShiftsKeep DEF os

LEMMA DepartureAskedRest ==
  ASSUME IndInv, Rest, NEW g \in Generations \cup {0}, DepartureAsked(g)
  PROVE  Rest'
<1>1. /\ threads[Controller].at = "idle" /\ Departs(Controller, g, "idle")
      /\ UNCHANGED <<monitor, departing, os, chains>>
  BY DEF DepartureAsked, ControllerCalls
<1>2. g \in 0..MaxGeneration
  BY BoundsAssumption DEF Generations
<1> QED
  BY <1>1, <1>2, NotInGenerations, SameMonitorSameChains, CallerShiftsKeep DEF os

LEMMA ShutdownRest ==
  ASSUME IndInv, Rest, ShutdownBegins \/ ShutdownSettles \/ ShutdownGivesUp \/ ShutdownEnds
  PROVE  Rest'
<1>1. /\ threads[Cleanup].at \in {"idle", "settle", "departed"}
      /\ UNCHANGED <<departing, os, chains>>
      /\ \/ \E at \in {"settle", "departed", "leaked", "deleted"} : Goes(Cleanup, at)
         \/ Departs(Cleanup, 0, "departed")
      /\ \/ monitor' = monitor
         \/ monitor # NoMonitor /\ monitor' = [monitor EXCEPT !.connected = FALSE]
  BY DEF ShutdownBegins, ShutdownSettles, ShutdownGivesUp, ShutdownEnds
<1>2. \/ \E at : at \notin DepartSites /\ Goes(Cleanup, at)
      \/ \E g \in 0..MaxGeneration : \E then : Departs(Cleanup, g, then)
  BY <1>1, BoundsAssumption DEF DepartSites
<1>3. SameChains
  <2>1. CASE monitor' = monitor
    BY <2>1, SameMonitorSameChains
  <2>2. CASE monitor # NoMonitor /\ monitor' = [monitor EXCEPT !.connected = FALSE]
    <3>1. monitor \in MonitorRecord
      BY <2>2 DEF IndInv, Types
    <3>2. monitor' \in MonitorRecord /\ monitor' # NoMonitor
      BY <2>2, <3>1, NoMonitorAssumption DEF MonitorRecord
    <3> QED
      BY <2>2, <3>1, <3>2 DEF SameChains, MonitorRecord
  <2> QED
    BY <1>1, <2>1, <2>2
<1> QED
  BY <1>1, <1>2, <1>3, NotInGenerations, CallerShiftsKeep DEF os

LEMMA NoThreadRest ==
  ASSUME IndInv, Rest, RenderAdapterReturns \/ AdapterInitFinished
  PROVE  Rest'
<1>1. UNCHANGED <<monitor, threads, departing, os, chains>>
  BY DEF RenderAdapterReturns, AdapterInitFinished, calls
<1> QED
  BY <1>1, ThreadsDrift, SameMonitorSameChains, DriftKeeps DEF Calling, os

LEMMA ArrivalAskedRest ==
  ASSUME IndInv, Rest, ArrivalAsked
  PROVE  Rest'
<1>1. PICK g \in Generations :
          /\ g = Cardinality(Asked) + 1
          /\ threads[Controller].at = "idle"
          /\ threads' = [threads EXCEPT ![Controller].at = "awaitArrival",
                                        ![Controller].generation = g, ![g].at = "heal"]
          /\ UNCHANGED <<monitor, departing, os, chains>>
  BY DEF ArrivalAsked, ControllerCalls
<1>2. /\ threads'[Controller].at = "awaitArrival" /\ threads'[g].at = "heal"
      /\ \A o \in Threads \ {Controller, g} : threads'[o] = threads[o]
      /\ \A o \in Threads : threads'[o].holds = threads[o].holds /\ threads'[o].active = threads[o].active
  BY <1>1, AskedThreads DEF IndInv, Types
<1>3. threads[g].at = "idle"
  BY <1>1, NextAsked
<1>4. \A o \in Threads : Emptied(o)
  BY DEF Rest, Callbacks
<1>5. ASSUME NEW o \in Threads
      PROVE  /\ threads'[o].at = "stopping" => threads'[o] = threads[o]
             /\ threads'[o].at # "stopping" => threads'[o].holds = {}
             /\ threads'[o].holds = threads[o].holds
             /\ threads'[o].active \in threads'[o].holds \cup {NoChain}
             /\ o \in Generations /\ Begun(threads[o]) => Begun(threads'[o])
  <2>1. CASE o \in {Controller, g}
    <3>1. threads[o].at = "idle" /\ threads'[o].at # "stopping" /\ ~(o \in Generations /\ Begun(threads[o]))
      BY <1>1, <1>2, <1>3, <2>1 DEF Begun, BeforeInsert
    <3> QED
      BY <1>2, <1>4, <3>1 DEF Emptied
  <2>2. CASE o \notin {Controller, g}
    BY <1>2, <1>4, <2>2 DEF Emptied, Begun, BeforeInsert
  <2> QED
    BY <2>1, <2>2
<1>6. Drifts
  BY <1>5 DEF Drifts
<1> QED
  BY <1>1, <1>6, SameMonitorSameChains, DriftKeeps DEF Calling, os

-----------------------------------------------------------------------------
(* What becomes of a processor.                                            *)

\* Nothing that would let its swapchain be closed again, or for another owner.
Gently(r, s) ==
    /\ s.completed = r.completed /\ (s.owns => r.owns)
    /\ ~r.owns /\ r.closed = 0 => s.closed = 0

\* One field of a processor at a time.
LEMMA FieldSet ==
  ASSUME NEW r \in ProcessorRecord, NEW b \in BOOLEAN
  PROVE  /\ LET s == [r EXCEPT !.stop = b]
            IN  /\ s \in ProcessorRecord /\ s.worker = r.worker /\ s.completed = r.completed
                /\ s.owns = r.owns /\ s.handle = r.handle /\ s.closed = r.closed
                /\ s.destroyed = r.destroyed
         /\ LET s == [r EXCEPT !.completed = b]
            IN  /\ s \in ProcessorRecord /\ s.worker = r.worker /\ s.completed = b
                /\ s.owns = r.owns /\ s.handle = r.handle /\ s.closed = r.closed
                /\ s.destroyed = r.destroyed
         /\ LET s == [r EXCEPT !.owns = b]
            IN  /\ s \in ProcessorRecord /\ s.worker = r.worker /\ s.completed = r.completed
                /\ s.owns = b /\ s.handle = r.handle /\ s.closed = r.closed
                /\ s.destroyed = r.destroyed
         /\ LET s == [r EXCEPT !.handle = b]
            IN  /\ s \in ProcessorRecord /\ s.worker = r.worker /\ s.completed = r.completed
                /\ s.owns = r.owns /\ s.handle = b /\ s.closed = r.closed
                /\ s.destroyed = r.destroyed
         /\ LET s == [r EXCEPT !.pinned = b]
            IN  /\ s \in ProcessorRecord /\ s.worker = r.worker /\ s.completed = r.completed
                /\ s.owns = r.owns /\ s.handle = r.handle /\ s.closed = r.closed
                /\ s.destroyed = r.destroyed
         /\ LET s == [r EXCEPT !.destroyed = b]
            IN  /\ s \in ProcessorRecord /\ s.worker = r.worker /\ s.completed = r.completed
                /\ s.owns = r.owns /\ s.handle = r.handle /\ s.closed = r.closed
                /\ s.destroyed = b
<1>1. [r EXCEPT !.stop = b] \in ProcessorRecord
  BY DEF ProcessorRecord
<1> QED
  BY <1>1 DEF ProcessorRecord

\* One field of a processor at a time.
LEMMA StopSet ==
  ASSUME NEW r \in ProcessorRecord, NEW b \in BOOLEAN
  PROVE  LET s == [r EXCEPT !.stop = b]
         IN  /\ s \in ProcessorRecord /\ s.worker = r.worker /\ s.completed = r.completed
             /\ s.owns = r.owns /\ s.handle = r.handle /\ s.closed = r.closed
             /\ s.destroyed = r.destroyed
BY DEF ProcessorRecord

LEMMA CompletedSet ==
  ASSUME NEW r \in ProcessorRecord, NEW b \in BOOLEAN
  PROVE  LET s == [r EXCEPT !.completed = b]
         IN  /\ s \in ProcessorRecord /\ s.worker = r.worker /\ s.completed = b
             /\ s.owns = r.owns /\ s.handle = r.handle /\ s.closed = r.closed
             /\ s.destroyed = r.destroyed
BY DEF ProcessorRecord

LEMMA OwnsSet ==
  ASSUME NEW r \in ProcessorRecord, NEW b \in BOOLEAN
  PROVE  LET s == [r EXCEPT !.owns = b]
         IN  /\ s \in ProcessorRecord /\ s.worker = r.worker /\ s.completed = r.completed
             /\ s.owns = b /\ s.handle = r.handle /\ s.closed = r.closed
             /\ s.destroyed = r.destroyed
BY DEF ProcessorRecord

LEMMA HandleSet ==
  ASSUME NEW r \in ProcessorRecord, NEW b \in BOOLEAN
  PROVE  LET s == [r EXCEPT !.handle = b]
         IN  /\ s \in ProcessorRecord /\ s.worker = r.worker /\ s.completed = r.completed
             /\ s.owns = r.owns /\ s.handle = b /\ s.closed = r.closed
             /\ s.destroyed = r.destroyed
BY DEF ProcessorRecord

LEMMA PinnedSet ==
  ASSUME NEW r \in ProcessorRecord, NEW b \in BOOLEAN
  PROVE  LET s == [r EXCEPT !.pinned = b]
         IN  /\ s \in ProcessorRecord /\ s.worker = r.worker /\ s.completed = r.completed
             /\ s.owns = r.owns /\ s.handle = r.handle /\ s.closed = r.closed
             /\ s.destroyed = r.destroyed
BY DEF ProcessorRecord

LEMMA ClosedSet ==
  ASSUME NEW r \in ProcessorRecord, NEW c \in {0, 1}
  PROVE  LET s == [r EXCEPT !.closed = c]
         IN  /\ s \in ProcessorRecord /\ s.worker = r.worker /\ s.completed = r.completed
             /\ s.owns = r.owns /\ s.handle = r.handle /\ s.closed = c
             /\ s.destroyed = r.destroyed
BY DEF ProcessorRecord

LEMMA WorkerSet ==
  ASSUME NEW r \in ProcessorRecord, NEW at \in {"starting", "running", "closing", "ended"}
  PROVE  LET s == [r EXCEPT !.worker = at]
         IN  /\ s \in ProcessorRecord /\ s.worker = at /\ s.completed = r.completed
             /\ s.owns = r.owns /\ s.handle = r.handle /\ s.closed = r.closed
             /\ s.destroyed = r.destroyed
BY DEF ProcessorRecord

LEMMA StoppingRecord ==
  ASSUME NEW r, IsProcessor(r)
  PROVE  LET s == RequestStop(r)
         IN  /\ IsProcessor(s) /\ Gently(r, s)
             /\ s.worker = r.worker /\ s.destroyed = r.destroyed
<1> DEFINE s == [r EXCEPT !.stop = TRUE]
<1>1. r \in ProcessorRecord /\ TRUE \in BOOLEAN /\ s = RequestStop(r)
  BY DEF IsProcessor, RequestStop
<1>2. /\ s \in ProcessorRecord /\ s.worker = r.worker /\ s.completed = r.completed
      /\ s.owns = r.owns /\ s.handle = r.handle /\ s.closed = r.closed
      /\ s.destroyed = r.destroyed
  BY <1>1, StopSet
<1> HIDE DEF s
<1> QED
  BY <1>1, <1>2 DEF IsProcessor, Gently

LEMMA DecidedRecord ==
  ASSUME NEW r, IsProcessor(r), NEW owns \in BOOLEAN
  PROVE  LET s == Decide(r, owns)
         IN  /\ IsProcessor(s) /\ s.completed /\ s.owns = owns /\ s.closed = r.closed
             /\ s.worker = r.worker /\ s.destroyed = r.destroyed
<1> DEFINE u == [r EXCEPT !.completed = TRUE]
           s == [u EXCEPT !.owns = owns]
<1>1. s = Decide(r, owns)
  BY Zenon DEF Decide
<1>2. r \in ProcessorRecord /\ TRUE \in BOOLEAN
  BY DEF IsProcessor
<1>3. /\ u \in ProcessorRecord /\ u.worker = r.worker /\ u.completed = TRUE
      /\ u.handle = r.handle /\ u.closed = r.closed /\ u.destroyed = r.destroyed
  BY <1>2, CompletedSet
<1> HIDE DEF u
<1>4. /\ s \in ProcessorRecord /\ s.worker = u.worker /\ s.completed = u.completed
      /\ s.owns = owns /\ s.handle = u.handle /\ s.closed = u.closed /\ s.destroyed = u.destroyed
  BY <1>3, OwnsSet
<1> HIDE DEF s
<1> QED
  BY <1>1, <1>3, <1>4 DEF IsProcessor

\* What delete_swapchain leaves.
Released(r, s) ==
    /\ s \in ProcessorRecord /\ s.worker = r.worker /\ s.completed = r.completed
    /\ s.owns => r.owns
    /\ s.handle => r.handle /\ s.closed = 0
    /\ s.closed = 1 => r.closed = 1 \/ r.completed
    /\ ~r.owns => s.closed = r.closed
    /\ s.destroyed = r.destroyed

LEMMA ReleasedRecord ==
  ASSUME NEW r, IsProcessor(r)
  PROVE  Released(r, DeleteSwapChain(r))
<1>1. r \in ProcessorRecord /\ FALSE \in BOOLEAN
  BY DEF IsProcessor
<1>2. CASE ~r.completed
  <2> DEFINE s == [r EXCEPT !.pinned = FALSE]
  <2>1. DeleteSwapChain(r) = s
    BY <1>2 DEF DeleteSwapChain
  <2>2. /\ s \in ProcessorRecord /\ s.worker = r.worker /\ s.completed = r.completed
        /\ s.owns = r.owns /\ s.handle = r.handle /\ s.closed = r.closed
        /\ s.destroyed = r.destroyed
    BY <1>1, PinnedSet
  <2> HIDE DEF s
  <2> QED
    BY <1>2, <2>1, <2>2 DEF IsProcessor, Released
<1>3. CASE r.completed
  <2> DEFINE c == IF r.owns /\ r.handle THEN r.closed + 1 ELSE r.closed
             u == [r EXCEPT !.handle = FALSE]
             v == [u EXCEPT !.owns = FALSE]
             w == [v EXCEPT !.pinned = FALSE]
             s == [w EXCEPT !.closed = c]
  <2>1. s = DeleteSwapChain(r)
    BY <1>3, Zenon DEF DeleteSwapChain
  <2>2. c \in {0, 1} /\ (~r.owns => c = r.closed)
    <3>1. r.closed \in {0, 1} /\ (r.handle => r.closed = 0)
      BY <1>1 DEF ProcessorRecord, IsProcessor
    <3> QED
      BY <3>1
  <2> HIDE DEF c
  <2>3. /\ u \in ProcessorRecord /\ u.worker = r.worker /\ u.completed = r.completed
        /\ u.handle = FALSE /\ u.destroyed = r.destroyed
    BY <1>1, HandleSet
  <2> HIDE DEF u
  <2>4. /\ v \in ProcessorRecord /\ v.worker = u.worker /\ v.completed = u.completed
        /\ v.owns = FALSE /\ v.handle = u.handle /\ v.destroyed = u.destroyed
    BY <1>1, <2>3, OwnsSet
  <2> HIDE DEF v
  <2>5. /\ w \in ProcessorRecord /\ w.worker = v.worker /\ w.completed = v.completed
        /\ w.owns = v.owns /\ w.handle = v.handle /\ w.destroyed = v.destroyed
    BY <1>1, <2>4, PinnedSet
  <2> HIDE DEF w
  <2>6. /\ s \in ProcessorRecord /\ s.worker = w.worker /\ s.completed = w.completed
        /\ s.owns = w.owns /\ s.handle = w.handle /\ s.closed = c /\ s.destroyed = w.destroyed
    BY <2>2, <2>5, ClosedSet
  <2> HIDE DEF s
  <2> QED
    BY <1>3, <2>1, <2>2, <2>3, <2>4, <2>5, <2>6 DEF Released
<1> QED
  BY <1>2, <1>3

\* The record of a destroyed processor.
Remains(completed, c) ==
    [worker |-> "ended", stop |-> FALSE, completed |-> completed, owns |-> FALSE,
     handle |-> FALSE, pinned |-> FALSE, closed |-> c, destroyed |-> TRUE]

LEMMA DestroyedRecord ==
  ASSUME NEW r, IsProcessor(r)
  PROVE  LET s == Destroyed(r)
         IN  /\ IsProcessor(s) /\ Gently(r, s) /\ s.worker = "ended" /\ s.destroyed = TRUE
<1> DEFINE c == DeleteSwapChain(r).closed
<1>1. c \in {0, 1} /\ (c = 1 => r.completed) /\ (~r.owns /\ r.closed = 0 => c = 0)
  BY ReleasedRecord DEF IsProcessor, Released, ProcessorRecord
<1>2. r.completed \in BOOLEAN
  BY DEF IsProcessor, ProcessorRecord
<1>3. Destroyed(r) = Remains(r.completed, c)
  <2>1. Destroyed(r) = [NoProcessor EXCEPT !.worker = "ended", !.completed = r.completed,
                                           !.destroyed = TRUE, !.closed = c]
    BY Zenon DEF Destroyed
  <2> HIDE DEF c
  <2> QED
    BY <2>1 DEF NoProcessor, Remains
<1> HIDE DEF c
<1>4. Remains(r.completed, c) \in ProcessorRecord
  BY <1>1, <1>2 DEF Remains, ProcessorRecord
<1> QED
  BY <1>1, <1>3, <1>4 DEF IsProcessor, Gently, Remains

LEMMA StartedRecord ==
  /\ IsProcessor(Started) /\ ~Started.completed /\ Started.worker = "starting" /\ ~Started.destroyed
<1> DEFINE u == [NoProcessor EXCEPT !.worker = "starting"]
           v == [u EXCEPT !.handle = TRUE]
           w == [v EXCEPT !.pinned = TRUE]
<1>1. Started = w
  BY Zenon DEF Started
<1>2. /\ NoProcessor \in ProcessorRecord /\ NoProcessor.closed = 0
      /\ ~NoProcessor.owns /\ ~NoProcessor.completed /\ ~NoProcessor.destroyed
  BY DEF NoProcessor, ProcessorRecord
<1>3. /\ u \in ProcessorRecord /\ u.worker = "starting" /\ u.closed = NoProcessor.closed
      /\ u.owns = NoProcessor.owns /\ u.completed = NoProcessor.completed
      /\ u.destroyed = NoProcessor.destroyed
  BY <1>2, WorkerSet
<1> HIDE DEF u
<1>4. /\ v \in ProcessorRecord /\ v.worker = u.worker /\ v.closed = u.closed
      /\ v.owns = u.owns /\ v.completed = u.completed /\ v.destroyed = u.destroyed
  BY <1>3, HandleSet
<1> HIDE DEF v
<1>5. /\ w \in ProcessorRecord /\ w.worker = v.worker /\ w.closed = v.closed
      /\ w.owns = v.owns /\ w.completed = v.completed /\ w.destroyed = v.destroyed
  BY <1>4, PinnedSet
<1> HIDE DEF w
<1> QED
  BY <1>1, <1>2, <1>3, <1>4, <1>5 DEF IsProcessor

\* A worker at its place, while the swapchain is not closed.
LEMMA WorkerRecord ==
  ASSUME NEW r, IsProcessor(r), r.worker \in {"starting", "running", "closing"},
         NEW at \in {"starting", "running", "closing", "ended"}
  PROVE  LET s == [r EXCEPT !.worker = at]
         IN  /\ IsProcessor(s) /\ Gently(r, s) /\ s.worker = at /\ s.destroyed = r.destroyed
<1> DEFINE s == [r EXCEPT !.worker = at]
<1>1. /\ s \in ProcessorRecord /\ s.worker = at /\ s.completed = r.completed
      /\ s.owns = r.owns /\ s.handle = r.handle /\ s.closed = r.closed
      /\ s.destroyed = r.destroyed
  BY WorkerSet DEF IsProcessor
<1> HIDE DEF s
<1>2. r.closed = 0
  <2>1. r.closed \in {0, 1}
    BY DEF IsProcessor, ProcessorRecord
  <2> QED
    BY <2>1 DEF IsProcessor
<1>3. IsProcessor(s)
  BY <1>1, <1>2 DEF IsProcessor
<1>4. Gently(r, s)
  BY <1>1, <1>2 DEF Gently
<1> QED
  BY <1>1, <1>3, <1>4 DEF s

LEMMA ClosingRecord ==
  ASSUME NEW r, IsProcessor(r)
  PROVE  LET s == [DeleteSwapChain(r) EXCEPT !.worker = "ended"]
         IN  /\ IsProcessor(s) /\ Gently(r, s) /\ s.worker = "ended" /\ s.destroyed = r.destroyed
<1> DEFINE u == DeleteSwapChain(r)
           s == [u EXCEPT !.worker = "ended"]
<1>1. Released(r, u)
  BY ReleasedRecord
<1> HIDE DEF u
<1>2. /\ s \in ProcessorRecord /\ s.worker = "ended" /\ s.completed = u.completed
      /\ s.owns = u.owns /\ s.handle = u.handle /\ s.closed = u.closed
      /\ s.destroyed = u.destroyed
  BY <1>1, WorkerSet DEF Released
<1> HIDE DEF s
<1>3. IsProcessor(s) /\ Gently(r, s) /\ s.worker = "ended" /\ s.destroyed = r.destroyed
  BY <1>1, <1>2 DEF IsProcessor, Released, Gently
<1> QED
  BY <1>3 DEF s, u

\* The processors of several swapchains.
Processed(f) == f = [p \in SwapChains |-> f[p]]
Existing(r) == r.worker # "none" /\ ~r.destroyed

LEMMA StopAllFacts ==
  ASSUME Processors, NEW P, NEW f, f = StopAll(P)
  PROVE  /\ Processed(f)
         /\ \A p \in SwapChains : /\ IsProcessor(f[p]) /\ Gently(processors[p], f[p])
                                  /\ f[p].worker = processors[p].worker
                                  /\ Existing(f[p]) <=> Existing(processors[p])
<1>1. ASSUME NEW p \in SwapChains
      PROVE  /\ IsProcessor(f[p]) /\ Gently(processors[p], f[p])
             /\ f[p].worker = processors[p].worker
             /\ f[p].destroyed = processors[p].destroyed
  <2>1. IsProcessor(processors[p])
    BY DEF Processors
  <2>2. CASE p \in P
    <3>1. f[p] = RequestStop(processors[p])
      BY <2>2 DEF StopAll
    <3> QED
      BY <2>1, <3>1, StoppingRecord
  <2>3. CASE p \notin P
    <3>1. f[p] = processors[p]
      BY <2>3 DEF StopAll
    <3> QED
      BY <2>1, <3>1 DEF Gently
  <2> QED
    BY <2>2, <2>3
<1>2. Processed(f)
  BY DEF StopAll, Processed
<1> QED
  BY <1>1, <1>2 DEF Existing

LEMMA DestroyEndedFacts ==
  ASSUME Processors, NEW P, NEW f, f = DestroyEnded(P)
  PROVE  /\ Processed(f)
         /\ \A p \in SwapChains : /\ IsProcessor(f[p]) /\ Gently(processors[p], f[p])
                                  /\ f[p].worker = processors[p].worker
                                  /\ Existing(f[p]) <=> Existing(processors[p]) /\ ~(p \in P /\ Ended(p))
<1>1. ASSUME NEW p \in SwapChains
      PROVE  /\ IsProcessor(f[p]) /\ Gently(processors[p], f[p])
             /\ f[p].worker = processors[p].worker
             /\ Existing(f[p]) <=> Existing(processors[p]) /\ ~(p \in P /\ Ended(p))
  <2>1. IsProcessor(processors[p])
    BY DEF Processors
  <2>2. CASE p \in P /\ Ended(p)
    <3>1. f[p] = Destroyed(processors[p])
      BY <2>2 DEF DestroyEnded
    <3>2. IsProcessor(f[p]) /\ Gently(processors[p], f[p]) /\ f[p].worker = "ended" /\ f[p].destroyed
      BY <2>1, <3>1, DestroyedRecord
    <3> QED
      BY <2>2, <3>2 DEF Ended, Existing
  <2>3. CASE ~(p \in P /\ Ended(p))
    <3>1. f[p] = processors[p]
      BY <2>3 DEF DestroyEnded
    <3> QED
      BY <2>1, <2>3, <3>1 DEF Gently
  <2> QED
    BY <2>2, <2>3
<1>2. Processed(f)
  BY DEF DestroyEnded, Processed
<1> QED
  BY <1>1, <1>2

\* With the decision taken or the callback over, gentle changes keep it all.
LEMMA ProcessorsKept ==
  ASSUME Processors, Processed(processors'),
         \A p \in SwapChains : IsProcessor(processors'[p]) /\ Gently(processors[p], processors'[p]),
         UNCHANGED callback \/ callback'.at \notin {"assign", "stopNew"}
  PROVE  Processors'
<1>1. ASSUME NEW p \in SwapChains PROVE IsProcessor(processors[p])' /\ Undecided(p)'
  <2>1. Undecided(p) /\ IsProcessor(processors'[p]) /\ Gently(processors[p], processors'[p])
    BY DEF Processors
  <2>2. Undecided(p)'
    <3>1. CASE UNCHANGED callback
      BY <2>1, <3>1 DEF Undecided, Gently
    <3>2. CASE callback'.at \notin {"assign", "stopNew"}
      BY <3>2 DEF Undecided
    <3> QED
      BY <3>1, <3>2
  <2> QED
    BY <2>1, <2>2 DEF IsProcessor
<1> QED
  BY <1>1 DEF Processors, Processed

\* A change of one processor.
LEMMA OneProcessor ==
  ASSUME Processors, NEW p \in SwapChains, NEW r, IsProcessor(r), Gently(processors[p], r),
         processors' = [processors EXCEPT ![p] = r]
  PROVE  /\ Processed(processors') /\ processors'[p] = r
         /\ \A q \in SwapChains : IsProcessor(processors'[q]) /\ Gently(processors[q], processors'[q])
         /\ \A q \in SwapChains \ {p} : processors'[q] = processors[q]
<1>1. /\ Processed(processors') /\ processors'[p] = r
      /\ \A q \in SwapChains \ {p} : processors'[q] = processors[q]
  BY DEF Processors, Processed
<1>2. ASSUME NEW q \in SwapChains PROVE IsProcessor(processors'[q]) /\ Gently(processors[q], processors'[q])
  <2>1. CASE q = p
    BY <1>1, <2>1
  <2>2. CASE q # p
    BY <1>1, <2>2 DEF Processors, Gently
  <2> QED
    BY <2>1, <2>2
<1> QED
  BY <1>1, <1>2

-----------------------------------------------------------------------------
(* Who owns a processor, as steps move it.                                 *)

\* The worker of a processor goes on.
LEMMA WorkerStepRest ==
  ASSUME IndInv, Rest, NEW p \in SwapChains, WorkerSteps(Worker(p)) \/ WorkerSteps(WorkerFaults(p))
  PROVE  Rest'
<1>1. UNCHANGED <<monitor, threads, departing, up, callback, deferred, leaked>>
  BY DEF WorkerSteps, calls, os
<1>2. IsProcessor(processors[p])
  BY DEF Rest, Processors
<1>3. PICK r : /\ processors' = [processors EXCEPT ![p] = r]
               /\ IsProcessor(r) /\ Gently(processors[p], r)
               /\ Existing(r) <=> Existing(processors[p])
  <2>1. CASE WorkerCloses(p)
    <3> DEFINE r == [DeleteSwapChain(processors[p]) EXCEPT !.worker = "ended"]
    <3>1. processors' = [processors EXCEPT ![p] = r] /\ processors[p].worker = "closing"
      BY <2>1, Zenon DEF WorkerCloses
    <3>2. IsProcessor(r) /\ Gently(processors[p], r) /\ r.worker = "ended" /\ r.destroyed = processors[p].destroyed
      BY <1>2, ClosingRecord
    <3> HIDE DEF r
    <3> QED
      BY <3>1, <3>2 DEF Existing
  <2>2. CASE \E at \in {"starting", "running", "closing", "ended"} : WorkerGoes(p, at) /\ Live(p)
    <3>1. PICK at \in {"starting", "running", "closing", "ended"} : WorkerGoes(p, at) /\ Live(p)
      BY <2>2
    <3> DEFINE r == [processors[p] EXCEPT !.worker = at]
    <3>2. processors' = [processors EXCEPT ![p] = r]
      BY <3>1, Zenon DEF WorkerGoes
    <3>3. IsProcessor(r) /\ Gently(processors[p], r) /\ r.worker = at /\ r.destroyed = processors[p].destroyed
      BY <1>2, <3>1, WorkerRecord DEF Live
    <3> HIDE DEF r
    <3> QED
      BY <3>1, <3>2, <3>3 DEF Existing, Live
  <2> QED
    BY <2>1, <2>2 DEF WorkerSteps, Worker, WorkerFaults, WorkerSeesCommit, WorkerStops,
                      WorkerLacksDevice, WorkerFails, Live
<1>4. /\ Processed(processors') /\ processors'[p] = r
      /\ \A q \in SwapChains : IsProcessor(processors'[q]) /\ Gently(processors[q], processors'[q])
      /\ \A q \in SwapChains \ {p} : processors'[q] = processors[q]
  BY <1>3, OneProcessor DEF Rest
<1>5. Processors'
  BY <1>1, <1>4, ProcessorsKept DEF Rest
<1>6. Callbacks'
  <2>1. SameCallbacks
    BY <1>1 DEF SameCallbacks, NothingHeld
  <2> QED
    BY <1>1, <2>1, ThreadsDrift, DriftCallbacks DEF Rest, Calling
<1>7. Ownership'
  <2>1. \A q \in SwapChains : Exists(q)' <=> Exists(q)
    BY <1>3, <1>4 DEF Exists, Existing
  <2>2. /\ \A q : Held(q)' <=> Held(q)
        /\ Active' = Active /\ Retired' = Retired /\ Taken' = Taken
    BY <1>1 DEF Held, Active, Retired, Taken
  <2>3. ASSUME NEW q \in SwapChains PROVE OneOwner(q)'
    <3>1. OneOwner(q)
      BY DEF Rest, Ownership
    <3> QED
      BY <1>1, <2>1, <2>2, <3>1 DEF OneOwner
  <2> QED
    BY <2>3 DEF Ownership
<1> QED
  BY <1>5, <1>6, <1>7 DEF Rest

LEMMA DeferredStopRest ==
  ASSUME IndInv, Rest, NEW p \in SwapChains, NEW timedOut \in BOOLEAN, DeferredStop(p, timedOut)
  PROVE  Rest'
<1>1. /\ UNCHANGED <<monitor, threads, departing, up, callback>>
      /\ p \in deferred /\ timedOut = ~Ended(p)
      /\ processors' = DestroyEnded({p}) /\ deferred' = deferred \ {p}
      /\ leaked' = IF timedOut THEN leaked \cup {p} ELSE leaked
  BY DEF DeferredStop, calls, os
<1>2. /\ Processed(processors')
      /\ \A q \in SwapChains : /\ IsProcessor(processors'[q]) /\ Gently(processors[q], processors'[q])
                               /\ Existing(processors'[q]) <=> Existing(processors[q]) /\ ~(q \in {p} /\ Ended(q))
  BY <1>1, DestroyEndedFacts DEF Rest
<1>3. Processors'
  BY <1>1, <1>2, ProcessorsKept DEF Rest
<1>4. Callbacks'
  <2>1. SameCallbacks
    BY <1>1 DEF SameCallbacks, NothingHeld
  <2> QED
    BY <1>1, <2>1, ThreadsDrift, DriftCallbacks DEF Rest, Calling
<1>5. Ownership'
  <2>1. \A q \in SwapChains : Exists(q)' <=> Exists(q) /\ ~(q = p /\ Ended(q))
    BY <1>2 DEF Exists, Existing
  <2>2. /\ \A q : Held(q)' <=> Held(q)
        /\ Active' = Active /\ Retired' = Retired /\ Taken' = Taken
    BY <1>1 DEF Held, Active, Retired, Taken
  <2>3. ASSUME NEW q \in SwapChains PROVE OneOwner(q)'
    <3>1. OneOwner(q)
      BY DEF Rest, Ownership
    <3>2. CASE q = p
      <4>1. q \notin deferred' /\ (q \in leaked' <=> ~Ended(q)) /\ (Exists(q)' <=> ~Ended(q))
        BY <1>1, <2>1, <3>1, <3>2 DEF OneOwner
      <4>2. ~Held(q)' /\ q \notin Active' /\ q \notin Retired' /\ q \notin Taken'
        BY <1>1, <2>2, <3>1, <3>2 DEF OneOwner
      <4> QED
        BY <4>1, <4>2 DEF OneOwner
    <3>3. CASE q # p
      <4>1. (Exists(q)' <=> Exists(q)) /\ (q \in deferred' <=> q \in deferred) /\ (q \in leaked' <=> q \in leaked)
        BY <1>1, <2>1, <3>3
      <4> QED
        BY <2>2, <3>1, <4>1 DEF OneOwner
    <3> QED
      BY <3>2, <3>3
  <2> QED
    BY <2>3 DEF Ownership
<1> QED
  BY <1>3, <1>4, <1>5 DEF Rest

LEMMA ReaperCleansUpRest ==
  ASSUME IndInv, Rest, ReaperCleansUp
  PROVE  Rest'
<1>1. /\ threads[Reaper].at = "idle" /\ monitor # NoMonitor
      /\ monitor' = [monitor EXCEPT !.retired = {p \in monitor.retired : ~Ended(p)}]
      /\ processors' = DestroyEnded(monitor.retired)
      /\ Departs(Reaper, monitor.generation, "idle") \/ UNCHANGED threads
      /\ UNCHANGED <<departing, up, callback, deferred, leaked>>
  BY DEF ReaperCleansUp, os
<1>2. monitor \in MonitorRecord /\ monitor.generation \in 0..MaxGeneration
  BY <1>1, MonitorGeneration DEF IndInv
<1>3. /\ monitor' \in MonitorRecord /\ monitor' # NoMonitor
      /\ monitor'.generation = monitor.generation /\ monitor'.active = monitor.active
      /\ monitor'.assigns = monitor.assigns /\ monitor'.unassigns = monitor.unassigns
      /\ monitor'.retired = {p \in monitor.retired : ~Ended(p)}
  BY <1>1, <1>2, NoMonitorAssumption DEF MonitorRecord
<1>4. Drifts
  <2>1. CASE UNCHANGED threads
    BY <2>1, ThreadsDrift
  <2>2. CASE Departs(Reaper, monitor.generation, "idle")
    <3>1. Shifts(Reaper)
      BY <1>1, <1>2, <2>2, NotInGenerations, DepartsShifts
    <3> QED
      BY <3>1, NotInGenerations, ShiftsDrift
  <2> QED
    BY <1>1, <2>1, <2>2
<1>5. /\ Processed(processors')
      /\ \A q \in SwapChains :
             /\ IsProcessor(processors'[q]) /\ Gently(processors[q], processors'[q])
             /\ Existing(processors'[q]) <=> Existing(processors[q]) /\ ~(q \in monitor.retired /\ Ended(q))
  BY <1>1, DestroyEndedFacts DEF Rest
<1>6. Processors'
  BY <1>1, <1>5, ProcessorsKept DEF Rest
<1>7. Callbacks'
  <2>1. SameCallbacks
    BY <1>1, <1>3 DEF SameCallbacks, NothingHeld
  <2> QED
    BY <1>1, <1>4, <2>1, DriftCallbacks DEF Rest, Calling
<1>8. Ownership'
  <2>1. \A q \in SwapChains : Exists(q)' <=> Exists(q) /\ ~(q \in Retired /\ Ended(q))
    BY <1>1, <1>5 DEF Exists, Existing, Retired
  <2>2. /\ \A q : Held(q)' <=> Held(q)
        /\ Active' = Active /\ Taken' = Taken
    BY <1>1, <1>3, <1>4 DEF Held, Active, Taken, Drifts
  <2>3. \A q : q \in Retired' <=> q \in Retired /\ ~Ended(q)
    BY <1>1, <1>3 DEF Retired
  <2>4. ASSUME NEW q \in SwapChains PROVE OneOwner(q)'
    <3>1. OneOwner(q)
      BY DEF Rest, Ownership
    <3> QED
      BY <1>1, <2>1, <2>2, <2>3, <3>1 DEF OneOwner
  <2> QED
    BY <2>4 DEF Ownership
<1> QED
  BY <1>6, <1>7, <1>8 DEF Rest

\* A callback about the monitor of generation g goes on: nobody departs it meanwhile.
LEMMA CallbackStep ==
  ASSUME IndInv, Callbacks, NEW g \in Generations, Is(g), Begun(threads[g]),
         callback.at # "none" \/ ~monitor.departing,
         monitor' # NoMonitor, monitor'.generation = g,
         callback'.at # "none" => callback'.generation = g,
         CallbackCounted', CallbackHolds', UNCHANGED <<threads, departing, up>>
  PROVE  Callbacks'
<1>1. \A t \in Threads : threads[t].at # "stopping"
  <2>1. SUFFICES ASSUME NEW t \in Threads, threads[t].at = "stopping" PROVE FALSE
    OBVIOUS
  <2>2. Leaves(t)
    BY <2>1 DEF Leaves
  <2>3. monitor.departing
    BY <2>2, OnlyLeaver DEF IndInv
  <2> QED
    BY <2>1, <2>3 DEF Callbacks, Emptied
<1>2. \A t \in Threads, h \in Generations : ~Calling(t, h)
  BY DEF IndInv, Marks, Callbacks
<1>3. CallbackServed'
  BY DEF CallbackServed, Is, Begun, BeforeInsert
<1>4. \A t \in Threads : Emptied(t)'
  BY <1>1 DEF Callbacks, Emptied
<1>5. \A t \in Threads, h \in Generations : ~Calling(t, h)'
  BY <1>2 DEF Calling
<1>6. \A h \in up' : Begun(threads[h])'
  BY DEF Callbacks, Begun, BeforeInsert
<1>7. \A h \in Generations : (Is(h) /\ ~Begun(threads[h]) => NothingHeld)'
  BY DEF Is, Begun, BeforeInsert
<1> QED
  BY <1>3, <1>4, <1>5, <1>6, <1>7 DEF Callbacks

LEMMA CallbackBecomes ==
  ASSUME NEW c, IsCallback(c), NEW at, NEW held
  PROVE  /\ LET d == [c EXCEPT !.at = at]
            IN  d.at = at /\ d.generation = c.generation /\ d.chain = c.chain /\ d.holds = c.holds
         /\ LET d == [c EXCEPT !.at = at, !.holds = held]
            IN  d.at = at /\ d.generation = c.generation /\ d.chain = c.chain /\ d.holds = held
BY DEF IsCallback

\* Whom a callback in progress is about.
LEMMA CallbackAbout ==
  ASSUME IndInv, Rest, callback.at # "none"
  PROVE  /\ callback.generation \in Generations /\ Is(callback.generation)
         /\ Begun(threads[callback.generation])
         /\ monitor \in MonitorRecord /\ monitor.generation = callback.generation
         /\ monitor.assigns = IF callback.at \in AssignSites THEN 1 ELSE 0
         /\ monitor.unassigns = IF callback.at \in UnassignSites THEN 1 ELSE 0
<1>1. Is(callback.generation) /\ Begun(threads[callback.generation])
  BY DEF Rest, Callbacks, CallbackServed
<1>2. monitor \in MonitorRecord /\ monitor.generation = callback.generation
  BY <1>1 DEF Is, IndInv, Types
<1>3. callback.generation \in Generations
  BY <1>2 DEF MonitorRecord
<1> QED
  BY <1>1, <1>2, <1>3 DEF Rest, Callbacks, CallbackCounted, Is

\* ... and a new one.
LEMMA CallbackOn ==
  ASSUME IndInv, Rest, NEW g \in Generations, g \in up, Is(g), callback.at = "none"
  PROVE  /\ Begun(threads[g]) /\ monitor \in MonitorRecord /\ monitor.generation = g
         /\ monitor.assigns = 0 /\ monitor.unassigns = 0
         /\ callback.holds = {} /\ Taken = {}
<1>1. Begun(threads[g]) /\ monitor \in MonitorRecord /\ monitor.generation = g
  BY DEF Rest, Callbacks, Is, IndInv, Types
<1> QED
  BY <1>1 DEF Rest, Callbacks, CallbackCounted, CallbackHolds, Is, Taken, AssignSites, UnassignSites

LEMMA AssignBeginsRest ==
  ASSUME IndInv, Rest, NEW g \in Generations, NEW p \in SwapChains, AssignBegins(g, p)
  PROVE  Rest'
<1>1. /\ callback.at = "none" /\ g \in up /\ Is(g) /\ ~monitor.departing
      /\ processors[p].worker = "none"
      /\ monitor' = [monitor EXCEPT !.assigns = monitor.assigns + 1]
      /\ callback' = [at |-> "assign", generation |-> g, chain |-> p, holds |-> {}]
      /\ processors' = [processors EXCEPT ![p] = Started]
      /\ UNCHANGED <<threads, departing, up, deferred, leaked>>
  BY DEF AssignBegins, NotLeaving, calls, os
<1>2. /\ Begun(threads[g]) /\ monitor \in MonitorRecord /\ monitor.generation = g
      /\ monitor.assigns = 0 /\ monitor.unassigns = 0
      /\ callback.holds = {} /\ Taken = {}
  BY <1>1, CallbackOn
<1>3. /\ monitor' \in MonitorRecord /\ monitor' # NoMonitor /\ monitor # NoMonitor
      /\ monitor'.generation = g /\ monitor'.active = monitor.active
      /\ monitor'.retired = monitor.retired /\ monitor'.assigns = 1 /\ monitor'.unassigns = 0
  BY <1>1, <1>2, NoMonitorAssumption DEF MonitorRecord
<1>4. Callbacks'
  <2>1. CallbackCounted'
    BY <1>1, <1>3 DEF CallbackCounted, AssignSites, UnassignSites
  <2>2. CallbackHolds'
    BY <1>1 DEF CallbackHolds, AssignSites, UnassignSites
  <2> QED
    BY <1>1, <1>2, <1>3, <2>1, <2>2, CallbackStep DEF Rest
<1>5. /\ processors' = [q \in SwapChains |-> processors'[q]]
      /\ processors'[p] = Started
      /\ \A q \in SwapChains \ {p} : processors'[q] = processors[q]
  BY <1>1 DEF Rest, Processors
<1>6. Processors'
  <2>1. ASSUME NEW q \in SwapChains PROVE IsProcessor(processors'[q]) /\ Undecided(q)'
    <3>1. CASE q = p
      BY <1>1, <1>5, <3>1, StartedRecord DEF Undecided
    <3>2. CASE q # p
      BY <1>1, <1>5, <3>2 DEF Rest, Processors, Undecided
    <3> QED
      BY <3>1, <3>2
  <2> QED
    BY <1>5, <2>1 DEF Processors, IsProcessor
<1>7. Ownership'
  <2>1. /\ \A q : Held(q)' <=> Held(q)
        /\ Active' = Active /\ Retired' = Retired /\ Taken' = {p}
    BY <1>1, <1>2, <1>3 DEF Held, Active, Retired, Taken
  <2>2. \A q \in SwapChains : Exists(q)' <=> Exists(q) \/ q = p
    BY <1>5, StartedRecord DEF Exists
  <2>3. ASSUME NEW q \in SwapChains PROVE OneOwner(q)'
    <3>1. OneOwner(q)
      BY DEF Rest, Ownership
    <3>2. q = p => ~Exists(q)
      BY <1>1 DEF Exists
    <3> QED
      BY <1>1, <1>2, <2>1, <2>2, <3>1, <3>2 DEF OneOwner
  <2> QED
    BY <2>3 DEF Ownership
<1> QED
  BY <1>4, <1>6, <1>7 DEF Rest

\* The processor whose worker did not start, as it is left.
GivenUp == [Abandon(Started) EXCEPT !.worker = "ended"]

LEMMA GivenUpRecord ==
  IsProcessor(GivenUp)
<1> DEFINE u == [Started EXCEPT !.completed = TRUE]
           v == [u EXCEPT !.owns = FALSE]
           w == [v EXCEPT !.handle = FALSE]
           x == [w EXCEPT !.pinned = FALSE]
           y == [x EXCEPT !.worker = "ended"]
<1>1. y = GivenUp
  BY Zenon DEF GivenUp, Abandon
<1>2. Started \in ProcessorRecord
  BY StartedRecord DEF IsProcessor
<1>3. u \in ProcessorRecord /\ u.completed = TRUE
  BY <1>2, CompletedSet
<1> HIDE DEF u
<1>4. v \in ProcessorRecord /\ v.completed = TRUE /\ v.owns = FALSE
  BY <1>3, OwnsSet
<1> HIDE DEF v
<1>5. w \in ProcessorRecord /\ w.completed = TRUE /\ w.owns = FALSE /\ w.handle = FALSE
  BY <1>4, HandleSet
<1> HIDE DEF w
<1>6. x \in ProcessorRecord /\ x.completed = TRUE /\ x.owns = FALSE /\ x.handle = FALSE
  BY <1>5, PinnedSet
<1> HIDE DEF x
<1>7. y \in ProcessorRecord /\ y.completed = TRUE /\ y.owns = FALSE /\ y.handle = FALSE /\ y.worker = "ended"
  BY <1>6, WorkerSet
<1> HIDE DEF y
<1> QED
  BY <1>1, <1>7 DEF IsProcessor

LEMMA AssignStartFailsRest ==
  ASSUME IndInv, Rest, AssignStartFails
  PROVE  Rest'
<1> DEFINE p == callback.chain
           r == Destroyed(GivenUp)
<1>1. /\ callback.at = "assign" /\ processors[p] = Started
      /\ callback' = [callback EXCEPT !.at = "leave"]
      /\ UNCHANGED <<monitor, threads, departing, up, deferred, leaked>>
  BY DEF AssignStartFails, CallbackGoes, calls, os
<1>2. processors' = [processors EXCEPT ![p] = r]
  BY <1>1 DEF AssignStartFails, GivenUp
<1>3. /\ callback.generation \in Generations /\ Is(callback.generation)
      /\ Begun(threads[callback.generation])
      /\ monitor \in MonitorRecord /\ monitor.generation = callback.generation
      /\ monitor.assigns = 1 /\ monitor.unassigns = 0
  BY <1>1, CallbackAbout DEF AssignSites, UnassignSites
<1>4. p \in SwapChains /\ callback.holds = {}
  BY <1>1 DEF Rest, Callbacks, CallbackHolds, AssignSites
<1>5. callback'.at = "leave" /\ callback'.generation = callback.generation /\ callback'.holds = {}
      /\ callback'.chain = p
  BY <1>1, <1>4, CallbackBecomes DEF IndInv, Types
<1>6. Callbacks'
  <2>1. CallbackCounted'
    BY <1>1, <1>3, <1>5 DEF CallbackCounted, AssignSites, UnassignSites
  <2>2. CallbackHolds'
    BY <1>4, <1>5 DEF CallbackHolds, AssignSites, UnassignSites
  <2> QED
    BY <1>1, <1>3, <1>5, <2>1, <2>2, NoMonitorAssumption, CallbackStep DEF Rest
<1>7. /\ processors' = [q \in SwapChains |-> processors'[q]]
      /\ processors'[p] = r
      /\ \A q \in SwapChains \ {p} : processors'[q] = processors[q]
  BY <1>2, <1>4 DEF Rest, Processors
<1>8. IsProcessor(r) /\ r.destroyed
  BY GivenUpRecord, DestroyedRecord
<1> HIDE DEF p, r
<1>9. Processors'
  <2>1. ASSUME NEW q \in SwapChains PROVE IsProcessor(processors'[q]) /\ Undecided(q)'
    BY <1>5, <1>7, <1>8 DEF Rest, Processors, Undecided
  <2> QED
    BY <1>7, <2>1 DEF Processors, IsProcessor
<1>10. Ownership'
  <2>1. /\ \A q : Held(q)' <=> Held(q)
        /\ Active' = Active /\ Retired' = Retired /\ Taken' = {} /\ Taken = {p}
    BY <1>1, <1>4, <1>5 DEF Held, Active, Retired, Taken, p
  <2>2. \A q \in SwapChains : Exists(q)' <=> Exists(q) /\ q # p
    BY <1>7, <1>8 DEF Exists
  <2>3. ASSUME NEW q \in SwapChains PROVE OneOwner(q)'
    <3>1. OneOwner(q)
      BY DEF Rest, Ownership
    <3> QED
      BY <1>1, <2>1, <2>2, <3>1 DEF OneOwner
  <2> QED
    BY <2>3 DEF Ownership
<1> QED
  BY <1>6, <1>9, <1>10 DEF Rest

LEMMA AssignStopsNewRest ==
  ASSUME IndInv, Rest, NEW timedOut \in BOOLEAN, AssignStopsNew(timedOut)
  PROVE  Rest'
<1>1. /\ callback.at = "stopNew"
      /\ processors' = DestroyEnded(callback.holds)
      /\ deferred' = deferred \cup {q \in callback.holds : ~Ended(q)}
      /\ callback' = [callback EXCEPT !.at = "leave", !.holds = {}]
      /\ UNCHANGED <<monitor, threads, departing, up, leaked>>
  BY DEF AssignStopsNew, calls, os
<1>2. /\ callback.generation \in Generations /\ Is(callback.generation)
      /\ Begun(threads[callback.generation])
      /\ monitor \in MonitorRecord /\ monitor.generation = callback.generation
      /\ monitor.assigns = 1 /\ monitor.unassigns = 0
  BY <1>1, CallbackAbout DEF AssignSites, UnassignSites
<1>3. callback'.at = "leave" /\ callback'.generation = callback.generation /\ callback'.holds = {}
      /\ callback'.chain = callback.chain
  BY <1>1, CallbackBecomes DEF IndInv, Types
<1>4. callback.chain \in SwapChains
  BY <1>1 DEF Rest, Callbacks, CallbackHolds, AssignSites
<1>5. Callbacks'
  <2>1. CallbackCounted'
    BY <1>1, <1>2, <1>3 DEF CallbackCounted, AssignSites, UnassignSites
  <2>2. CallbackHolds'
    BY <1>3, <1>4 DEF CallbackHolds, AssignSites, UnassignSites
  <2> QED
    BY <1>1, <1>2, <1>3, <2>1, <2>2, NoMonitorAssumption, CallbackStep DEF Rest
<1>6. /\ Processed(processors')
      /\ \A q \in SwapChains :
             /\ IsProcessor(processors'[q]) /\ Gently(processors[q], processors'[q])
             /\ Existing(processors'[q]) <=> Existing(processors[q]) /\ ~(q \in callback.holds /\ Ended(q))
  BY <1>1, DestroyEndedFacts DEF Rest
<1>7. Processors'
  BY <1>3, <1>6, ProcessorsKept DEF Rest
<1>8. Ownership'
  <2>1. /\ \A q : Held(q)' <=> Held(q)
        /\ Active' = Active /\ Retired' = Retired /\ Taken' = {} /\ Taken = callback.holds
    BY <1>1, <1>3 DEF Held, Active, Retired, Taken
  <2>2. \A q \in SwapChains : Exists(q)' <=> Exists(q) /\ ~(q \in Taken /\ Ended(q))
    BY <1>6, <2>1 DEF Exists, Existing
  <2>3. \A q : q \in deferred' <=> q \in deferred \/ (q \in Taken /\ ~Ended(q))
    BY <1>1, <2>1
  <2>4. ASSUME NEW q \in SwapChains PROVE OneOwner(q)'
    <3>1. OneOwner(q)
      BY DEF Rest, Ownership
    <3> QED
      BY <1>1, <2>1, <2>2, <2>3, <3>1 DEF OneOwner
  <2> QED
    BY <2>4 DEF Ownership
<1> QED
  BY <1>5, <1>7, <1>8 DEF Rest

LEMMA AssignDecidesRest ==
  ASSUME IndInv, Rest, AssignDecides
  PROVE  Rest'
<1> DEFINE p == callback.chain
           stays == Is(callback.generation) /\ ~monitor.departing
           collected == IF stays THEN {q \in monitor.retired : Ended(q)} ELSE {}
           f == DestroyEnded(collected)
           r == IF stays THEN Decide(f[p], TRUE) ELSE RequestStop(Decide(f[p], FALSE))
           at == IF ~stays THEN "stopNew" ELSE IF Active = {} THEN "leave" ELSE "retire"
           held == IF stays THEN Active ELSE {p}
<1>1. /\ callback.at = "assign"
      /\ monitor' = IF stays THEN [monitor EXCEPT !.active = p, !.retired = monitor.retired \ collected]
                    ELSE monitor
      /\ UNCHANGED <<threads, departing, up, deferred, leaked>>
  BY DEF AssignDecides, calls, os
<1>2. callback' = [callback EXCEPT !.at = at, !.holds = held]
  BY Zenon DEF AssignDecides
<1>3. /\ callback.generation \in Generations /\ Is(callback.generation)
      /\ Begun(threads[callback.generation])
      /\ monitor \in MonitorRecord /\ monitor.generation = callback.generation
      /\ monitor.assigns = 1 /\ monitor.unassigns = 0
  BY <1>1, CallbackAbout DEF AssignSites, UnassignSites
<1>4. p \in SwapChains /\ callback.holds = {} /\ p # NoChain
  BY <1>1, NoChainAssumption DEF Rest, Callbacks, CallbackHolds, AssignSites
<1>5. IsProcessor(processors[p]) /\ ~processors[p].completed /\ OneOwner(p)
  BY <1>1, <1>4 DEF Rest, Processors, Undecided, Ownership
<1>6. p \in Taken /\ p \notin collected
  <2>1. p \in Taken
    BY <1>1 DEF Taken
  <2>2. p \notin Retired
    BY <1>5, <2>1 DEF OneOwner
  <2>3. collected \subseteq Retired
    BY <1>3 DEF Retired, Is
  <2> QED
    BY <2>1, <2>2, <2>3
<1>7. processors' = [f EXCEPT ![p] = r]
  BY Zenon DEF AssignDecides
<1>8. /\ monitor' \in MonitorRecord /\ monitor' # NoMonitor /\ monitor # NoMonitor
      /\ monitor'.generation = monitor.generation
      /\ monitor'.assigns = monitor.assigns /\ monitor'.unassigns = monitor.unassigns
      /\ monitor'.active = IF stays THEN p ELSE monitor.active
      /\ monitor'.retired = IF stays THEN monitor.retired \ collected ELSE monitor.retired
  <2>1. monitor # NoMonitor
    BY <1>3, NoMonitorAssumption
  <2>2. CASE ~stays
    BY <1>1, <1>3, <2>1, <2>2
  <2>3. CASE stays
    <3> DEFINE u == [monitor EXCEPT !.active = p]
    <3>1. /\ u \in MonitorRecord /\ u.generation = monitor.generation
          /\ u.assigns = monitor.assigns /\ u.unassigns = monitor.unassigns
          /\ u.active = p /\ u.retired = monitor.retired
      BY <1>3, <1>4 DEF MonitorRecord
    <3>2. monitor' = [u EXCEPT !.retired = monitor.retired \ collected]
      BY <1>1, <2>3
    <3>3. monitor.retired \ collected \in SUBSET SwapChains
      BY <1>3 DEF MonitorRecord
    <3> HIDE DEF u, collected
    <3>4. /\ monitor' \in MonitorRecord /\ monitor'.generation = u.generation
          /\ monitor'.assigns = u.assigns /\ monitor'.unassigns = u.unassigns
          /\ monitor'.active = u.active /\ monitor'.retired = monitor.retired \ collected
      BY <3>1, <3>2, <3>3 DEF MonitorRecord
    <3> QED
      BY <2>1, <2>3, <3>1, <3>4, NoMonitorAssumption
  <2> QED
    BY <2>2, <2>3
<1>9. /\ Processed(f)
      /\ \A q \in SwapChains :
             /\ IsProcessor(f[q]) /\ Gently(processors[q], f[q])
             /\ Existing(f[q]) <=> Existing(processors[q]) /\ ~(q \in collected /\ Ended(q))
  BY DestroyEndedFacts DEF Rest
<1> HIDE DEF f
<1>10. IsProcessor(r) /\ (Existing(r) <=> Existing(f[p])) /\ (~stays => ~r.owns /\ r.closed = 0)
  <2>1. IsProcessor(f[p]) /\ ~f[p].completed
    BY <1>4, <1>5, <1>9 DEF Gently
  <2>2. CASE stays
    <3>1. r = Decide(f[p], TRUE)
      BY <2>2
    <3> QED
      BY <2>1, <2>2, <3>1, DecidedRecord DEF Existing
  <2>3. CASE ~stays
    <3> DEFINE d == Decide(f[p], FALSE)
    <3>1. r = RequestStop(d)
      BY <2>3
    <3>2. /\ IsProcessor(d) /\ ~d.owns /\ d.closed = f[p].closed
          /\ d.worker = f[p].worker /\ d.destroyed = f[p].destroyed
      BY <2>1, DecidedRecord
    <3> HIDE DEF d
    <3>3. IsProcessor(r) /\ Gently(d, r) /\ r.worker = d.worker /\ r.destroyed = d.destroyed
      BY <3>1, <3>2, StoppingRecord
    <3>4. f[p].closed = 0
      BY <2>1 DEF IsProcessor, ProcessorRecord
    <3> QED
      BY <3>2, <3>3, <3>4 DEF Existing, Gently
  <2> QED
    BY <2>2, <2>3
<1> HIDE DEF r
<1>11. /\ processors' = [q \in SwapChains |-> processors'[q]]
       /\ processors'[p] = r
       /\ \A q \in SwapChains \ {p} : processors'[q] = f[q]
  BY <1>4, <1>7, <1>9 DEF Processed
<1>12. /\ callback'.at = at /\ callback'.generation = callback.generation
       /\ callback'.chain = p /\ callback'.holds = held
  BY <1>2, CallbackBecomes DEF IndInv, Types
<1>13. Callbacks'
  <2>1. CallbackCounted'
    BY <1>3, <1>8, <1>12 DEF CallbackCounted, AssignSites, UnassignSites
  <2>2. CallbackHolds'
    <3>1. CASE ~stays
      BY <1>4, <1>12, <3>1 DEF CallbackHolds, AssignSites, UnassignSites
    <3>2. CASE stays /\ Active = {}
      BY <1>4, <1>12, <3>2 DEF CallbackHolds, AssignSites, UnassignSites
    <3>3. CASE stays /\ Active # {}
      <4>1. PICK q \in SwapChains : Active = {q}
        BY <1>3, <3>3 DEF Active, MonitorRecord
      <4> QED
        BY <1>4, <1>12, <3>3, <4>1 DEF CallbackHolds, AssignSites, UnassignSites
    <3> QED
      BY <3>1, <3>2, <3>3
  <2> QED
    BY <1>1, <1>3, <1>8, <1>12, <2>1, <2>2, CallbackStep DEF Rest
<1>14. Processors'
  <2>1. ASSUME NEW q \in SwapChains PROVE IsProcessor(processors'[q]) /\ Undecided(q)'
    <3>1. IsProcessor(processors'[q])
      BY <1>9, <1>10, <1>11
    <3>2. Undecided(q)'
      BY <1>10, <1>11, <1>12 DEF Undecided
    <3> QED
      BY <3>1, <3>2
  <2> QED
    BY <1>11, <2>1 DEF Processors, IsProcessor
<1>15. Ownership'
  <2>1. /\ \A q : Held(q)' <=> Held(q)
        /\ Taken = {p} /\ Taken' = held
        /\ Active' = (IF stays THEN {p} ELSE Active)
        /\ \A q : q \in Retired' <=> q \in Retired /\ q \notin collected
    BY <1>1, <1>4, <1>8, <1>12 DEF Held, Active, Retired, Taken
  <2>2. \A q \in collected : q \in Retired /\ Ended(q)
    BY <1>8 DEF Retired
  <2> HIDE DEF collected
  <2>3. \A q \in SwapChains : Exists(q)' <=> Exists(q) /\ q \notin collected
    <3>1. ASSUME NEW q \in SwapChains PROVE Existing(processors'[q]) <=> Existing(processors[q]) /\ q \notin collected
      BY <1>4, <1>6, <1>9, <1>10, <1>11, <2>2
    <3> QED
      BY <3>1 DEF Exists, Existing
  <2>4. ASSUME NEW q \in SwapChains PROVE OneOwner(q)'
    <3>1. OneOwner(q)
      BY DEF Rest, Ownership
    <3> HIDE DEF p
    <3>2. CASE stays
      BY <1>1, <2>1, <2>2, <2>3, <3>1, <3>2 DEF OneOwner
    <3>3. CASE ~stays
      BY <1>1, <2>1, <2>2, <2>3, <3>1, <3>3 DEF OneOwner, collected
    <3> QED
      BY <3>2, <3>3
  <2> QED
    BY <2>4 DEF Ownership
<1> QED
  BY <1>13, <1>14, <1>15 DEF Rest

LEMMA AssignRetiresRest ==
  ASSUME IndInv, Rest, AssignRetires
  PROVE  Rest'
<1> DEFINE q == CHOOSE q \in callback.holds : TRUE
           stays == Is(callback.generation) /\ ~monitor.departing
           r == IF stays THEN RequestStop(processors[q]) ELSE Decide(RequestStop(processors[q]), FALSE)
<1>1. /\ callback.at = "retire"
      /\ callback' = [callback EXCEPT !.at = "leave", !.holds = {}]
      /\ UNCHANGED <<threads, departing, up, leaked>>
  BY DEF AssignRetires, calls, os
<1>2. /\ callback.generation \in Generations /\ Is(callback.generation)
      /\ Begun(threads[callback.generation])
      /\ monitor \in MonitorRecord /\ monitor.generation = callback.generation
      /\ monitor.assigns = 1 /\ monitor.unassigns = 0
  BY <1>1, CallbackAbout DEF AssignSites, UnassignSites
<1>3. callback.chain \in SwapChains
  BY <1>1 DEF Rest, Callbacks, CallbackHolds, AssignSites
<1>4. q \in SwapChains /\ callback.holds = {q}
  <2>1. PICK c \in SwapChains : callback.holds = {c}
    BY <1>1 DEF Rest, Callbacks, CallbackHolds
  <2>2. q = c
    BY <2>1
  <2> QED
    BY <2>1, <2>2
<1>5. /\ processors' = [processors EXCEPT ![q] = r]
      /\ monitor' = IF stays THEN [monitor EXCEPT !.retired = monitor.retired \cup {q}] ELSE monitor
      /\ deferred' = IF stays THEN deferred ELSE deferred \cup {q}
  BY Zenon DEF AssignRetires
<1> HIDE DEF q
<1>6. /\ monitor' \in MonitorRecord /\ monitor' # NoMonitor /\ monitor # NoMonitor
      /\ monitor'.generation = monitor.generation /\ monitor'.active = monitor.active
      /\ monitor'.assigns = monitor.assigns /\ monitor'.unassigns = monitor.unassigns
      /\ monitor'.retired = IF stays THEN monitor.retired \cup {q} ELSE monitor.retired
  BY <1>2, <1>4, <1>5, NoMonitorAssumption DEF MonitorRecord
<1>7. /\ callback'.at = "leave" /\ callback'.generation = callback.generation
      /\ callback'.chain = callback.chain /\ callback'.holds = {}
  BY <1>1, CallbackBecomes DEF IndInv, Types
<1>8. IsProcessor(r) /\ (Existing(r) <=> Existing(processors[q]))
  <2>1. IsProcessor(processors[q])
    BY <1>4 DEF Rest, Processors
  <2> DEFINE s == RequestStop(processors[q])
  <2>2. /\ IsProcessor(s) /\ s.worker = processors[q].worker
        /\ s.destroyed = processors[q].destroyed
    BY <2>1, StoppingRecord
  <2>3. CASE stays
    <3>1. r = s
      BY <2>3
    <3> QED
      BY <2>2, <3>1 DEF Existing
  <2>4. CASE ~stays
    <3>1. r = Decide(s, FALSE)
      BY <2>4
    <3> HIDE DEF s
    <3>2. IsProcessor(r) /\ r.worker = s.worker /\ r.destroyed = s.destroyed
      BY <2>2, <3>1, DecidedRecord
    <3> QED
      BY <2>2, <3>2 DEF Existing
  <2> QED
    BY <2>3, <2>4
<1> HIDE DEF r
<1>9. /\ processors' = [c \in SwapChains |-> processors'[c]]
      /\ processors'[q] = r
      /\ \A c \in SwapChains \ {q} : processors'[c] = processors[c]
  BY <1>4, <1>5 DEF Rest, Processors
<1>10. Callbacks'
  <2>1. CallbackCounted'
    BY <1>2, <1>6, <1>7 DEF CallbackCounted, AssignSites, UnassignSites
  <2>2. CallbackHolds'
    BY <1>3, <1>7 DEF CallbackHolds, AssignSites, UnassignSites
  <2> QED
    BY <1>1, <1>2, <1>6, <1>7, <2>1, <2>2, CallbackStep DEF Rest
<1>11. Processors'
  <2>1. ASSUME NEW c \in SwapChains PROVE IsProcessor(processors'[c]) /\ Undecided(c)'
    BY <1>7, <1>8, <1>9 DEF Rest, Processors, Undecided
  <2> QED
    BY <1>9, <2>1 DEF Processors, IsProcessor
<1>12. Ownership'
  <2>1. /\ \A c : Held(c)' <=> Held(c)
        /\ Taken = {q} /\ Taken' = {} /\ Active' = Active
        /\ \A c : c \in Retired' <=> c \in Retired \/ (stays /\ c = q)
        /\ \A c : c \in deferred' <=> c \in deferred \/ (~stays /\ c = q)
    BY <1>1, <1>4, <1>5, <1>6, <1>7 DEF Held, Active, Retired, Taken
  <2>2. \A c \in SwapChains : Exists(c)' <=> Exists(c)
    <3>1. ASSUME NEW c \in SwapChains PROVE Existing(processors'[c]) <=> Existing(processors[c])
      BY <1>8, <1>9
    <3> QED
      BY <3>1 DEF Exists, Existing
  <2> HIDE DEF stays
  <2>3. ASSUME NEW c \in SwapChains PROVE OneOwner(c)'
    <3>1. OneOwner(c)
      BY DEF Rest, Ownership
    <3> QED
      BY <1>1, <2>1, <2>2, <3>1 DEF OneOwner
  <2> QED
    BY <2>3 DEF Ownership
<1> QED
  BY <1>10, <1>11, <1>12 DEF Rest

\* The callbacks that end.
LEMMA CallbackLeavesRest ==
  ASSUME IndInv, Rest, AssignLeaves \/ UnassignLeaves
  PROVE  Rest'
<1>1. /\ callback.at \in {"leave", "leaveUnassign"} /\ callback' = NoCallback
      /\ UNCHANGED <<threads, departing, up, processors, deferred, leaked>>
  BY DEF AssignLeaves, UnassignLeaves, calls, os
<1>2. /\ callback.generation \in Generations /\ Is(callback.generation)
      /\ Begun(threads[callback.generation])
      /\ monitor \in MonitorRecord /\ monitor.generation = callback.generation
      /\ monitor.assigns = IF callback.at = "leave" THEN 1 ELSE 0
      /\ monitor.unassigns = IF callback.at = "leave" THEN 0 ELSE 1
  BY <1>1, CallbackAbout DEF AssignSites, UnassignSites
<1>3. /\ monitor' \in MonitorRecord /\ monitor'.generation = monitor.generation
      /\ monitor'.assigns = 0 /\ monitor'.unassigns = 0
      /\ monitor'.active = monitor.active /\ monitor'.retired = monitor.retired
  <2>1. CASE callback.at = "leave"
    <3>1. monitor' = [monitor EXCEPT !.assigns = 0]
      BY <1>2, <2>1 DEF AssignLeaves, UnassignLeaves
    <3> QED
      BY <1>2, <2>1, <3>1 DEF MonitorRecord
  <2>2. CASE callback.at = "leaveUnassign"
    <3>1. monitor' = [monitor EXCEPT !.unassigns = 0]
      BY <1>2, <2>2 DEF AssignLeaves, UnassignLeaves
    <3> QED
      BY <1>2, <2>2, <3>1 DEF MonitorRecord
  <2> QED
    BY <1>1, <2>1, <2>2
<1>4. callback'.at = "none" /\ callback'.holds = {} /\ callback.holds = {}
  BY <1>1 DEF NoCallback, Rest, Callbacks, CallbackHolds
<1>5. Callbacks'
  <2>1. CallbackCounted'
    BY <1>3, <1>4 DEF CallbackCounted, AssignSites, UnassignSites
  <2>2. CallbackHolds'
    BY <1>4 DEF CallbackHolds, AssignSites, UnassignSites
  <2> QED
    BY <1>1, <1>2, <1>3, <1>4, <2>1, <2>2, NoMonitorAssumption, CallbackStep DEF Rest
<1>6. Processors'
  BY <1>1, <1>4 DEF Rest, Processors, IsProcessor, Undecided
<1>7. Ownership'
  <2>1. Active' = Active /\ Retired' = Retired
    BY <1>2, <1>3, NoMonitorAssumption DEF Active, Retired
  <2>2. Taken = {} /\ Taken' = {} /\ \A q : Held(q)' <=> Held(q)
    BY <1>1, <1>4 DEF Taken, Held
  <2>3. \A q : Exists(q)' <=> Exists(q)
    BY <1>1 DEF Exists
  <2>4. ASSUME NEW q \in SwapChains PROVE OneOwner(q)'
    <3>1. OneOwner(q)
      BY DEF Rest, Ownership
    <3> QED
      BY <1>1, <2>1, <2>2, <2>3, <3>1 DEF OneOwner
  <2> QED
    BY <2>4 DEF Ownership
<1> QED
  BY <1>5, <1>6, <1>7 DEF Rest

LEMMA UnassignBeginsRest ==
  ASSUME IndInv, Rest, NEW g \in Generations, UnassignBegins(g)
  PROVE  Rest'
<1> DEFINE held == Active \cup monitor.retired
           more == [monitor EXCEPT !.unassigns = monitor.unassigns + 1]
           bare == [more EXCEPT !.active = NoChain]
<1>1. /\ callback.at = "none" /\ g \in up /\ Is(g) /\ ~monitor.departing
      /\ monitor' = [bare EXCEPT !.retired = {}]
      /\ processors' = StopAll(held)
      /\ callback' = [at |-> "unassign", generation |-> g, chain |-> NoChain, holds |-> held]
      /\ UNCHANGED <<threads, departing, up, deferred, leaked>>
  BY DEF UnassignBegins, NotLeaving, calls, os
<1>2. /\ Begun(threads[g]) /\ monitor \in MonitorRecord /\ monitor.generation = g
      /\ monitor.assigns = 0 /\ monitor.unassigns = 0
      /\ callback.holds = {} /\ Taken = {}
  BY <1>1, CallbackOn
<1>3. /\ monitor' \in MonitorRecord /\ monitor'.generation = g
      /\ monitor'.assigns = 0 /\ monitor'.unassigns = 1
      /\ monitor'.active = NoChain /\ monitor'.retired = {}
  <2>1. /\ more \in MonitorRecord /\ more.generation = g /\ more.assigns = 0 /\ more.unassigns = 1
    BY <1>2 DEF MonitorRecord
  <2> HIDE DEF more
  <2>2. /\ bare \in MonitorRecord /\ bare.generation = g /\ bare.assigns = 0 /\ bare.unassigns = 1
        /\ bare.active = NoChain
    BY <2>1 DEF MonitorRecord
  <2> HIDE DEF bare
  <2> QED
    BY <1>1, <2>2 DEF MonitorRecord
<1>4. monitor # NoMonitor /\ monitor' # NoMonitor
  BY <1>2, <1>3, NoMonitorAssumption
<1>5. callback'.at = "unassign" /\ callback'.generation = g /\ callback'.holds = held
  BY <1>1
<1>6. Callbacks'
  <2>1. CallbackCounted'
    BY <1>3, <1>5 DEF CallbackCounted, AssignSites, UnassignSites
  <2>2. CallbackHolds'
    BY <1>5 DEF CallbackHolds, AssignSites, UnassignSites
  <2> QED
    BY <1>1, <1>2, <1>3, <1>4, <1>5, <2>1, <2>2, CallbackStep DEF Rest
<1>7. /\ Processed(processors')
      /\ \A q \in SwapChains : /\ IsProcessor(processors'[q]) /\ Gently(processors[q], processors'[q])
                               /\ Existing(processors'[q]) <=> Existing(processors[q])
  BY <1>1, StopAllFacts DEF Rest
<1>8. Processors'
  BY <1>5, <1>7, ProcessorsKept DEF Rest
<1>9. Ownership'
  <2>1. /\ \A q : Held(q)' <=> Held(q)
        /\ Taken' = Active \cup Retired /\ Active' = {} /\ Retired' = {}
    BY <1>1, <1>3, <1>4, <1>5 DEF Held, Active, Retired, Taken
  <2>2. \A q \in SwapChains : Exists(q)' <=> Exists(q)
    BY <1>7 DEF Exists, Existing
  <2>3. ASSUME NEW q \in SwapChains PROVE OneOwner(q)'
    <3>1. OneOwner(q)
      BY DEF Rest, Ownership
    <3> QED
      BY <1>1, <1>2, <2>1, <2>2, <3>1 DEF OneOwner
  <2> QED
    BY <2>3 DEF Ownership
<1> QED
  BY <1>6, <1>8, <1>9 DEF Rest

LEMMA UnassignStopsRest ==
  ASSUME IndInv, Rest, NEW timedOut \in BOOLEAN, UnassignStops(timedOut)
  PROVE  Rest'
<1>1. /\ callback.at = "unassign"
      /\ processors' = DestroyEnded(callback.holds)
      /\ monitor' = [monitor EXCEPT !.retired = monitor.retired \cup {q \in callback.holds : ~Ended(q)}]
      /\ callback' = [callback EXCEPT !.at = "leaveUnassign", !.holds = {}]
      /\ UNCHANGED <<threads, departing, up, deferred, leaked>>
  BY DEF UnassignStops, calls, os
<1>2. /\ callback.generation \in Generations /\ Is(callback.generation)
      /\ Begun(threads[callback.generation])
      /\ monitor \in MonitorRecord /\ monitor.generation = callback.generation
      /\ monitor.assigns = 0 /\ monitor.unassigns = 1
  BY <1>1, CallbackAbout DEF AssignSites, UnassignSites
<1>3. callback.holds \subseteq SwapChains
  BY DEF IndInv, Types, IsCallback
<1>4. /\ monitor' \in MonitorRecord /\ monitor'.generation = monitor.generation
      /\ monitor'.assigns = 0 /\ monitor'.unassigns = 1 /\ monitor'.active = monitor.active
      /\ monitor'.retired = monitor.retired \cup {q \in callback.holds : ~Ended(q)}
  BY <1>1, <1>2, <1>3 DEF MonitorRecord
<1>5. monitor # NoMonitor /\ monitor' # NoMonitor
  BY <1>2, <1>4, NoMonitorAssumption
<1>6. /\ callback'.at = "leaveUnassign" /\ callback'.generation = callback.generation
      /\ callback'.chain = callback.chain /\ callback'.holds = {}
  BY <1>1, CallbackBecomes DEF IndInv, Types
<1>7. Callbacks'
  <2>1. CallbackCounted'
    BY <1>4, <1>6 DEF CallbackCounted, AssignSites, UnassignSites
  <2>2. CallbackHolds'
    BY <1>6 DEF CallbackHolds, AssignSites, UnassignSites
  <2> QED
    BY <1>1, <1>2, <1>4, <1>5, <1>6, <2>1, <2>2, CallbackStep DEF Rest
<1>8. /\ Processed(processors')
      /\ \A q \in SwapChains :
             /\ IsProcessor(processors'[q]) /\ Gently(processors[q], processors'[q])
             /\ Existing(processors'[q]) <=> Existing(processors[q]) /\ ~(q \in callback.holds /\ Ended(q))
  BY <1>1, DestroyEndedFacts DEF Rest
<1>9. Processors'
  BY <1>6, <1>8, ProcessorsKept DEF Rest
<1>10. Ownership'
  <2>1. /\ \A q : Held(q)' <=> Held(q)
        /\ Taken = callback.holds /\ Taken' = {} /\ Active' = Active
        /\ \A q : q \in Retired' <=> q \in Retired \/ (q \in Taken /\ ~Ended(q))
    BY <1>1, <1>4, <1>5, <1>6 DEF Held, Active, Retired, Taken
  <2>2. \A q \in SwapChains : Exists(q)' <=> Exists(q) /\ ~(q \in Taken /\ Ended(q))
    BY <1>8, <2>1 DEF Exists, Existing
  <2>3. ASSUME NEW q \in SwapChains PROVE OneOwner(q)'
    <3>1. OneOwner(q)
      BY DEF Rest, Ownership
    <3> QED
      BY <1>1, <2>1, <2>2, <3>1 DEF OneOwner
  <2> QED
    BY <2>3 DEF Ownership
<1> QED
  BY <1>7, <1>9, <1>10 DEF Rest

\* With no callback in flight there is none at all.
LEMMA NoneInFlight ==
  ASSUME Rest, monitor \in MonitorRecord, ~CallbacksInFlight
  PROVE  callback.at = "none" /\ monitor.assigns = 0 /\ monitor.unassigns = 0
<1>1. /\ monitor.assigns = IF callback.at \in AssignSites THEN 1 ELSE 0
      /\ monitor.unassigns = IF callback.at \in UnassignSites THEN 1 ELSE 0
  BY NoMonitorAssumption DEF Rest, Callbacks, CallbackCounted
<1>2. ~(monitor.assigns + monitor.unassigns > 0)
  BY DEF CallbacksInFlight
<1>3. callback.at \notin AssignSites /\ callback.at \notin UnassignSites
  BY <1>1, <1>2 DEF AssignSites, UnassignSites
<1> QED
  BY <1>1, <1>3 DEF Rest, Callbacks, CallbackHolds

\* A step of a departure with no callback in progress.
LEMMA DepartureStep ==
  ASSUME IndInv, Callbacks, NEW t \in Threads, Moved(t), callback.at = "none",
         monitor' # NoMonitor => monitor'.assigns = 0 /\ monitor'.unassigns = 0,
         \A o \in Threads : Emptied(o)',
         \A o \in Threads, g \in Generations : Calling(o, g)' => NothingHeld',
         t \in Generations /\ Begun(threads[t]) => Begun(threads'[t]),
         \A g \in Generations : Is(g)' /\ ~Begun(threads'[g]) => NothingHeld',
         UNCHANGED <<up, callback>>
  PROVE  Callbacks'
<1>1. CallbackServed' /\ CallbackCounted' /\ CallbackHolds'
  BY DEF Callbacks, CallbackServed, CallbackCounted, CallbackHolds, AssignSites, UnassignSites
<1>2. ASSUME NEW g \in Generations, Begun(threads[g]) PROVE Begun(threads'[g])
  BY <1>2 DEF Moved, Threads
<1>3. \A g \in up' : Begun(threads[g])'
  BY <1>2 DEF Callbacks, Begun, BeforeInsert
<1>4. \A g \in Generations : (Is(g) /\ ~Begun(threads[g]) => NothingHeld)'
  BY DEF Begun, BeforeInsert
<1> QED
  BY <1>1, <1>3, <1>4 DEF Callbacks

LEMMA DepartTakesRest ==
  ASSUME IndInv, Rest, NEW t \in Threads, DepartTakes(t)
  PROVE  Rest'
<1> DEFINE held == Active \cup monitor.retired
           x == MarkedFor(threads[t], "stopping", monitor.generation)
           y == HoldingOn(x, monitor.active, held)
           m == Bared(monitor)
<1>1. /\ MayDepart(t) \/ threads[t].at = "awaitCallbacks"
      /\ ~CallbacksInFlight /\ processors' = StopAll(held)
      /\ UNCHANGED <<departing, up, callback, deferred, leaked>>
  BY DEF DepartTakes, os
<1>2. threads' = [threads EXCEPT ![t] = y]
  BY Zenon DEF DepartTakes, MarkedFor, HoldingOn
<1>3. monitor' = m
  BY Zenon DEF DepartTakes, Bared
<1>4. /\ threads[t].at \in {"depart", "awaitCallbacks"} /\ monitor # NoMonitor
      /\ \A o \in Threads \ {t} : ~Leaves(o)
      /\ \A o \in Threads, h \in Generations : ~Calling(o, h)
  <2>1. CASE MayDepart(t)
    BY <2>1, MayDepartAlone DEF IndInv
  <2>2. CASE threads[t].at = "awaitCallbacks"
    <3>1. Leaves(t)
      BY <2>2 DEF Leaves
    <3> QED
      BY <2>2, <3>1, OnlyLeaver DEF IndInv, Is
  <2> QED
    BY <1>1, <2>1, <2>2
<1>5. monitor \in MonitorRecord /\ monitor.generation \in 0..MaxGeneration
  BY <1>4, MonitorGeneration DEF IndInv
<1>6. /\ monitor.active \in SwapChains \cup {NoChain} /\ monitor.retired \in SUBSET SwapChains
      /\ held = Active \cup Retired
  BY <1>4, <1>5 DEF MonitorRecord, Retired
<1>7. held \in SUBSET SwapChains
  BY <1>6 DEF Active
<1>8. monitor.active \in held \cup {NoChain}
  BY <1>4 DEF Active
<1> HIDE DEF held
<1>9. IsThread(threads[t])
  BY DEF IndInv, Types, ThreadsTyped
<1>10. IsThread(x) /\ x.at = "stopping" /\ x.then = threads[t].then
  BY <1>5, <1>9, MarkedForRecord
<1> HIDE DEF x
<1>11. /\ IsThread(y) /\ y.at = "stopping" /\ y.then = threads[t].then
       /\ y.active = monitor.active /\ y.holds = held
  BY <1>6, <1>7, <1>10, HoldingOnRecord
<1> HIDE DEF y
<1>12. Moved(t) /\ threads'[t] = y
  BY <1>2, <1>11, ThreadBecomes DEF IndInv, Types
<1>13. callback.at = "none" /\ monitor.assigns = 0 /\ monitor.unassigns = 0
  BY <1>1, <1>5, NoneInFlight
<1>14. /\ monitor' # NoMonitor /\ monitor'.active = NoChain /\ monitor'.retired = {}
       /\ monitor'.assigns = 0 /\ monitor'.unassigns = 0
  BY <1>3, <1>5, <1>13, BaredRecord
<1> HIDE DEF m
<1>15. NothingHeld' /\ Active' = {} /\ Retired' = {}
  BY <1>14 DEF NothingHeld, Active, Retired
<1>16. Callbacks'
  <2>1. ASSUME NEW o \in Threads PROVE Emptied(o)'
    <3>1. CASE o = t
      BY <1>1, <1>8, <1>11, <1>12, <1>13, <1>15, <3>1 DEF Emptied
    <3>2. CASE o # t
      <4>1. threads'[o] = threads[o] /\ threads[o].at # "stopping"
        BY <1>4, <1>12, <3>2 DEF Moved, Leaves
      <4> QED
        BY <4>1 DEF Rest, Callbacks, Emptied
    <3> QED
      BY <3>1, <3>2
  <2>2. Begun(threads[t]) => Begun(threads'[t])
    BY <1>4, <1>11, <1>12 DEF Begun, BeforeInsert, DepartSites
  <2> QED
    BY <1>1, <1>12, <1>13, <1>14, <1>15, <2>1, <2>2, DepartureStep DEF Rest
<1>17. /\ Processed(processors')
       /\ \A q \in SwapChains : /\ IsProcessor(processors'[q]) /\ Gently(processors[q], processors'[q])
                                /\ Existing(processors'[q]) <=> Existing(processors[q])
  BY <1>1, StopAllFacts DEF Rest
<1>18. Processors'
  BY <1>1, <1>17, ProcessorsKept DEF Rest
<1>19. Ownership'
  <2>1. threads[t].holds = {}
    BY <1>4, HoldsNothing
  <2>2. \A o \in Threads : threads'[o].holds = IF o = t THEN held ELSE threads[o].holds
    BY <1>11, <1>12 DEF Moved
  <2>3. \A q : Held(q)' <=> Held(q) \/ q \in held
    BY <2>1, <2>2 DEF Held
  <2>4. \A q \in SwapChains : Exists(q)' <=> Exists(q)
    BY <1>17 DEF Exists, Existing
  <2>5. Taken' = Taken
    BY <1>1 DEF Taken
  <2>6. ASSUME NEW q \in SwapChains PROVE OneOwner(q)'
    <3>1. OneOwner(q)
      BY DEF Rest, Ownership
    <3> QED
      BY <1>1, <1>6, <1>15, <2>3, <2>4, <2>5, <3>1 DEF OneOwner
  <2> QED
    BY <2>6 DEF Ownership
<1> QED
  BY <1>16, <1>18, <1>19 DEF Rest

\* What a thread that stops its processors has around it.
LEMMA StopperFacts ==
  ASSUME IndInv, Rest, NEW t \in Threads, threads[t].at = "stopping"
  PROVE  /\ Is(threads[t].generation) /\ monitor \in MonitorRecord
         /\ monitor.assigns = 0 /\ monitor.unassigns = 0
         /\ callback.at = "none" /\ NothingHeld
         /\ \A o \in Threads \ {t} : threads[o].at # "stopping" /\ threads[o].holds = {}
         /\ \A o \in Threads, h \in Generations : ~Calling(o, h)
         /\ \A q : Held(q) <=> q \in threads[t].holds
         /\ \A g \in Generations : Is(g) => Begun(threads[g])
<1>1. Leaves(t)
  BY DEF Leaves
<1>2. /\ Is(threads[t].generation) /\ monitor \in MonitorRecord
      /\ \A o \in Threads \ {t} : ~Leaves(o)
      /\ \A o \in Threads, h \in Generations : ~Calling(o, h)
      /\ \A h \in Generations : ~ArrivalWorks(h)
  BY <1>1, OnlyLeaver DEF IndInv
<1>3. callback.at = "none" /\ NothingHeld
  BY DEF Rest, Callbacks, Emptied
<1>4. monitor.assigns = 0 /\ monitor.unassigns = 0
  BY <1>2, <1>3 DEF Rest, Callbacks, CallbackCounted, AssignSites, UnassignSites, Is
<1>5. \A o \in Threads \ {t} : threads[o].at # "stopping" /\ threads[o].holds = {}
  BY <1>2, HoldsNothing DEF Leaves
<1>6. \A q : Held(q) <=> q \in threads[t].holds
  BY <1>5 DEF Held
<1>7. ASSUME NEW g \in Generations, Is(g) PROVE Begun(threads[g])
  BY <1>2, <1>7 DEF IndInv, Reports, Reported, Begun, ArrivalWorks
<1> QED
  BY <1>2, <1>3, <1>4, <1>5, <1>6, <1>7

LEMMA DepartCallsRest ==
  ASSUME IndInv, Rest, NEW t \in Threads, DepartCalls(t)
  PROVE  Rest'
<1> DEFINE x == [threads[t] EXCEPT !.at = "awaitDeparture"]
           y == HoldingOn(x, NoChain, {})
<1>1. /\ threads[t].at = "stopping"
      /\ \A p \in threads[t].holds : Ended(p)
      /\ processors' = DestroyEnded(threads[t].holds)
      /\ UNCHANGED <<monitor, up, callback, deferred, leaked>>
  BY DEF DepartCalls, os
<1>2. threads' = [threads EXCEPT ![t] = y]
  BY Zenon DEF DepartCalls, HoldingOn
<1>3. /\ callback.at = "none" /\ NothingHeld
      /\ monitor.assigns = 0 /\ monitor.unassigns = 0
      /\ \A o \in Threads \ {t} : threads[o].at # "stopping" /\ threads[o].holds = {}
      /\ \A q : Held(q) <=> q \in threads[t].holds
  BY <1>1, StopperFacts
<1>4. IsThread(threads[t])
  BY DEF IndInv, Types, ThreadsTyped
<1>5. IsThread(x) /\ x.at = "awaitDeparture" /\ x.then = threads[t].then
  BY <1>4, ThreadAt
<1> HIDE DEF x
<1>6. /\ IsThread(y) /\ y.at = "awaitDeparture" /\ y.then = threads[t].then
      /\ y.active = NoChain /\ y.holds = {}
  <2>1. NoChain \in SwapChains \cup {NoChain} /\ {} \in SUBSET SwapChains
    OBVIOUS
  <2> QED
    BY <1>5, <2>1, HoldingOnRecord
<1> HIDE DEF y
<1>7. Moved(t) /\ threads'[t] = y
  BY <1>2, <1>6, ThreadBecomes DEF IndInv, Types
<1>8. NothingHeld'
  BY <1>1, <1>3 DEF NothingHeld
<1>9. \A o \in Threads : threads'[o].at # "stopping" /\ threads'[o].holds = {}
  BY <1>3, <1>6, <1>7 DEF Moved
<1>10. Callbacks'
  <2>1. ASSUME NEW o \in Threads PROVE Emptied(o)'
    <3>1. threads'[o].active \in threads'[o].holds \cup {NoChain}
      BY <1>6, <1>7, <1>9 DEF Moved, Rest, Callbacks, Emptied
    <3> QED
      BY <1>9, <3>1 DEF Emptied
  <2>2. Begun(threads[t]) => Begun(threads'[t])
    BY <1>1, <1>6, <1>7 DEF Begun, BeforeInsert, DepartSites
  <2> QED
    BY <1>1, <1>3, <1>7, <1>8, <2>1, <2>2, DepartureStep DEF Rest
<1>11. /\ Processed(processors')
       /\ \A q \in SwapChains :
              /\ IsProcessor(processors'[q]) /\ Gently(processors[q], processors'[q])
              /\ Existing(processors'[q]) <=> Existing(processors[q]) /\ ~(q \in threads[t].holds /\ Ended(q))
  BY <1>1, DestroyEndedFacts DEF Rest
<1>12. Processors'
  BY <1>1, <1>11, ProcessorsKept DEF Rest
<1>13. Ownership'
  <2>1. \A q : ~Held(q)'
    BY <1>9 DEF Held
  <2>2. \A q \in SwapChains : Exists(q)' <=> Exists(q) /\ ~Held(q)
    BY <1>1, <1>3, <1>11 DEF Exists, Existing
  <2>3. Taken' = Taken /\ Active' = Active /\ Retired' = Retired
    BY <1>1 DEF Taken, Active, Retired
  <2>4. ASSUME NEW q \in SwapChains PROVE OneOwner(q)'
    <3>1. OneOwner(q)
      BY DEF Rest, Ownership
    <3> QED
      BY <1>1, <2>1, <2>2, <2>3, <3>1 DEF OneOwner
  <2> QED
    BY <2>4 DEF Ownership
<1> QED
  BY <1>10, <1>12, <1>13 DEF Rest

LEMMA DepartGivesBackRest ==
  ASSUME IndInv, Rest, NEW t \in Threads, DepartGivesBack(t)
  PROVE  Rest'
<1> DEFINE m == Refilled(monitor, ActiveAgain(t), RetiredAgain(t))
<1>1. /\ threads[t].at = "stopping" /\ AnswersDeparture(t, "Failed")
      /\ processors' = DestroyEnded(threads[t].holds)
      /\ UNCHANGED <<departing, up, callback, deferred, leaked>>
  BY DEF DepartGivesBack, os
<1>2. monitor' = m
  BY Zenon DEF DepartGivesBack, Refilled, ActiveAgain, RetiredAgain, StillAlive
<1>3. /\ Is(threads[t].generation) /\ monitor \in MonitorRecord
      /\ callback.at = "none" /\ NothingHeld
      /\ monitor.assigns = 0 /\ monitor.unassigns = 0
      /\ \A o \in Threads \ {t} : threads[o].at # "stopping" /\ threads[o].holds = {}
      /\ \A o \in Threads, h \in Generations : ~Calling(o, h)
      /\ \A q : Held(q) <=> q \in threads[t].holds
      /\ \A g \in Generations : Is(g) => Begun(threads[g])
  BY <1>1, StopperFacts
<1>4. threads[t].holds \subseteq SwapChains /\ threads[t].active \in threads[t].holds \cup {NoChain}
  BY DEF IndInv, Types, ThreadsTyped, IsThread, Rest, Callbacks, Emptied
<1>5. ActiveAgain(t) \in SwapChains \cup {NoChain} /\ RetiredAgain(t) \in SUBSET SwapChains
  BY <1>3, <1>4 DEF ActiveAgain, RetiredAgain, StillAlive, NothingHeld
<1>6. /\ monitor' # NoMonitor /\ monitor'.generation = monitor.generation
      /\ monitor'.assigns = 0 /\ monitor'.unassigns = 0
      /\ monitor'.active = ActiveAgain(t) /\ monitor'.retired = RetiredAgain(t)
  <2>1. monitor \in MonitorRecord
    BY <1>3
  <2>2. PICK a \in SwapChains \cup {NoChain}, r \in SUBSET SwapChains :
            a = ActiveAgain(t) /\ r = RetiredAgain(t)
    BY <1>5
  <2>3. m = Refilled(monitor, a, r)
    BY <2>2
  <2> HIDE DEF m
  <2>4. /\ m # NoMonitor /\ m.generation = monitor.generation
        /\ m.assigns = monitor.assigns /\ m.unassigns = monitor.unassigns
        /\ m.active = a /\ m.retired = r
    BY <2>1, <2>3, RefilledRecord
  <2> QED
    BY <1>2, <1>3, <2>2, <2>4
<1> HIDE DEF m
<1>7. /\ Moved(t) /\ threads'[t].at = Onward(threads[t], "Failed")
      /\ threads'[t].active = NoChain /\ threads'[t].holds = {}
  BY <1>1, GoingOn DEF IndInv, Types
<1>8. threads[t].then \in IF t \in Generations THEN {"create", "finish"} ELSE {"idle", "departed"}
  BY <1>1 DEF IndInv, Reports, ThenFits, DepartSites
<1>9. threads'[t].at \in {"create", "finish", "idle", "departed", "failed"}
  BY <1>7, <1>8 DEF Onward
<1>10. \A o \in Threads : threads'[o].at # "stopping" /\ threads'[o].holds = {}
  BY <1>3, <1>7, <1>9 DEF Moved
<1>11. t \in Generations /\ Begun(threads[t]) => Begun(threads'[t])
  <2>1. SUFFICES ASSUME t \in Generations, Begun(threads[t]) PROVE Begun(threads'[t])
    OBVIOUS
  <2>2. threads[t].then = "finish"
    BY <1>1, <1>8, <2>1 DEF Begun, BeforeInsert, DepartSites
  <2>3. threads'[t].at = "finish"
    BY <1>7, <2>2 DEF Onward
  <2> QED
    BY <2>3 DEF Begun, BeforeInsert, DepartSites
<1>12. Callbacks'
  <2>1. ASSUME NEW o \in Threads PROVE Emptied(o)'
    <3>1. threads'[o].active \in threads'[o].holds \cup {NoChain}
      BY <1>7, <1>10 DEF Moved, Rest, Callbacks, Emptied
    <3> QED
      BY <1>10, <3>1 DEF Emptied
  <2>2. \A o \in Threads, g \in Generations : ~Calling(o, g)'
    BY <1>1, <1>3 DEF Calling
  <2>3. ASSUME NEW g \in Generations, Is(g)' PROVE Begun(threads'[g])
    <3>1. Begun(threads[g])
      BY <1>3, <1>6, <2>3 DEF Is
    <3> QED
      BY <1>7, <1>11, <3>1 DEF Moved, Threads
  <2> QED
    BY <1>1, <1>3, <1>6, <1>7, <1>11, <2>1, <2>2, <2>3, DepartureStep DEF Rest
<1>13. /\ Processed(processors')
       /\ \A q \in SwapChains :
              /\ IsProcessor(processors'[q]) /\ Gently(processors[q], processors'[q])
              /\ Existing(processors'[q]) <=> Existing(processors[q]) /\ ~(q \in threads[t].holds /\ Ended(q))
  BY <1>1, DestroyEndedFacts DEF Rest
<1>14. Processors'
  BY <1>1, <1>13, ProcessorsKept DEF Rest
<1>15. Ownership'
  <2>1. \A q : ~Held(q)'
    BY <1>10 DEF Held
  <2>2. \A q \in SwapChains : Exists(q)' <=> Exists(q) /\ ~(Held(q) /\ Ended(q))
    BY <1>3, <1>13 DEF Exists, Existing
  <2>3. Active = {} /\ Retired = {} /\ Taken' = Taken
    BY <1>1, <1>3 DEF NothingHeld, Active, Retired, Taken
  <2>4. /\ \A q \in SwapChains : q \in Active' <=> Held(q) /\ ~Ended(q) /\ q = threads[t].active
        /\ \A q \in SwapChains : q \in Retired' <=> Held(q) /\ ~Ended(q) /\ q # threads[t].active
    BY <1>3, <1>6, NoChainAssumption DEF Active, Retired, ActiveAgain, RetiredAgain, StillAlive, NothingHeld
  <2>5. ASSUME NEW q \in SwapChains PROVE OneOwner(q)'
    <3>1. OneOwner(q)
      BY DEF Rest, Ownership
    <3> QED
      BY <1>1, <2>1, <2>2, <2>3, <2>4, <3>1 DEF OneOwner
  <2> QED
    BY <2>5 DEF Ownership
<1> QED
  BY <1>12, <1>14, <1>15 DEF Rest

-----------------------------------------------------------------------------
(* The invariant, from the start and from step to step.                    *)

LEMMA InitHolds ==
  ASSUME Init
  PROVE  Inv
<1>1. /\ monitor = NoMonitor /\ arrivals = 0 /\ departures = 0 /\ unhealthy = FALSE
      /\ threads = [t \in Threads |-> Idle]
      /\ arrival = [g \in Generations |-> [done |-> FALSE, timedOut |-> FALSE]]
      /\ departing = [w \in Threads \X Generations |-> "none"]
      /\ render = "none" /\ up = {} /\ registered = {}
      /\ processors = [p \in SwapChains |-> NoProcessor]
      /\ callback = NoCallback /\ deferred = {} /\ leaked = {}
  BY DEF Init
<1>2. /\ Idle.at = "idle" /\ Idle.then = "idle" /\ Idle.active = NoChain /\ Idle.holds = {}
      /\ IsThread(Idle)
  BY IdleThread
<1>3. /\ \A t \in Threads : threads[t] = Idle
      /\ \A g \in Generations : threads[g] = Idle
      /\ \A g : ~Is(g)
      /\ \A t \in Threads, g \in Generations : ~Calling(t, g)
  BY <1>1 DEF Threads, Is, Calling
<1>4. Types
  <2>1. ThreadsTyped
    BY <1>1, <1>2, <1>3 DEF ThreadsTyped
  <2>2. IsCallback(callback)
    BY <1>1, NoCallbackFields
  <2> QED
    BY <1>1, <2>1, <2>2 DEF Types
<1>5. Marks
  <2>1. \A t \in Threads : ~Leaves(t)
    BY <1>2, <1>3 DEF Leaves
  <2>2. \A g \in Generations : ~ArrivalWorks(g)
    BY <1>2, <1>3 DEF ArrivalWorks
  <2> QED
    BY <1>1, <1>3, <2>1, <2>2 DEF Marks, MarkOwned, HasMarked, Leaving
<1>6. Reports
  <2>1. \A t \in Threads : ThenFits(t)
    BY <1>2, <1>3 DEF ThenFits, DepartSites
  <2>2. \A g \in Generations : Reported(g)
    BY <1>1, <1>2, <1>3 DEF Reported, BeforeInsert, Between, AfterReport, DepartSites
  <2>3. ControllerWaits
    BY <1>2, <1>3, NotInGenerations DEF ControllerWaits
  <2> QED
    BY <2>1, <2>2, <2>3 DEF Reports
<1>7. Counts
  <2>1. InFlight = {} /\ Asked = {} /\ ~SomeCalling
    BY <1>2, <1>3 DEF InFlight, Asked, SomeCalling, Landed
  <2>2. Cardinality({}) = 0
    BY FS_EmptySet
  <2>3. 0 \in 0..MaxGeneration /\ {} = 1..0
    BY BoundsAssumption
  <2> QED
    BY <1>1, <2>1, <2>2, <2>3 DEF Counts
<1>8. ModesRegistered
  BY <1>1, <1>2, <1>3 DEF ModesRegistered
<1>9. callback.at = "none" /\ callback.holds = {}
  BY <1>1 DEF NoCallback
<1>10. Callbacks
  <2>1. CallbackServed /\ CallbackCounted /\ CallbackHolds
    BY <1>1, <1>9 DEF CallbackServed, CallbackCounted, CallbackHolds, AssignSites, UnassignSites
  <2>2. \A t \in Threads : Emptied(t)
    BY <1>2, <1>3 DEF Emptied
  <2> QED
    BY <1>1, <1>3, <2>1, <2>2 DEF Callbacks
<1>11. Ownership
  <2>1. Active = {} /\ Retired = {} /\ Taken = {} /\ \A p : ~Held(p)
    BY <1>1, <1>2, <1>3, <1>9 DEF Active, Retired, Taken, Held
  <2>2. \A p \in SwapChains : ~Exists(p)
    BY <1>1 DEF Exists, NoProcessor
  <2> QED
    BY <1>1, <2>1, <2>2 DEF Ownership, OneOwner
<1>12. Processors
  <2>1. IsProcessor(NoProcessor)
    BY DEF IsProcessor, ProcessorRecord, NoProcessor
  <2> QED
    BY <1>1, <1>9, <2>1 DEF Processors, Undecided
<1> QED
  BY <1>4, <1>5, <1>6, <1>7, <1>8, <1>10, <1>11, <1>12 DEF Inv, IndInv

LEMMA DepartStep ==
  ASSUME IndInv, Rest, NEW t \in Threads, Depart(t) \/ DepartTimesOut(t)
  PROVE  IndInv' /\ Rest'
<1>1. CASE \/ DepartAnswersAtOnce(t) \/ DepartMarks(t) \/ DepartEnds(t)
           \/ DepartDetaches(t) \/ DepartGivesUpOnCallbacks(t)
  BY <1>1, DepartAnswersAtOnceKeeps, DepartMarksKeeps, DepartEndsKeeps, DepartDetachesKeeps,
     DepartGivesUpOnCallbacksKeeps, DepartShiftsKeep
<1>2. CASE DepartTakes(t)
  BY <1>2, DepartTakesKeeps, DepartTakesRest
<1>3. CASE DepartCalls(t)
  BY <1>3, DepartCallsKeeps, DepartCallsRest
<1>4. CASE DepartGivesBack(t)
  BY <1>4, DepartGivesBackKeeps, DepartGivesBackRest
<1> QED
  BY <1>1, <1>2, <1>3, <1>4 DEF Depart, DepartTimesOut

LEMMA ArrivalStep ==
  ASSUME IndInv, Rest, NEW g \in Generations,
         \/ Arrival(g) \/ ArrivalCreateFails(g) \/ ArrivalReturns(g, FALSE)
  PROVE  IndInv' /\ Rest'
<1>1. CASE \/ ArrivalHeals(g) \/ ArrivalCreates(g) \/ ArrivalCreateFails(g)
           \/ ArrivalReports(g) \/ ArrivalFinishes(g) \/ ArrivalNotifies(g)
  BY <1>1, ArrivalHealsKeeps, ArrivalCreatesKeeps, ArrivalCreateFailsKeeps, ArrivalReportsKeeps,
     ArrivalFinishesKeeps, ArrivalNotifiesKeeps, ArrivalShiftsKeep
<1>2. CASE ArrivalTags(g) \/ ArrivalSettles(g)
  BY <1>2, ArrivalTagsKeeps, ArrivalSettlesKeeps, ArrivalTouchesKeep
<1>3. CASE ArrivalInserts(g)
  BY <1>3, ArrivalInsertsKeeps, ArrivalInsertsRest
<1>4. CASE \E arrived \in BOOLEAN : ArrivalReturns(g, arrived)
  BY <1>4, ArrivalReturnsKeeps, ArrivalReturnsRest
<1>5. ArrivalReturns(g, TRUE) \/ ArrivalReturns(g, FALSE)
          => \E arrived \in BOOLEAN : ArrivalReturns(g, arrived)
  OBVIOUS
<1> QED
  BY <1>1, <1>2, <1>3, <1>4, <1>5 DEF Arrival

LEMMA CallerStep ==
  ASSUME IndInv, Rest,
         \/ ArrivalAsked \/ ArrivalAnswered \/ ArrivalTimesOut
         \/ \E g \in Generations \cup {0} : DepartureAsked(g)
         \/ RenderAdapterAsked \/ RenderAdapterAnswered \/ RenderAdapterTimesOut
         \/ RenderAdapterReturns \/ AdapterInitFinished
         \/ ReaperCleansUp
         \/ ShutdownBegins \/ ShutdownSettles \/ ShutdownGivesUp \/ ShutdownEnds
  PROVE  IndInv' /\ Rest'
<1>1. CASE ArrivalAsked
  BY <1>1, ArrivalAskedKeeps, ArrivalAskedRest
<1>2. CASE ArrivalAnswered \/ ArrivalTimesOut
  BY <1>2, ArrivalAnsweredKeeps, ArrivalTimesOutKeeps, ControllerRest
<1>3. CASE \E g \in Generations \cup {0} : DepartureAsked(g)
  BY <1>3, DepartureAskedKeeps, DepartureAskedRest
<1>4. CASE RenderAdapterAsked \/ RenderAdapterAnswered \/ RenderAdapterTimesOut
  BY <1>4, RenderAdapterKeeps, ControllerRest
<1>5. CASE RenderAdapterReturns \/ AdapterInitFinished
  BY <1>5, RenderAdapterReturnsKeeps, AdapterInitFinishedKeeps, NoThreadRest
<1>6. CASE ReaperCleansUp
  BY <1>6, ReaperCleansUpKeeps, ReaperCleansUpRest
<1>7. CASE ShutdownBegins \/ ShutdownSettles \/ ShutdownGivesUp \/ ShutdownEnds
  BY <1>7, ShutdownKeeps, ShutdownEndsKeeps, ShutdownRest
<1> QED
  BY <1>1, <1>2, <1>3, <1>4, <1>5, <1>6, <1>7

LEMMA CallbackActs ==
  ASSUME IndInv, Rest,
         Callback \/ AssignStartFails \/ AssignStopsNew(TRUE) \/ UnassignStops(TRUE)
  PROVE  IndInv' /\ Rest'
<1>1. CASE \E g \in Generations, p \in SwapChains : AssignBegins(g, p)
  BY <1>1, AssignBeginsKeeps, AssignBeginsRest
<1>2. CASE AssignStartFails \/ AssignDecides
  BY <1>2, AssignStartFailsKeeps, AssignStartFailsRest, AssignDecidesKeeps, AssignDecidesRest
<1>3. CASE \E timedOut \in BOOLEAN : AssignStopsNew(timedOut)
  BY <1>3, AssignStopsNewKeeps, AssignStopsNewRest
<1>4. CASE AssignRetires
  BY <1>4, AssignRetiresKeeps, AssignRetiresRest
<1>5. CASE AssignLeaves \/ UnassignLeaves
  BY <1>5, CallbackLeavesKeeps, CallbackLeavesRest
<1>6. CASE \E g \in Generations : UnassignBegins(g)
  BY <1>6, UnassignBeginsKeeps, UnassignBeginsRest
<1>7. CASE \E timedOut \in BOOLEAN : UnassignStops(timedOut)
  <2>1. PICK timedOut \in BOOLEAN : UnassignStops(timedOut)
    BY <1>7
  <2>2. callback.at # "none"
    BY <2>1 DEF UnassignStops
  <2>3. monitor # NoMonitor
    BY <2>2, CallbackAbout DEF Is
  <2> QED
    BY <2>1, <2>3, UnassignStopsKeeps, UnassignStopsRest
<1>8. AssignStopsNew(TRUE) \/ AssignStopsNew(FALSE) => \E timedOut \in BOOLEAN : AssignStopsNew(timedOut)
  OBVIOUS
<1>9. UnassignStops(TRUE) \/ UnassignStops(FALSE) => \E timedOut \in BOOLEAN : UnassignStops(timedOut)
  OBVIOUS
<1> QED
  BY <1>1, <1>2, <1>3, <1>4, <1>5, <1>6, <1>7, <1>8, <1>9 DEF Callback

LEMMA InvStep ==
  ASSUME Inv, [Next]_vars
  PROVE  Inv'
<1>1. IndInv /\ Rest
  BY DEF Inv, Rest
<1>2. CASE \/ \E t \in Threads : Depart(t) \/ DepartTimesOut(t)
           \/ \E g \in Generations : Arrival(g) \/ ArrivalCreateFails(g) \/ ArrivalReturns(g, FALSE)
  BY <1>1, <1>2, DepartStep, ArrivalStep DEF Inv, Rest
<1>3. CASE \/ ArrivalAsked \/ ArrivalAnswered \/ ArrivalTimesOut
           \/ \E g \in Generations \cup {0} : DepartureAsked(g)
           \/ RenderAdapterAsked \/ RenderAdapterAnswered \/ RenderAdapterTimesOut
           \/ RenderAdapterReturns \/ AdapterInitFinished
           \/ ReaperCleansUp
           \/ ShutdownBegins \/ ShutdownSettles \/ ShutdownGivesUp \/ ShutdownEnds
  BY <1>1, <1>3, CallerStep DEF Inv, Rest
<1>4. CASE Callback \/ AssignStartFails \/ AssignStopsNew(TRUE) \/ UnassignStops(TRUE)
  BY <1>1, <1>4, CallbackActs DEF Inv, Rest
<1>5. CASE \E t \in Threads, g \in Generations, departed \in BOOLEAN : DepartureReturns(t, g, departed)
  BY <1>1, <1>5, DepartureReturnsKeeps, DepartureReturnsRest DEF Inv, Rest
<1>6. CASE \E p \in SwapChains, timedOut \in BOOLEAN :
               \/ DeferredStop(p, timedOut)
               \/ WorkerSteps(Worker(p)) \/ WorkerSteps(WorkerFaults(p))
  <2>1. PICK p \in SwapChains, timedOut \in BOOLEAN :
               \/ DeferredStop(p, timedOut)
               \/ WorkerSteps(Worker(p)) \/ WorkerSteps(WorkerFaults(p))
    BY <1>6
  <2> QED
    BY <1>1, <2>1, ProcessorStepsKeep, DeferredStopRest, WorkerStepRest DEF Inv, Rest
<1>7. CASE UNCHANGED vars
  <2>1. /\ UNCHANGED <<monitor, counts, calls, os, callback, deferred, leaked, processors>>
    BY <1>7 DEF vars, chains
  <2>2. IndInv'
    BY <1>1, <2>1, CallbackKeeps DEF IndInv, Types, IsCallback
  <2>3. UNCHANGED <<threads, departing, up, chains>>
    BY <2>1 DEF calls, os, chains
  <2>4. Rest'
    BY <1>1, <2>1, <2>3, ThreadsDrift, SameMonitorSameChains, DriftKeeps DEF Calling
  <2> QED
    BY <2>2, <2>4 DEF Inv, Rest
<1>8. ASSUME NEW t \in Threads, NEW g \in Generations,
             DepartureReturns(t, g, TRUE) \/ DepartureReturns(t, g, FALSE)
      PROVE  \E departed \in BOOLEAN : DepartureReturns(t, g, departed)
  BY <1>8
<1>9. ASSUME NEW p \in SwapChains,
             \/ DeferredStop(p, TRUE) \/ DeferredStop(p, FALSE)
             \/ WorkerSteps(Worker(p)) \/ WorkerSteps(WorkerFaults(p))
      PROVE  \E timedOut \in BOOLEAN : \/ DeferredStop(p, timedOut)
                                       \/ WorkerSteps(Worker(p)) \/ WorkerSteps(WorkerFaults(p))
  BY <1>9
<1> QED
  BY <1>2, <1>3, <1>4, <1>5, <1>6, <1>7, <1>8, <1>9 DEF Next, Steps, Faults

-----------------------------------------------------------------------------
(* What the runs check, of every number of arrivals, requests and faults.  *)

\* The invariant the properties rest on: the marks of the record, the reports of
\* the arrivals, the counts, the callbacks and the owners of the processors are
\* kept by every step of WindowsIddCxBackend.
THEOREM BackendInvariant == Spec => []Inv
BY InitHolds, InvStep, PTL DEF Spec

LEMMA MarksNameAnOwner ==
  ASSUME Inv
  PROVE  RefusalsHaveAnOwner
<1>1. unhealthy => arrivals + departures > 0 \/ RenderInFlight
  BY DEF Inv, IndInv, Counts
<1>2. ASSUME monitor # NoMonitor, monitor.arriving
      PROVE  threads[monitor.generation].at \in {"arrive", "arrived"}
  <2>1. monitor.generation \in Generations
    BY <1>2 DEF Inv, IndInv, Types, MonitorRecord
  <2>2. Is(monitor.generation)
    BY <1>2 DEF Is
  <2> QED
    BY <1>2, <2>1, <2>2 DEF Inv, IndInv, Marks, ArrivalWorks
<1>3. ASSUME monitor # NoMonitor, monitor.departing
      PROVE  \E t \in Threads : \/ departing[<<t, monitor.generation>>] = "calling"
                                \/ /\ threads[t].generation = monitor.generation
                                   /\ threads[t].at \in {"awaitCallbacks", "stopping"}
  BY <1>3 DEF Inv, IndInv, Marks, MarkOwned, SomeOwner, Leaving, Leaves, Calling
<1> QED
  BY <1>1, <1>2, <1>3 DEF RefusalsHaveAnOwner

\* What refuses requests goes away again: the unhealthy flag has a worker to clear
\* it, and the marks that make DepartMonitor answer Failed have a thread to take
\* them off (lifecycle_unhealthy_, arriving and departing of the monitor record).
THEOREM RefusalsAlwaysOwned == Spec => []RefusalsHaveAnOwner
BY BackendInvariant, MarksNameAnOwner, PTL

LEMMA ReportsAccount ==
  ASSUME Inv
  PROVE  ArrivalsAccountedFor
<1>1. registered = {g \in Generations : Is(g) \/ threads[g].at = "insert"}
  BY DEF Inv, IndInv, ModesRegistered
<1>2. ASSUME NEW g \in Generations, arrival[g].timedOut, Is(g),
             threads[g].at \in {"finish", "notify", "ended"}
      PROVE  monitor.orphan
  BY <1>2 DEF Inv, IndInv, Reports, Reported, AfterReport
<1> QED
  BY <1>1, <1>2 DEF ArrivalsAccountedFor

\* An arrival that failed for its caller left no monitor that nobody will depart,
\* and no reference on a mode (CreateMonitor's timeout, orphaned_late_arrival and
\* WindowsDriverRegisteredModeStore).
THEOREM ArrivalsAlwaysAccountedFor == Spec => []ArrivalsAccountedFor
BY BackendInvariant, ReportsAccount, PTL

\* The threads hold a processor once, if at all.
LEMMA ThreadOwners ==
  ASSUME Inv, NEW p \in SwapChains
  PROVE  Cardinality({t \in Threads : p \in threads[t].holds}) = IF Held(p) THEN 1 ELSE 0
<1> DEFINE H == {t \in Threads : p \in threads[t].holds}
<1>1. CASE Held(p)
  <2>1. PICK t \in Threads : p \in threads[t].holds
    BY <1>1 DEF Held
  <2>2. threads[t].at = "stopping"
    BY <2>1 DEF Inv, Callbacks, Emptied
  <2>3. \A o \in Threads \ {t} : threads[o].holds = {}
    BY <2>2, StopperFacts DEF Inv, Rest
  <2>4. H = {t}
    BY <2>1, <2>3
  <2> QED
    BY <1>1, <2>4, FS_Singleton
<1>2. CASE ~Held(p)
  <2>1. H = {}
    BY <1>2 DEF Held
  <2> QED
    BY <1>2, <2>1, FS_EmptySet
<1> QED
  BY <1>1, <1>2

\* So do the record, the callback and the detached threads, and never two of them.
LEMMA OtherOwners ==
  ASSUME Inv, NEW p \in SwapChains
  PROVE  Owners(p) = IF Exists(p) THEN 1 ELSE 0
<1> DEFINE Place(i) == CASE i = 1 -> Active
                         [] i = 2 -> Retired
                         [] i = 3 -> Taken
                         [] i = 4 -> deferred
                         [] i = 5 -> leaked
           I == {i \in 1..5 : p \in Place(i)}
<1>1. Owners(p) = (IF Held(p) THEN 1 ELSE 0) + Cardinality(I)
  BY ThreadOwners DEF Owners, Retired, Taken
<1>2. /\ 1 \in I <=> p \in Active
      /\ 2 \in I <=> p \in Retired
      /\ 3 \in I <=> p \in Taken
      /\ 4 \in I <=> p \in deferred
      /\ 5 \in I <=> p \in leaked
  OBVIOUS
<1>3. \A i \in I : i = 1 \/ i = 2 \/ i = 3 \/ i = 4 \/ i = 5
  OBVIOUS
<1> HIDE DEF I
<1>4. OneOwner(p)
  BY DEF Inv, Ownership
<1>5. CASE Exists(p) /\ Held(p)
  <2>1. I = {}
    BY <1>2, <1>3, <1>4, <1>5 DEF OneOwner
  <2> QED
    BY <1>1, <1>5, <2>1, FS_EmptySet
<1>6. CASE Exists(p) /\ ~Held(p)
  <2>1. \E i \in 1..5 : I = {i}
    <3>1. CASE p \in Active
      <4>1. I = {1}
        BY <1>2, <1>3, <1>4, <3>1 DEF OneOwner
      <4> QED
        BY <4>1
    <3>2. CASE p \in Retired
      <4>1. I = {2}
        BY <1>2, <1>3, <1>4, <3>2 DEF OneOwner
      <4> QED
        BY <4>1
    <3>3. CASE p \in Taken
      <4>1. I = {3}
        BY <1>2, <1>3, <1>4, <3>3 DEF OneOwner
      <4> QED
        BY <4>1
    <3>4. CASE p \in deferred
      <4>1. I = {4}
        BY <1>2, <1>3, <1>4, <3>4 DEF OneOwner
      <4> QED
        BY <4>1
    <3>5. CASE p \in leaked
      <4>1. I = {5}
        BY <1>2, <1>3, <1>4, <3>5 DEF OneOwner
      <4> QED
        BY <4>1
    <3> QED
      BY <1>4, <1>6, <3>1, <3>2, <3>3, <3>4, <3>5 DEF OneOwner
  <2>2. Cardinality(I) = 1
    BY <2>1, FS_Singleton
  <2> QED
    BY <1>1, <1>6, <2>2
<1>7. CASE ~Exists(p)
  <2>1. ~Held(p) /\ I = {}
    BY <1>2, <1>3, <1>4, <1>7 DEF OneOwner
  <2> QED
    BY <1>1, <1>7, <2>1, FS_EmptySet
<1> QED
  BY <1>5, <1>6, <1>7

LEMMA OwnersAreSingle ==
  ASSUME Inv
  PROVE  SwapchainsOwnedOnce
<1> SUFFICES ASSUME NEW p \in SwapChains
             PROVE  /\ Owners(p) = IF processors[p].worker = "none" \/ processors[p].destroyed THEN 0 ELSE 1
                    /\ processors[p].closed <= 1
                    /\ processors[p].closed = 1 => processors[p].completed /\ ~Live(p)
                    /\ callback.chain = p /\ callback.at \in {"assign", "stopNew"} => processors[p].closed = 0
  BY DEF SwapchainsOwnedOnce
<1>1. Owners(p) = IF processors[p].worker = "none" \/ processors[p].destroyed THEN 0 ELSE 1
  BY OtherOwners DEF Exists
<1>2. IsProcessor(processors[p]) /\ Undecided(p)
  BY DEF Inv, Processors
<1>3. processors[p].closed \in {0, 1}
  BY <1>2 DEF IsProcessor, ProcessorRecord
<1>4. processors[p].closed = 1 => processors[p].completed /\ ~Live(p)
  BY <1>2 DEF IsProcessor, Live
<1>5. ASSUME callback.chain = p, callback.at \in {"assign", "stopNew"}
      PROVE  processors[p].closed = 0
  BY <1>2, <1>3, <1>4, <1>5 DEF Undecided
<1> QED
  BY <1>1, <1>3, <1>4, <1>5

\* Every swapchain processor has one owner, who will destroy it, and its swapchain
\* is closed once at most, by nobody while a worker may use it: no unique_ptr is
\* lost between the record, the departures, the callbacks and detached threads, and
\* no swapchain the driver declined is closed by it (SwapChainProcessor).
THEOREM SwapchainsAlwaysOwnedOnce == Spec => []SwapchainsOwnedOnce
BY BackendInvariant, OwnersAreSingle, PTL
=============================================================================
