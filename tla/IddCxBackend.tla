---------------------------- MODULE IddCxBackend ----------------------------
(***************************************************************************)
(* IddCxBackend (src/driver/windows_driver/driver_main.cpp): the monitors  *)
(* of the Windows driver, for one display id.                              *)
(*                                                                         *)
(* Calls of IddCx that may hang run on worker threads, for which a caller  *)
(* waits a bounded time: an arrival, a departure, a change of the render   *)
(* adapter.  A worker left behind goes on, and its end is counted.  The    *)
(* operating system calls back to assign and unassign swapchains while all *)
(* this happens.  A section under mutex_ is one step; so is a call of      *)
(* IddCx, from the worker's side.                                          *)
(*                                                                         *)
(* The threads: Controller stands for the calls that DriverController      *)
(* makes, one at a time; Reaper for the cleanup that the lease reaper runs *)
(* under no lock; Cleanup for the teardown of the device; a generation for *)
(* the worker of its arrival.  Generations are those of the store: each    *)
(* names one temporary display record, and here its monitor.  The code's   *)
(* branches for a record that went away under its mark are left out where  *)
(* RefusalsHaveAnOwner rules them out.                                     *)
(*                                                                         *)
(* A definition named for what is wrong with it (ArrivalTagsNothing,       *)
(* DepartDetachesPoisoning) is a faulty variant of the one after it.       *)
(***************************************************************************)
EXTENDS SwapChainProcessor

CONSTANTS
    Controller, Reaper, Cleanup,
    MaxGeneration,  \* bound on the arrivals
    MaxRequests,    \* bound on the requests of the controller
    MaxFaults,      \* bound on the timeouts and on the calls that fail
    NoMonitor

VARIABLES
    monitor,        \* the record under the display id
    arrivals, departures,   \* monitor_arrivals_in_flight_, monitor_departures_in_flight_
    unhealthy,      \* lifecycle_unhealthy_
    shuttingDown,
    adapterReady,
    threads,        \* where each thread is, for what, and the processors it holds
    arrival,        \* ArrivalState of each arrival
    departing,      \* the departure worker of a thread for a monitor
    render,         \* the render adapter worker
    up,             \* monitors that have arrived, as the operating system sees it
    registered,     \* arrivals with a reference on the mode of their EDID, which they share
    callback,       \* the swapchain callback in progress
    deferred,       \* processors left to a detached cleanup thread
    leaked,         \* processors given up with their worker
    requests, faults    \* counted for the bounds

Generations == 1..MaxGeneration
Threads == {Controller, Reaper, Cleanup} \cup Generations

ASSUME ThreadsAssumption ==
    /\ Controller # Reaper /\ Controller # Cleanup /\ Reaper # Cleanup
    /\ {Controller, Reaper, Cleanup} \cap Generations = {}
ASSUME BoundsAssumption == {MaxGeneration, MaxRequests, MaxFaults} \subseteq Nat

counts == <<arrivals, departures, unhealthy>>
calls == <<threads, arrival, departing, render>>
state == <<shuttingDown, adapterReady>>
chains == <<processors, callback, deferred, leaked>>
bounds == <<requests, faults>>
os == <<up, registered>>
vars == <<monitor, counts, calls, state, os, chains, bounds>>

Idle == [at |-> "idle", generation |-> 0, then |-> "idle", failed |-> FALSE,
         active |-> NoChain, holds |-> {}]
NoCallback == [at |-> "none", generation |-> 0, chain |-> NoChain, holds |-> {}]

MonitorRecord ==
    [generation : Generations, arriving : BOOLEAN, departing : BOOLEAN, orphan : BOOLEAN,
     connected : BOOLEAN, assigns : Nat, unassigns : Nat,
     active : SwapChains \cup {NoChain}, retired : SUBSET SwapChains]

ASSUME NoMonitorAssumption == NoMonitor \notin MonitorRecord

Arriving(g) == [generation |-> g, arriving |-> TRUE, departing |-> FALSE, orphan |-> FALSE,
                connected |-> TRUE, assigns |-> 0, unassigns |-> 0, active |-> NoChain, retired |-> {}]

Is(g) == monitor # NoMonitor /\ monitor.generation = g  \* find_current_monitor_locked
Active == IF monitor = NoMonitor THEN {} ELSE {monitor.active} \ {NoChain}
CallbacksInFlight == monitor.assigns + monitor.unassigns > 0

Goes(t, at) == threads' = [threads EXCEPT ![t].at = at]

\* depart_display begins, and the thread goes on at then with its answer.
Departs(t, g, then) ==
    threads' = [threads EXCEPT ![t].at = "depart", ![t].generation = g, ![t].then = then]

\* An arrival that cannot depart the monitor in its way reports a failure.
AnswersDeparture(t, answer) ==
    LET fails == answer = "Failed" /\ threads[t].then = "create" IN
    threads' = [threads EXCEPT ![t] = [Idle EXCEPT !.at = IF fails THEN "failed" ELSE threads[t].then,
                                                   !.failed = t = Cleanup /\ answer = "Failed"]]

\* clear_lifecycle_unhealthy_if_settled_locked, with the counts after a decrement
ClearIfSettled(a, d, r) == unhealthy' = (unhealthy /\ ~(a = 0 /\ d = 0 /\ ~r))
RenderInFlight == render = "calling"

-----------------------------------------------------------------------------
(* depart_display, in any of the threads.                                  *)

\* Nothing to do, or not now.
DepartAnswersAtOnce(t) ==
    /\ threads[t].at = "depart"
    /\ \/ monitor = NoMonitor /\ AnswersDeparture(t, "None")
       \/ /\ monitor # NoMonitor
          /\ threads[t].generation \notin {0, monitor.generation}
          /\ AnswersDeparture(t, "None")
       \/ /\ monitor # NoMonitor
          /\ threads[t].generation \in {0, monitor.generation}
          /\ monitor.arriving \/ monitor.departing
          /\ AnswersDeparture(t, "Failed")
    /\ UNCHANGED <<monitor, counts, arrival, departing, render, state, os, chains>>

MayDepart(t) ==
    /\ threads[t].at = "depart"
    /\ monitor # NoMonitor
    /\ threads[t].generation \in {0, monitor.generation}
    /\ ~monitor.arriving /\ ~monitor.departing

\* The record is marked, and with callbacks in flight the thread waits for them.
\* From here nobody else removes the record.
DepartMarks(t) ==
    /\ MayDepart(t)
    /\ CallbacksInFlight
    /\ monitor' = [monitor EXCEPT !.departing = TRUE]
    /\ threads' = [threads EXCEPT ![t].at = "awaitCallbacks", ![t].generation = monitor.generation]
    /\ UNCHANGED <<counts, arrival, departing, render, state, os, chains>>

\* The processors are taken from the record and told to stop.
DepartTakes(t) ==
    LET held == Active \cup monitor.retired IN
    /\ MayDepart(t) \/ threads[t].at = "awaitCallbacks"
    /\ ~CallbacksInFlight
    /\ monitor' = [monitor EXCEPT !.departing = TRUE, !.active = NoChain, !.retired = {}]
    /\ processors' = StopAll(held)
    /\ threads' = [threads EXCEPT ![t].at = "stopping", ![t].generation = monitor.generation,
                                  ![t].active = monitor.active, ![t].holds = held]
    /\ UNCHANGED <<counts, arrival, departing, render, state, os, callback, deferred, leaked>>

DepartGivesUpOnCallbacks(t) ==
    /\ threads[t].at = "awaitCallbacks"
    /\ CallbacksInFlight
    /\ monitor' = [monitor EXCEPT !.departing = FALSE]
    /\ AnswersDeparture(t, "Failed")
    /\ UNCHANGED <<counts, arrival, departing, render, state, os, chains>>

\* All workers have ended in time: IddCxMonitorDeparture runs on a worker.
DepartCalls(t) ==
    LET g == threads[t].generation IN
    /\ threads[t].at = "stopping"
    /\ departing[<<t, g>>] = "none"
    /\ \A p \in threads[t].holds : Ended(p)
    /\ processors' = DestroyEnded(threads[t].holds)
    /\ departures' = departures + 1
    /\ departing' = [departing EXCEPT ![<<t, g>>] = "calling"]
    /\ threads' = [threads EXCEPT ![t].at = "awaitDeparture",
                                  ![t].active = NoChain, ![t].holds = {}]
    /\ UNCHANGED <<monitor, arrivals, unhealthy, arrival, render, state, os, callback, deferred, leaked>>

\* Some have not: they go back to the record, which stays.
DepartGivesBack(t) ==
    LET alive == {p \in threads[t].holds : ~Ended(p)} IN
    /\ threads[t].at = "stopping"
    /\ alive # {}
    /\ processors' = DestroyEnded(threads[t].holds)
    /\ monitor' = [monitor EXCEPT !.departing = FALSE,
                                 !.active = IF threads[t].active \in alive THEN threads[t].active ELSE @,
                                 !.retired = @ \cup (alive \ {threads[t].active})]
    /\ AnswersDeparture(t, "Failed")
    /\ UNCHANGED <<counts, arrival, departing, render, state, os, callback, deferred, leaked>>

\* The departure worker has ended.
DepartEnds(t) ==
    LET g == threads[t].generation IN
    /\ threads[t].at = "awaitDeparture"
    /\ departing[<<t, g>>] \in {"departed", "failed"}
    /\ AnswersDeparture(t, IF departing[<<t, g>>] = "departed" THEN "None" ELSE "Failed")
    /\ departing' = [departing EXCEPT ![<<t, g>>] = "none"]
    /\ UNCHANGED <<monitor, counts, arrival, render, state, os, chains>>

DepartDetachesPoisoning(t) ==
    /\ threads[t].at = "awaitDeparture"
    /\ unhealthy' = TRUE
    /\ AnswersDeparture(t, "Failed")
    /\ departing' = [departing EXCEPT ![<<t, threads[t].generation>>] =
                         IF @ \in {"departed", "failed"} THEN "none" ELSE @]
    /\ UNCHANGED <<monitor, arrivals, departures, arrival, render, state, os, chains>>

\* The wait for it timed out, be the worker still at it or just done.
DepartDetaches(t) ==
    /\ threads[t].at = "awaitDeparture"
    /\ unhealthy' = (unhealthy \/ departures > 0)
    /\ AnswersDeparture(t, "Failed")
    /\ departing' = [departing EXCEPT ![<<t, threads[t].generation>>] =
                         IF @ \in {"departed", "failed"} THEN "none" ELSE @]
    /\ UNCHANGED <<monitor, arrivals, departures, arrival, render, state, os, chains>>

Depart(t) ==
    \/ DepartAnswersAtOnce(t)
    \/ DepartMarks(t)
    \/ DepartTakes(t)
    \/ DepartCalls(t)
    \/ DepartEnds(t)

DepartTimesOut(t) ==
    \/ DepartGivesUpOnCallbacks(t)
    \/ DepartGivesBack(t)
    \/ DepartDetaches(t)

\* The departure worker: IddCxMonitorDeparture and finish_monitor_departure; a
\* failure leaves the record for a retry.
DepartureReturns(t, g, departed) ==
    LET awaited == threads[t].at = "awaitDeparture" /\ threads[t].generation = g IN
    /\ departing[<<t, g>>] = "calling"
    /\ departures' = departures - 1
    /\ ClearIfSettled(arrivals, departures - 1, RenderInFlight)
    /\ monitor' = IF ~Is(g) THEN monitor
                  ELSE IF departed THEN NoMonitor ELSE [monitor EXCEPT !.departing = FALSE]
    /\ up' = IF departed THEN up \ {g} ELSE up
    /\ registered' = IF departed THEN registered \ {g} ELSE registered
    /\ departing' = [departing EXCEPT ![<<t, g>>] =
                         IF ~awaited THEN "none" ELSE IF departed THEN "departed" ELSE "failed"]
    /\ UNCHANGED <<arrivals, threads, arrival, render, state, chains>>

-----------------------------------------------------------------------------
(* arrive_display: the worker of an arrival.                               *)

\* Self-heal: a resident monitor of another generation is departed first.
ArrivalHeals(g) ==
    /\ threads[g].at = "heal"
    /\ IF monitor # NoMonitor /\ ~monitor.arriving /\ ~monitor.departing /\ monitor.generation # g
       THEN Departs(g, monitor.generation, "create")
       ELSE Goes(g, "create")
    /\ UNCHANGED <<monitor, counts, arrival, departing, render, state, os, chains>>

\* Checked under the lock; then IddCxMonitorCreate and the registration of the
\* mode, either of which may fail.
ArrivalCreates(g) ==
    /\ threads[g].at = "create"
    /\ IF ~shuttingDown /\ adapterReady /\ monitor = NoMonitor
       THEN Goes(g, "insert") /\ registered' = registered \cup {g}
       ELSE Goes(g, "failed") /\ UNCHANGED registered
    /\ UNCHANGED <<monitor, counts, arrival, departing, render, state, up, chains>>

ArrivalCreateFails(g) ==
    /\ threads[g].at = "insert"
    /\ Goes(g, "failed")
    /\ registered' = registered \ {g}
    /\ UNCHANGED <<monitor, counts, arrival, departing, render, state, up, chains>>

\* Checked again, because the lock was given up for the call.
ArrivalInserts(g) ==
    /\ threads[g].at = "insert"
    /\ IF monitor = NoMonitor
       THEN monitor' = Arriving(g) /\ Goes(g, "arrive") /\ UNCHANGED registered
       ELSE Goes(g, "failed") /\ registered' = registered \ {g} /\ UNCHANGED monitor
    /\ UNCHANGED <<counts, arrival, departing, render, state, up, chains>>

\* IddCxMonitorArrival returns.
ArrivalReturns(g, arrived) ==
    /\ threads[g].at = "arrive"
    /\ IF arrived
       THEN up' = up \cup {g} /\ Goes(g, "arrived") /\ UNCHANGED <<monitor, registered>>
       ELSE monitor' = NoMonitor /\ Goes(g, "failed") /\ registered' = registered \ {g} /\ UNCHANGED up
    /\ UNCHANGED <<counts, arrival, departing, render, state, chains>>

\* The record cannot have gone: nobody removes one that is arriving.
ArrivalSettles(g) ==
    /\ threads[g].at = "arrived"
    /\ Is(g)
    /\ monitor' = [monitor EXCEPT !.arriving = FALSE]
    /\ Goes(g, "succeeded")
    /\ UNCHANGED <<counts, arrival, departing, render, state, os, chains>>

\* Who was first, the worker or the caller's timeout, is decided under mutex_.
ArrivalReports(g) ==
    /\ threads[g].at \in {"succeeded", "failed"}
    /\ IF arrival[g].timedOut
       THEN Goes(g, IF threads[g].at = "succeeded" THEN "tag" ELSE "finish") /\ UNCHANGED arrival
       ELSE arrival' = [arrival EXCEPT ![g].done = TRUE] /\ Goes(g, "finish")
    /\ UNCHANGED <<monitor, counts, departing, render, state, os, chains>>

ArrivalTagsNothing(g) ==
    /\ threads[g].at = "tag"
    /\ Departs(g, g, "finish")
    /\ UNCHANGED <<monitor, counts, arrival, departing, render, state, os, chains>>

\* A late success is departed by the worker itself; if that fails, by the reaper.
ArrivalTags(g) ==
    /\ threads[g].at = "tag"
    /\ monitor' = IF Is(g) THEN [monitor EXCEPT !.orphan = TRUE] ELSE monitor
    /\ Departs(g, g, "finish")
    /\ UNCHANGED <<counts, arrival, departing, render, state, os, chains>>

ArrivalFinishes(g) ==
    /\ threads[g].at = "finish"
    /\ arrivals' = arrivals - 1
    /\ ClearIfSettled(arrivals - 1, departures, RenderInFlight)
    /\ Goes(g, "notify")
    /\ UNCHANGED <<monitor, departures, arrival, departing, render, state, os, chains>>

ArrivalNotifies(g) ==
    /\ threads[g].at = "notify"
    /\ Goes(g, "ended")
    /\ UNCHANGED <<monitor, counts, arrival, departing, render, state, os, chains>>

Arrival(g) ==
    \/ ArrivalHeals(g)
    \/ ArrivalCreates(g)
    \/ ArrivalInserts(g)
    \/ ArrivalReturns(g, TRUE)
    \/ ArrivalSettles(g)
    \/ ArrivalReports(g)
    \/ ArrivalTags(g)
    \/ ArrivalFinishes(g)
    \/ ArrivalNotifies(g)

-----------------------------------------------------------------------------
(* The callers.                                                            *)

Asked == {g \in Generations : threads[g].at # "idle"}

ControllerCalls(action) ==
    /\ threads[Controller].at = "idle"
    /\ ~shuttingDown
    /\ requests < MaxRequests
    /\ requests' = requests + 1
    /\ action
    /\ UNCHANGED <<faults, monitor, departures, unhealthy, departing, state, os, chains>>

ArrivalAsked ==
    LET g == Cardinality(Asked) + 1 IN
    ControllerCalls(
        /\ g \in Generations
        /\ arrivals' = arrivals + 1
        /\ threads' = [threads EXCEPT ![Controller].at = "awaitArrival",
                                      ![Controller].generation = g, ![g].at = "heal"]
        /\ UNCHANGED <<arrival, render>>)

\* The worker's result is taken, and the worker joined.
ArrivalAnswered ==
    LET g == threads[Controller].generation IN
    /\ threads[Controller].at = "awaitArrival"
    /\ arrival[g].done
    /\ threads[g].at = "ended"
    /\ threads' = [threads EXCEPT ![Controller] = Idle]
    /\ UNCHANGED <<monitor, counts, arrival, departing, render, state, os, chains>>

ArrivalTimesOut ==
    LET g == threads[Controller].generation IN
    /\ threads[Controller].at = "awaitArrival"
    /\ ~arrival[g].done
    /\ arrival' = [arrival EXCEPT ![g].timedOut = TRUE]
    /\ unhealthy' = TRUE
    /\ threads' = [threads EXCEPT ![Controller] = Idle]
    /\ UNCHANGED <<monitor, arrivals, departures, departing, render, state, os, chains>>

\* Fenced on a generation, or on none.
DepartureAsked(g) ==
    ControllerCalls(g \in Asked \cup {0} /\ Departs(Controller, g, "idle") /\ UNCHANGED <<arrivals, arrival, render>>)

\* set_render_adapter, once.
RenderAdapterAsked ==
    ControllerCalls(
        /\ render = "none"
        /\ render' = "calling"
        /\ Goes(Controller, "awaitRender")
        /\ UNCHANGED <<arrivals, arrival>>)

RenderAdapterReturns ==
    /\ render = "calling"
    /\ render' = "ended"
    /\ ClearIfSettled(arrivals, departures, FALSE)
    /\ UNCHANGED <<monitor, arrivals, departures, threads, arrival, departing, state, os, chains>>

RenderAdapterAnswered ==
    /\ threads[Controller].at = "awaitRender"
    /\ ~RenderInFlight
    /\ Goes(Controller, "idle")
    /\ UNCHANGED <<monitor, counts, arrival, departing, render, state, os, chains>>

RenderAdapterTimesOut ==
    /\ threads[Controller].at = "awaitRender"
    /\ RenderInFlight
    /\ unhealthy' = TRUE
    /\ Goes(Controller, "idle")
    /\ UNCHANGED <<monitor, arrivals, departures, arrival, departing, render, state, os, chains>>

\* adapter_init_finished with success
AdapterInitFinished ==
    /\ ~adapterReady
    /\ adapterReady' = TRUE
    /\ UNCHANGED <<monitor, counts, calls, shuttingDown, os, chains>>

\* cleanup_finished_retired_swapchains
ReaperCleansUp ==
    /\ threads[Reaper].at = "idle"
    /\ ~shuttingDown
    /\ monitor # NoMonitor
    /\ processors' = DestroyEnded(monitor.retired)
    /\ monitor' = [monitor EXCEPT !.retired = {p \in @ : ~Ended(p)}]
    /\ IF monitor.orphan /\ ~monitor.departing
       THEN Departs(Reaper, monitor.generation, "idle")
       ELSE UNCHANGED threads
    /\ UNCHANGED <<counts, arrival, departing, render, state, os, callback, deferred, leaked>>

-----------------------------------------------------------------------------
(* shutdown, after the last request and with the reaper joined.            *)

ShutdownBegins ==
    /\ threads[Cleanup].at = "idle"
    /\ threads[Controller].at = "idle" /\ threads[Reaper].at = "idle"
    /\ shuttingDown' = TRUE
    /\ Goes(Cleanup, "settle")
    /\ UNCHANGED <<monitor, counts, arrival, departing, render, adapterReady, os, chains>>

Settled == arrivals = 0 /\ departures = 0 /\ ~RenderInFlight

ShutdownSettles ==
    /\ threads[Cleanup].at = "settle"
    /\ Settled
    /\ IF monitor # NoMonitor /\ ~monitor.departing
       THEN Departs(Cleanup, 0, "departed")
       ELSE Goes(Cleanup, "departed")
    /\ UNCHANGED <<monitor, counts, arrival, departing, render, state, os, chains>>

\* The device state is deleted only if nothing is left, and leaked otherwise.  A
\* monitor that did not depart is cut off from the backend.
ShutdownGivesUp ==
    /\ threads[Cleanup].at = "settle" /\ ~Settled
    /\ Goes(Cleanup, "leaked")
    /\ UNCHANGED <<monitor, counts, arrival, departing, render, state, os, chains>>

ShutdownEnds ==
    /\ threads[Cleanup].at = "departed"
    /\ Goes(Cleanup, IF departures > 0 \/ monitor # NoMonitor THEN "leaked" ELSE "deleted")
    /\ monitor' = IF monitor # NoMonitor /\ threads[Cleanup].failed
                  THEN [monitor EXCEPT !.connected = FALSE] ELSE monitor
    /\ UNCHANGED <<counts, arrival, departing, render, state, os, chains>>

-----------------------------------------------------------------------------
(* Swapchain callbacks of the operating system, one at a time, on a monitor *)
(* that has arrived.                                                       *)

CallbackGoes(at) == callback' = [callback EXCEPT !.at = at]

NotLeaving == ~monitor.departing /\ ~shuttingDown

\* assign_swapchain up to the start of the worker; declined without a trace
\* when the monitor is on its way out.
AssignBegins(g, p) ==
    /\ callback.at = "none"
    /\ g \in up /\ processors[p].worker = "none"
    /\ Is(g) /\ monitor.connected /\ NotLeaving
    /\ monitor' = [monitor EXCEPT !.assigns = @ + 1]
    /\ callback' = [at |-> "assign", generation |-> g, chain |-> p, holds |-> {}]
    /\ processors' = [processors EXCEPT ![p] = Started]
    /\ UNCHANGED <<counts, calls, state, os, deferred, leaked>>

\* The worker did not start: the swapchain stays with the operating system.
AssignStartFails ==
    LET p == callback.chain IN
    /\ callback.at = "assign"
    /\ processors[p].worker = "starting" /\ processors[p] = Started
    /\ processors' = [processors EXCEPT ![p] = Destroyed([Abandon(@) EXCEPT !.worker = "ended"])]
    /\ CallbackGoes("leave")
    /\ UNCHANGED <<monitor, counts, calls, state, os, deferred, leaked>>

\* The decision, under mutex_: the driver owns the swapchain, and a processor
\* it replaces is retired; or the monitor is leaving and the swapchain declined.
AssignDecides ==
    LET p == callback.chain
        stays == Is(callback.generation) /\ ~monitor.departing
        collected == IF stays THEN {q \in monitor.retired : Ended(q)} ELSE {}
        cleaned == DestroyEnded(collected)
    IN  /\ callback.at = "assign"
        /\ processors' = [cleaned EXCEPT ![p] = IF stays THEN Decide(@, TRUE)
                                                ELSE RequestStop(Decide(@, FALSE))]
        /\ monitor' = IF stays THEN [monitor EXCEPT !.active = p, !.retired = @ \ collected] ELSE monitor
        /\ callback' = [callback EXCEPT !.at = IF ~stays THEN "stopNew"
                                               ELSE IF Active = {} THEN "leave" ELSE "retire",
                                        !.holds = IF stays THEN Active ELSE {p}]
        /\ UNCHANGED <<counts, calls, state, os, deferred, leaked>>

\* stop_swapchain_processor: destroyed if its worker ends in time, and otherwise
\* left to a detached thread.
AssignStopsNew(timedOut) ==
    /\ callback.at = "stopNew"
    /\ timedOut = (\E p \in callback.holds : ~Ended(p))
    /\ processors' = DestroyEnded(callback.holds)
    /\ deferred' = deferred \cup {p \in callback.holds : ~Ended(p)}
    /\ callback' = [callback EXCEPT !.at = "leave", !.holds = {}]
    /\ UNCHANGED <<monitor, counts, calls, state, os, leaked>>

AssignRetires ==
    LET q == CHOOSE q \in callback.holds : TRUE
        stays == Is(callback.generation) /\ ~monitor.departing
    IN  /\ callback.at = "retire"
        /\ processors' = [processors EXCEPT ![q] = IF stays THEN RequestStop(@)
                                                   ELSE Decide(RequestStop(@), FALSE)]
        /\ monitor' = IF stays THEN [monitor EXCEPT !.retired = @ \cup {q}] ELSE monitor
        /\ deferred' = IF stays THEN deferred ELSE deferred \cup {q}
        /\ callback' = [callback EXCEPT !.at = "leave", !.holds = {}]
        /\ UNCHANGED <<counts, calls, state, os, leaked>>

\* AssignCallbackScope
AssignLeaves ==
    /\ callback.at = "leave"
    /\ monitor' = IF Is(callback.generation) /\ monitor.assigns > 0
                  THEN [monitor EXCEPT !.assigns = @ - 1] ELSE monitor
    /\ callback' = NoCallback
    /\ UNCHANGED <<counts, calls, state, os, processors, deferred, leaked>>

\* unassign_swapchain: the processors are taken from the record, and those that
\* do not stop in time put back as retired.
UnassignBegins(g) ==
    LET held == Active \cup monitor.retired IN
    /\ callback.at = "none"
    /\ g \in up
    /\ Is(g) /\ monitor.connected /\ NotLeaving
    /\ monitor' = [monitor EXCEPT !.unassigns = @ + 1, !.active = NoChain, !.retired = {}]
    /\ processors' = StopAll(held)
    /\ callback' = [at |-> "unassign", generation |-> g, chain |-> NoChain, holds |-> held]
    /\ UNCHANGED <<counts, calls, state, os, deferred, leaked>>

UnassignStops(timedOut) ==
    /\ callback.at = "unassign"
    /\ timedOut = (\E p \in callback.holds : ~Ended(p))
    /\ processors' = DestroyEnded(callback.holds)
    /\ monitor' = [monitor EXCEPT !.retired = @ \cup {p \in callback.holds : ~Ended(p)}]
    /\ callback' = [callback EXCEPT !.at = "leaveUnassign", !.holds = {}]
    /\ UNCHANGED <<counts, calls, state, os, deferred, leaked>>

\* UnassignCallbackScope
UnassignLeaves ==
    /\ callback.at = "leaveUnassign"
    /\ monitor' = IF Is(callback.generation) /\ monitor.unassigns > 0
                  THEN [monitor EXCEPT !.unassigns = @ - 1] ELSE monitor
    /\ callback' = NoCallback
    /\ UNCHANGED <<counts, calls, state, os, processors, deferred, leaked>>

Callback ==
    \/ \E g \in Generations, p \in SwapChains : AssignBegins(g, p)
    \/ AssignDecides
    \/ AssignStopsNew(FALSE)
    \/ AssignRetires
    \/ AssignLeaves
    \/ \E g \in Generations : UnassignBegins(g)
    \/ UnassignStops(FALSE)
    \/ UnassignLeaves

\* defer_stop_swapchain_processor: after the bounded wait the processor is leaked
\* with its worker.
DeferredStop(p, timedOut) ==
    /\ p \in deferred
    /\ timedOut = ~Ended(p)
    /\ processors' = DestroyEnded({p})
    /\ deferred' = deferred \ {p}
    /\ leaked' = IF timedOut THEN leaked \cup {p} ELSE leaked
    /\ UNCHANGED <<monitor, counts, calls, state, os, callback>>

WorkerSteps(action) ==
    /\ action
    /\ UNCHANGED <<monitor, counts, calls, state, os, callback, deferred, leaked>>

-----------------------------------------------------------------------------

Init ==
    /\ monitor = NoMonitor
    /\ arrivals = 0 /\ departures = 0 /\ unhealthy = FALSE
    /\ shuttingDown = FALSE /\ adapterReady = FALSE
    /\ threads = [t \in Threads |-> Idle]
    /\ arrival = [g \in Generations |-> [done |-> FALSE, timedOut |-> FALSE]]
    /\ departing = [w \in Threads \X Generations |-> "none"]
    /\ render = "none"
    /\ up = {} /\ registered = {}
    /\ processors = [p \in SwapChains |-> NoProcessor]
    /\ callback = NoCallback
    /\ deferred = {} /\ leaked = {}
    /\ requests = 0 /\ faults = 0

Steps ==
    \/ \E t \in Threads : Depart(t)
    \/ \E g \in Generations : Arrival(g)
    \/ \E t \in Threads, g \in Generations : DepartureReturns(t, g, TRUE)
    \/ ArrivalAnswered
    \/ RenderAdapterReturns \/ RenderAdapterAnswered
    \/ AdapterInitFinished
    \/ ReaperCleansUp
    \/ ShutdownBegins \/ ShutdownSettles \/ ShutdownGivesUp \/ ShutdownEnds
    \/ Callback
    \/ \E p \in SwapChains : DeferredStop(p, FALSE) \/ WorkerSteps(Worker(p))

Faults ==
    \/ \E t \in Threads : DepartTimesOut(t)
    \/ \E t \in Threads, g \in Generations : DepartureReturns(t, g, FALSE)
    \/ \E g \in Generations : ArrivalCreateFails(g) \/ ArrivalReturns(g, FALSE)
    \/ ArrivalTimesOut
    \/ RenderAdapterTimesOut
    \/ AssignStartFails \/ AssignStopsNew(TRUE) \/ UnassignStops(TRUE)
    \/ \E p \in SwapChains : DeferredStop(p, TRUE) \/ WorkerSteps(WorkerFaults(p))

Next ==
    \/ Steps /\ UNCHANGED bounds
    \/ Faults /\ faults < MaxFaults /\ faults' = faults + 1 /\ UNCHANGED requests
    \/ ArrivalAsked \/ RenderAdapterAsked \/ \E g \in Generations \cup {0} : DepartureAsked(g)

Spec == Init /\ [][Next]_vars

-----------------------------------------------------------------------------
(* Properties.                                                             *)

\* What refuses requests goes away again.  The unhealthy flag refuses every
\* create, so it may be set only while a worker is outstanding that will clear it
\* (lifecycle_unhealthy_ and the comments at each place that sets it); a record
\* marked as arriving or departing answers Failed to every departure, so some
\* thread must be about to take the mark off, or the record away.
RefusalsHaveAnOwner ==
    /\ unhealthy => arrivals + departures > 0 \/ RenderInFlight
    /\ monitor # NoMonitor =>
        /\ monitor.arriving => threads[monitor.generation].at \in {"arrive", "arrived"}
        /\ monitor.departing =>
               \E t \in Threads : \/ departing[<<t, monitor.generation>>] = "calling"
                                 \/ /\ threads[t].generation = monitor.generation
                                    /\ threads[t].at \in {"awaitCallbacks", "stopping"}

\* An arrival whose caller was told that it failed leaves no monitor that nobody
\* will depart: it is gone, or tagged for the reaper (orphaned_late_arrival).  A
\* monitor has its reference on the mode of its EDID for as long as it has a
\* record, and an arrival that fails leaves none: a leaked reference would refuse
\* every later arrival in another mode (WindowsDriverRegisteredModeStore).
ArrivalsAccountedFor ==
    /\ registered = {g \in Generations : Is(g) \/ threads[g].at = "insert"}
    /\ \A g \in Generations :
        /\ arrival[g].timedOut /\ Is(g)
        /\ threads[g].at \in {"finish", "notify", "ended"}
        => monitor.orphan

\* Every processor has exactly one owner, who will destroy it: unique_ptr moves
\* between the record, departures, callbacks and detached threads lose none.
Owners(p) ==
    Cardinality({t \in Threads : p \in threads[t].holds})
    + Cardinality({i \in 1..5 : p \in
          CASE i = 1 -> Active
            [] i = 2 -> IF monitor = NoMonitor THEN {} ELSE monitor.retired
            [] i = 3 -> callback.holds \cup (IF callback.at = "assign" THEN {callback.chain} ELSE {})
            [] i = 4 -> deferred
            [] i = 5 -> leaked})

\* ... and the swapchain of a processor is closed at most once, by nobody while a
\* worker may use it, and only if it was handed to the driver: one that
\* assign_swapchain declines stays with the operating system, which closes it.
SwapchainsOwnedOnce ==
    \A p \in SwapChains :
        /\ Owners(p) = IF processors[p].worker = "none" \/ processors[p].destroyed THEN 0 ELSE 1
        /\ processors[p].closed <= 1
        /\ processors[p].closed = 1 => processors[p].completed /\ ~Live(p)
        /\ callback.chain = p /\ callback.at \in {"assign", "stopNew"} => processors[p].closed = 0
=============================================================================
