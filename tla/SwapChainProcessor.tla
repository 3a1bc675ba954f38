------------------------- MODULE SwapChainProcessor -------------------------
(***************************************************************************)
(* SwapChainProcessor (src/driver/windows_driver/driver_main.cpp): the     *)
(* object that drives one swapchain the operating system assigned to a     *)
(* monitor.  The assign callback makes it and starts its worker; whether   *)
(* the driver owns the swapchain is decided once the callback is about to  *)
(* answer, and the worker may have failed by then.  Whoever owns the       *)
(* processor stops the worker, and destroys the processor only after the   *)
(* worker has ended; the worker or the destructor closes the swapchain.    *)
(*                                                                         *)
(* IddCxBackend has the threads that do this; here are the operations of   *)
(* one processor and the steps of its worker.                              *)
(***************************************************************************)
EXTENDS Integers, FiniteSets, FiniteSetsExt

CONSTANTS
    SwapChains,     \* the swapchains the operating system assigns
    NoChain

VARIABLE processors \* the processor of each swapchain

ASSUME NoChainAssumption == NoChain \notin SwapChains

\* closed counts the times WdfObjectDelete was called on the swapchain.
NoProcessor == [worker |-> "none", stop |-> FALSE, completed |-> FALSE, owns |-> FALSE,
                handle |-> FALSE, pinned |-> FALSE, closed |-> 0, destroyed |-> FALSE]

Live(p) == processors[p].worker \in {"starting", "running", "closing"}
Ended(p) == processors[p].worker = "ended"

-----------------------------------------------------------------------------
(* Operations of the owner, on the record of a processor.                  *)

\* The constructor pins the swapchain; start runs the worker.
Started == [NoProcessor EXCEPT !.worker = "starting", !.handle = TRUE, !.pinned = TRUE]

RequestStop(r) == [r EXCEPT !.stop = TRUE]

\* complete_assign
Decide(r, driverOwns) == [r EXCEPT !.completed = TRUE, !.owns = driverOwns]

\* abandon_swapchain
Abandon(r) == [r EXCEPT !.completed = TRUE, !.owns = FALSE, !.handle = FALSE, !.pinned = FALSE]

DeleteSwapChainOfAnyOwner(r) ==
    [r EXCEPT !.handle = FALSE, !.owns = FALSE, !.pinned = FALSE,
              !.closed = IF r.handle THEN r.closed + 1 ELSE r.closed]

\* delete_swapchain: an owned handle is claimed and closed, once; with the
\* assignment undecided only the pin is dropped.
DeleteSwapChain(r) ==
    IF ~r.completed THEN [r EXCEPT !.pinned = FALSE]
    ELSE [r EXCEPT !.handle = FALSE, !.owns = FALSE, !.pinned = FALSE,
                   !.closed = IF r.owns /\ r.handle THEN r.closed + 1 ELSE r.closed]

\* The destructor, after the worker has ended.
Destroyed(r) ==
    [NoProcessor EXCEPT !.worker = "ended", !.completed = r.completed, !.destroyed = TRUE,
                        !.closed = DeleteSwapChain(r).closed]

StopAll(P) == [p \in SwapChains |-> IF p \in P THEN RequestStop(processors[p]) ELSE processors[p]]

\* stop_for_teardown on each of P: those whose worker has ended are destroyed.
DestroyEnded(P) ==
    [p \in SwapChains |-> IF p \in P /\ Ended(p) THEN Destroyed(processors[p]) ELSE processors[p]]

-----------------------------------------------------------------------------
(* The worker.                                                             *)

WorkerGoes(p, at) == processors' = [processors EXCEPT ![p].worker = at]

\* The render device cannot be made: the swapchain is closed, unless the owner
\* asked the worker to stop.
WorkerLacksDevice(p) ==
    /\ processors[p].worker = "starting"
    /\ WorkerGoes(p, IF processors[p].stop THEN "ended" ELSE "closing")

\* wait_for_assignment_commit: it ends with the decision or with a stop.
WorkerSeesCommit(p) ==
    LET r == processors[p] IN
    /\ r.worker = "starting"
    /\ r.completed \/ r.stop
    /\ WorkerGoes(p, IF r.stop THEN "ended" ELSE IF r.owns /\ r.handle THEN "running" ELSE "closing")

\* Out of the frame loop on request, or because a call failed: after a failed
\* call of IddCx it looks for the request, after a failed publication it does not.
WorkerStops(p) == processors[p].worker = "running" /\ processors[p].stop /\ WorkerGoes(p, "ended")

WorkerFails(p) ==
    /\ processors[p].worker = "running"
    /\ \/ WorkerGoes(p, "closing")
       \/ processors[p].stop /\ WorkerGoes(p, "ended")

\* The worker waits a bounded time for the decision before it closes anything.
WorkerCloses(p) ==
    /\ processors[p].worker = "closing"
    /\ processors' = [processors EXCEPT ![p] = [DeleteSwapChain(@) EXCEPT !.worker = "ended"]]

Worker(p) == WorkerSeesCommit(p) \/ WorkerStops(p) \/ WorkerCloses(p)

WorkerFaults(p) == WorkerLacksDevice(p) \/ WorkerFails(p)
=============================================================================
