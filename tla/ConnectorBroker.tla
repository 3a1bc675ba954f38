---------------------------- MODULE ConnectorBroker ----------------------------
(***************************************************************************)
(* The Linux display pool and its control broker: the service that builds  *)
(* the pool of dormant outputs in configfs and removes it again            *)
(* (vibeshine-vkms start, stop), the broker instances that systemd starts  *)
(* for each connection to the control socket (vibeshine-vkms control), and *)
(* the clients of that socket (linux_control_client.cpp).                  *)
(*                                                                         *)
(* systemd is external, as the units use it: one job of the service at a   *)
(* time; instances run only while the service is active and are finished   *)
(* or killed before it stops; a process may be killed between any two of   *)
(* its steps; and the directory with the lease files is emptied whenever   *)
(* the service becomes inactive.  A client reaches an output by its DRM    *)
(* name, which stands for its configfs name here.                          *)
(*                                                                         *)
(* A definition named for what is wrong with it is a faulty variant of the *)
(* one that follows: no specification uses it.                             *)
(***************************************************************************)
EXTENDS VkmsConfigfs, Integers, Sequences

CONSTANTS
    OutputCount,        \* VKMS_OUTPUT_COUNT
    Users, Root,        \* uids; root is none of Users
    NoUser,             \* no lease file
    Instances,          \* connections the socket accepts at a time
    NoInstance,
    MaxRequests,        \* bound on the requests of clients
    MaxJobs,            \* bound on the starts and stops of the service
    MaxFaults           \* bound on failing steps and killed processes

Outputs == 1..OutputCount
Uids == Users \cup {Root}

ASSUME PoolAssumption ==
    /\ OutputCount \in Nat \ {0}
    /\ Planes = Outputs /\ Crtcs = Outputs /\ Encoders = Outputs /\ Connectors = Outputs
ASSUME UsersAssumption == Root \notin Users /\ NoUser \notin Uids /\ NoInstance \notin Instances

VARIABLES
    service,    \* "inactive", "starting", "active", "draining", "stopping"
    job,        \* the running start or stop: its remaining steps and what went wrong
    retained,   \* the last start found a pool that an earlier stop had left enabled
    lease,      \* the owner file of each output
    lock,       \* the instance that holds the lock file of each output
    instance,   \* the broker instances
    client,     \* what each user's call waits for
    believes,   \* outputs a user's last call has connected, as far as it knows
    revoked,    \* users that lost an output to root, to the pool's end, or to a late call
    unconfirmed,\* outputs that a request connected, took for failed and left without an owner
    budget      \* requests, jobs and faults left

poolVars == <<service, job, retained>>
brokerVars == <<lease, lock, instance>>
clientVars == <<client, believes, revoked, unconfirmed>>
vars == <<configfsVars, poolVars, brokerVars, clientVars, budget>>

Spend(what) == budget[what] > 0 /\ budget' = [budget EXCEPT ![what] = @ - 1]

Connected(n) == device.config.status[n] = "connected"

-----------------------------------------------------------------------------
\* The pool script.  A job is the sequence of the steps it has left.

Step(op, i) == [op |-> op, item |-> i]
\* The steps that ops names for the first output, then for the second, and so on.
ForEachOutput(ops) ==
    [k \in 1..(OutputCount * Len(ops)) |->
        Step(ops[((k - 1) % Len(ops)) + 1], ((k - 1) \div Len(ops)) + 1)]

BuildSteps ==
    <<Step("make_device", 0)>>
    \o ForEachOutput(<<"make_plane", "set_primary">>)
    \o ForEachOutput(<<"make_crtc">>)
    \o ForEachOutput(<<"make_encoder">>)
    \o ForEachOutput(<<"make_connector", "set_disconnected">>)
    \o ForEachOutput(<<"link_plane", "link_encoder", "link_connector">>)
    \o <<Step("validate", 0), Step("enable", 0)>>

\* A failure to remove one link or item does not keep the script from the others of its group.
RemoveGroups(links, items) ==
    <<Step("disable", 0)>>
    \o ForEachOutput(links) \o <<Step("give_up", 0)>>
    \o ForEachOutput(items) \o <<Step("give_up", 0)>>
    \o <<Step("remove_device", 0), Step("clear_leases", 0)>>

RemoveItems == <<"remove_connector", "remove_encoder", "remove_plane", "remove_crtc">>

RemoveStepsKeepingConnectorLinks == RemoveGroups(<<"unlink_encoder", "unlink_plane">>, RemoveItems)
RemoveSteps == RemoveGroups(<<"unlink_connector", "unlink_encoder", "unlink_plane">>, RemoveItems)

RemovePool == IF Configured THEN RemoveSteps ELSE <<Step("clear_leases", 0)>>

CompletePipeline(cfg, i) ==
    /\ i \in PlanesOf(cfg) \cap cfg.crtcs \cap cfg.encoders \cap ConnectorsOf(cfg)
    /\ cfg.types[i] = "primary"
    /\ cfg.status[i] \in {"connected", "disconnected"}
    /\ <<i, i>> \in cfg.planeCrtcs \cap cfg.encoderCrtcs \cap cfg.connectorEncoders

ValidTopology == Configured /\ \A i \in Outputs : CompletePipeline(device.config, i)

ClearLeases == lease' = [n \in Outputs |-> NoUser]

\* What the kernel asks of a step, and the script of its validation.
Granted(step) ==
    LET i == step.item IN
    \/ step.op = "make_device" /\ MayMakeDevice
    \/ step.op = "make_plane" /\ MayMakePlane(i)
    \/ step.op = "set_primary" /\ MayStoreType(i)
    \/ step.op = "make_crtc" /\ MayMakeCrtc(i)
    \/ step.op = "make_encoder" /\ MayMakeEncoder(i)
    \/ step.op = "make_connector" /\ MayMakeConnector(i)
    \/ step.op = "set_disconnected" /\ MayStoreStatus(i)
    \/ step.op = "link_plane" /\ MayLinkPlane(i, i)
    \/ step.op = "link_encoder" /\ MayLinkEncoder(i, i)
    \/ step.op = "link_connector" /\ MayLinkConnector(i, i)
    \/ step.op = "validate" /\ ValidTopology
    \/ step.op = "enable" /\ MayEnable
    \/ step.op = "disable" /\ MayDisable
    \/ step.op = "unlink_connector" /\ MayUnlinkConnector(i, i)
    \/ step.op = "unlink_encoder" /\ MayUnlinkEncoder(i, i)
    \/ step.op = "unlink_plane" /\ MayUnlinkPlane(i, i)
    \/ step.op = "remove_connector" /\ MayReleaseConnector(i)
    \/ step.op = "remove_encoder" /\ MayReleaseEncoder(i)
    \/ step.op = "remove_plane" /\ MayReleasePlane(i)
    \/ step.op = "remove_crtc" /\ MayReleaseCrtc(i)
    \/ step.op = "remove_device" /\ MayReleaseDevice
    \/ step.op = "clear_leases"

\* What a step does to configfs when the kernel grants it.
Perform(step) ==
    LET i == step.item IN
    \/ step.op = "make_device" /\ MakeDevice
    \/ step.op = "make_plane" /\ MakePlane(i)
    \/ step.op = "set_primary" /\ StoreType(i, "primary")
    \/ step.op = "make_crtc" /\ MakeCrtc(i)
    \/ step.op = "make_encoder" /\ MakeEncoder(i)
    \/ step.op = "make_connector" /\ MakeConnector(i)
    \/ step.op = "set_disconnected" /\ StoreStatus(i, "disconnected")
    \/ step.op = "link_plane" /\ LinkPlane(i, i)
    \/ step.op = "link_encoder" /\ LinkEncoder(i, i)
    \/ step.op = "link_connector" /\ LinkConnector(i, i)
    \/ step.op = "validate" /\ ValidTopology /\ UNCHANGED configfsVars
    \/ step.op = "enable" /\ StoreEnabled
    \/ step.op = "disable" /\ StoreDisabled
    \/ step.op = "unlink_connector" /\ UnlinkConnector(i, i)
    \/ step.op = "unlink_encoder" /\ UnlinkEncoder(i, i)
    \/ step.op = "unlink_plane" /\ UnlinkPlane(i, i)
    \/ step.op = "remove_connector" /\ ReleaseConnector(i)
    \/ step.op = "remove_encoder" /\ ReleaseEncoder(i)
    \/ step.op = "remove_plane" /\ ReleasePlane(i)
    \/ step.op = "remove_crtc" /\ ReleaseCrtc(i)
    \/ step.op = "remove_device" /\ ReleaseDevice
    \/ step.op = "clear_leases" /\ UNCHANGED configfsVars

\* Removing skips what is not there.
Absent(step) ==
    LET i == step.item IN
    \/ step.op = "disable" /\ ~device.enabled
    \/ step.op = "unlink_connector" /\ <<i, i>> \notin device.config.connectorEncoders
    \/ step.op = "unlink_encoder" /\ <<i, i>> \notin device.config.encoderCrtcs
    \/ step.op = "unlink_plane" /\ <<i, i>> \notin device.config.planeCrtcs
    \/ step.op = "remove_connector" /\ i \notin ConnectorsOf(device.config)
    \/ step.op = "remove_encoder" /\ i \notin device.config.encoders
    \/ step.op = "remove_plane" /\ i \notin PlanesOf(device.config)
    \/ step.op = "remove_crtc" /\ i \notin device.config.crtcs

NoJob == [kind |-> "none", phase |-> "none", todo |-> << >>, incomplete |-> FALSE,
          faulted |-> FALSE, result |-> "none"]
Job(kind, phase, todo) == [NoJob EXCEPT !.kind = kind, !.phase = phase, !.todo = todo]
Run(phase, todo) == [job EXCEPT !.phase = phase, !.todo = todo]

\* A start keeps a pool that is complete, enabling it if need be, and rebuilds any other.
StartJob ==
    IF ~Configured THEN Job("start", "clear", <<Step("clear_leases", 0)>>)
    ELSE IF ValidTopology
         THEN Job("start", "keep", IF device.enabled THEN << >> ELSE <<Step("enable", 0)>>)
         ELSE Job("start", "remove", RemovePool)

StartService ==
    /\ service = "inactive" /\ Spend("jobs")
    /\ service' = "starting"
    /\ job' = StartJob
    /\ retained' = ValidTopology
    /\ unconfirmed' = {}
    /\ UNCHANGED <<configfsVars, brokerVars, client, believes, revoked>>

\* systemd stops the control instances before the service: no new ones, the old ones end.
DrainInstances ==
    /\ service = "active" /\ Spend("jobs")
    /\ service' = "draining"
    /\ UNCHANGED <<configfsVars, job, retained, brokerVars, clientVars>>

\* While the machine shuts down the pool stays; otherwise the stop removes it.
StopService ==
    /\ service = "draining"
    /\ \A i \in Instances : instance[i].pc = "free"
    /\ service' = "stopping"
    /\ job' \in {Job("stop", "keep", << >>), Job("stop", "remove", RemovePool)}
    /\ UNCHANGED <<configfsVars, retained, brokerVars, clientVars, budget>>

\* The next step of the job succeeds.  A removal skips what is not there.
RunStep ==
    LET step == Head(job.todo) IN
    /\ job.todo # << >>
    /\ \/ ~Absent(step) /\ step.op # "give_up" /\ Perform(step)
       \/ Absent(step) /\ UNCHANGED configfsVars
       \/ step.op = "give_up" /\ ~job.incomplete /\ UNCHANGED configfsVars
    /\ IF step.op = "clear_leases" THEN ClearLeases ELSE UNCHANGED lease
    /\ job' = Run(job.phase, Tail(job.todo))
    /\ UNCHANGED <<service, retained, lock, instance, clientVars, budget>>

\* A start goes on from the removal of the old pool to the building of the new one.
MorePhases ==
    job.kind = "start" /\ job.result = "none" /\ job.phase \in {"remove", "clear"}

NextPhase ==
    /\ job.todo = << >> /\ MorePhases
    /\ job' = IF job.phase = "remove" THEN Run("clear", <<Step("clear_leases", 0)>>)
               ELSE Run("build", BuildSteps)
    /\ UNCHANGED <<configfsVars, service, retained, brokerVars, clientVars, budget>>

InGroup == {"unlink_connector", "unlink_encoder", "unlink_plane",
            "remove_connector", "remove_encoder", "remove_plane", "remove_crtc"}

\* A failure inside a group is remembered, one in a build rolls it back, others end the job.
AfterFailure(step) ==
    LET failed == [job EXCEPT !.result = "failed"] IN
    IF step.op \in InGroup THEN [failed EXCEPT !.incomplete = TRUE, !.todo = Tail(@)]
    ELSE IF job.phase = "build" THEN [failed EXCEPT !.phase = "rollback", !.todo = RemovePool]
    ELSE [failed EXCEPT !.todo = << >>]

Refused(step) ==
    \/ step.op = "give_up" /\ job.incomplete
    \/ step.op # "give_up" /\ ~Granted(step)

\* The kernel refuses the step, or it fails of its own accord.
StepFails ==
    LET step == Head(job.todo) IN
    /\ job.todo # << >> /\ ~Absent(step)
    /\ \/ Refused(step) /\ job' = AfterFailure(step) /\ UNCHANGED budget
       \/ ~Refused(step) /\ step.op # "give_up" /\ Spend("faults")
          /\ job' = [AfterFailure(step) EXCEPT !.faulted = TRUE]
    /\ UNCHANGED <<configfsVars, service, retained, brokerVars, clientVars>>

\* The time-out of the unit, or a kill: what the script has done so far stays.
KillJob ==
    /\ job.todo # << >> /\ Spend("faults")
    /\ job' = [job EXCEPT !.todo = << >>, !.faulted = TRUE, !.result = "failed"]
    /\ UNCHANGED <<configfsVars, service, retained, brokerVars, clientVars>>

\* The job is over.  When the service becomes inactive systemd removes the leases.
EndJob ==
    /\ job.kind # "none" /\ job.todo = << >> /\ ~MorePhases
    /\ IF job.kind = "start" /\ job.result = "none"
       THEN service' = "active" /\ UNCHANGED <<lease, revoked>>
       ELSE service' = "inactive" /\ ClearLeases /\ revoked' = Users \X Outputs
    /\ job' = NoJob
    /\ UNCHANGED <<configfsVars, retained, lock, instance, client, believes, unconfirmed, budget>>

-----------------------------------------------------------------------------
\* The clients (linux_control_client.cpp).  A user's calls follow one another.

NoCall == [instance |-> NoInstance, verb |-> "none", output |-> 0, answer |-> "none"]
Free == [pc |-> "free", user |-> NoUser, verb |-> "none", output |-> 0, mode |-> NoMode]

\* What may be the last request of a set_connector: always the change itself.
SetConnectorAskingFirst(wanted) ==
    {"status", IF wanted = "connected" THEN "connect" ELSE "disconnect"}
SetConnector(wanted) == {IF wanted = "connected" THEN "connect" ELSE "disconnect"}

Calls == (UNION {{[wanted |-> w, verb |-> v] : v \in SetConnector(w)} : w \in {"connected", "disconnected"}})
         \cup {[wanted |-> "any", verb |-> v] : v \in {"status", "mode"}}

\* A call opens a connection; systemd answers with an instance of the broker.
Request(u, n) ==
    /\ client[u] = NoCall
    /\ service = "active" /\ Spend("requests")
    /\ \E i \in Instances, call \in Calls, mode \in Modes :
        /\ instance[i].pc = "free"
        /\ instance' = [instance EXCEPT ![i] =
              [pc |-> "received", user |-> u, verb |-> call.verb, output |-> n,
               mode |-> IF call.verb = "mode" THEN mode ELSE NoMode]]
        /\ client' = [client EXCEPT ![u] =
              [instance |-> i, verb |-> call.wanted, output |-> n, answer |-> "none"]]
    /\ believes' = believes \ {<<u, n>>}
    /\ UNCHANGED <<configfsVars, poolVars, lease, lock, revoked, unconfirmed>>

\* The call's deadline: the client closes the connection, the broker goes on.
TimeOut(u) ==
    /\ client[u].instance # NoInstance /\ client[u].answer = "none"
    /\ client' = [client EXCEPT ![u] = NoCall]
    /\ UNCHANGED <<configfsVars, poolVars, brokerVars, believes, revoked, unconfirmed, budget>>

\* The call returns Success when the answer is the state that was asked for.
Receive(u) ==
    /\ client[u].answer # "none"
    /\ believes' = IF client[u].verb = "connected" /\ client[u].answer = "connected"
                   THEN believes \cup {<<u, client[u].output>>} ELSE believes
    /\ client' = [client EXCEPT ![u] = NoCall]
    /\ UNCHANGED <<configfsVars, poolVars, brokerVars, revoked, unconfirmed, budget>>

\* The compositor closes a display device that was unplugged under it.
CloseUnplugged(a) ==
    LastClose(a) /\ UNCHANGED <<poolVars, brokerVars, clientVars, budget>>

Awaited(i) == \E u \in Uids : client[u].instance = i

\* The instance answers, to a client that may no longer listen, and ends.
Answering(i, answer) ==
    /\ instance' = [instance EXCEPT ![i] = Free]
    /\ lock' = [n \in Outputs |-> IF lock[n] = i THEN NoInstance ELSE lock[n]]
    /\ client' = [u \in Uids |-> IF client[u].instance = i
                                 THEN [client[u] EXCEPT !.instance = NoInstance, !.answer = answer]
                                 ELSE client[u]]
    /\ UNCHANGED <<poolVars, believes>>

GoesOn(i, pc) ==
    /\ instance' = [instance EXCEPT ![i].pc = pc]
    /\ UNCHANGED <<poolVars, client, believes>>

-----------------------------------------------------------------------------
\* The broker instances.

\* A query of the status is answered without the lock.
CheckPool(i) ==
    LET n == instance[i].output IN
    /\ instance[i].pc = "received"
    /\ IF ~(Configured /\ device.enabled) THEN Answering(i, "error")
       ELSE IF instance[i].verb = "status" THEN Answering(i, device.config.status[n])
       ELSE GoesOn(i, "locking") /\ UNCHANGED lock
    /\ UNCHANGED <<configfsVars, lease, revoked, unconfirmed, budget>>

LockOnlyToMutate(i) ==
    LET n == instance[i].output IN
    /\ instance[i].pc = "locking"
    /\ instance[i].verb = "mode" \/ lock[n] = NoInstance
    /\ lock' = IF instance[i].verb = "mode" THEN lock ELSE [lock EXCEPT ![n] = i]
    /\ GoesOn(i, "locked")
    /\ UNCHANGED <<configfsVars, lease, revoked, unconfirmed, budget>>
Lock(i) ==
    LET n == instance[i].output IN
    /\ instance[i].pc = "locking" /\ lock[n] = NoInstance
    /\ lock' = [lock EXCEPT ![n] = i]
    /\ GoesOn(i, "locked")
    /\ UNCHANGED <<configfsVars, lease, revoked, unconfirmed, budget>>

\* flock waits a second for a holder that is slow.
LockTimesOut(i) ==
    /\ instance[i].pc = "locking" /\ lock[instance[i].output] # NoInstance
    /\ Answering(i, "error")
    /\ UNCHANGED <<configfsVars, lease, revoked, unconfirmed, budget>>

SetLease(n, u) == lease' = [lease EXCEPT ![n] = u]

\* Who may have a connected output: its owner, and root, also one that has no owner.
MayKeep(u, n) == u = Root \/ u = lease[n]

\* On a connected output: its owner and root are told so, and root takes over a lost one.
ConnectConnected(i) ==
    LET u == instance[i].user
        n == instance[i].output
    IN /\ instance[i].pc = "locked" /\ instance[i].verb = "connect" /\ Connected(n)
       /\ IF lease[n] = NoUser /\ u = Root
          THEN GoesOn(i, "claim") /\ UNCHANGED <<lock, revoked>>
          ELSE /\ Answering(i, IF MayKeep(u, n) THEN "connected" ELSE "error")
               /\ revoked' = IF u = lease[n] THEN revoked \ {<<u, n>>} ELSE revoked
       /\ UNCHANGED <<configfsVars, lease, unconfirmed, budget>>

\* On a disconnected output a lease is a leftover of an interrupted request.
ConnectDisconnectedStatusFirst(i) ==
    LET n == instance[i].output IN
    /\ instance[i].pc = "locked" /\ instance[i].verb = "connect" /\ ~Connected(n)
    /\ SetLease(n, NoUser)
    /\ GoesOn(i, "connect")
    /\ UNCHANGED <<configfsVars, lock, revoked, unconfirmed, budget>>
ConnectDisconnected(i) ==
    LET n == instance[i].output IN
    /\ instance[i].pc = "locked" /\ instance[i].verb = "connect" /\ ~Connected(n)
    /\ SetLease(n, NoUser)
    /\ GoesOn(i, "write lease")
    /\ UNCHANGED <<configfsVars, lock, revoked, unconfirmed, budget>>

WriteLease(i) ==
    LET u == instance[i].user
        n == instance[i].output
    IN /\ \/ /\ instance[i].pc = "claim"
             /\ SetLease(n, Root)
             /\ Answering(i, "connected")
          \/ /\ instance[i].pc = "write lease"
             /\ SetLease(n, u)
             /\ GoesOn(i, "connect") /\ UNCHANGED lock
       /\ unconfirmed' = unconfirmed \ {n}
       /\ UNCHANGED <<configfsVars, revoked, budget>>

WriteStatusConnected(i) ==
    LET u == instance[i].user
        n == instance[i].output
    IN /\ instance[i].pc = "connect"
       /\ StoreStatus(n, "connected")
       /\ revoked' = revoked \ {<<u, n>>}
       /\ GoesOn(i, "report connected")
       /\ UNCHANGED <<lease, lock, unconfirmed, budget>>

ReportConnected(i) ==
    /\ instance[i].pc = "report connected"
    /\ Answering(i, "connected")
    /\ UNCHANGED <<configfsVars, lease, revoked, unconfirmed, budget>>

\* The lease is given back, if that works, when the status could not be written and also
\* when it was, and only reading it back failed.
ConnectFails(i) ==
    LET u == instance[i].user
        n == instance[i].output
    IN /\ instance[i].pc \in {"connect", "report connected"} /\ Spend("faults")
       /\ \/ UNCHANGED <<lease, revoked, unconfirmed>>
          \/ /\ SetLease(n, NoUser)
             /\ revoked' = revoked \cup {<<u, n>>}
             /\ unconfirmed' = IF instance[i].pc = "report connected"
                               THEN unconfirmed \cup {n} ELSE unconfirmed
       /\ Answering(i, "error")
       /\ UNCHANGED configfsVars

MayDisconnect(u, n) ==
    \/ u \in {Root, lease[n]}
    \/ lease[n] = NoUser /\ ~Connected(n)

Disconnect(i) ==
    LET u == instance[i].user
        n == instance[i].output
    IN /\ instance[i].pc = "locked" /\ instance[i].verb = "disconnect"
       /\ IF ~MayDisconnect(u, n) THEN Answering(i, "error")
          ELSE GoesOn(i, IF Connected(n) THEN "disconnect" ELSE "release") /\ UNCHANGED lock
       /\ UNCHANGED <<configfsVars, lease, revoked, unconfirmed, budget>>

WriteStatusDisconnected(i) ==
    LET u == instance[i].user
        n == instance[i].output
    IN /\ instance[i].pc = "disconnect"
       /\ StoreStatus(n, "disconnected")
       /\ revoked' = IF u = Root \/ ~Awaited(i) THEN revoked \cup (Users \X {n}) ELSE revoked
       /\ unconfirmed' = unconfirmed \ {n}
       /\ GoesOn(i, "release")
       /\ UNCHANGED <<lease, lock, budget>>

ReleaseLease(i) ==
    /\ instance[i].pc = "release"
    /\ SetLease(instance[i].output, NoUser)
    /\ Answering(i, "disconnected")
    /\ UNCHANGED <<configfsVars, revoked, unconfirmed, budget>>

\* The requested mode is the owner's own, root's too only when root is the owner.
CheckModeOwner(i) ==
    LET n == instance[i].output IN
    /\ instance[i].pc = "locked" /\ instance[i].verb = "mode"
    /\ IF lease[n] # instance[i].user \/ ~Connected(n) THEN Answering(i, "error")
       ELSE GoesOn(i, "mode") /\ UNCHANGED lock
    /\ UNCHANGED <<configfsVars, lease, revoked, unconfirmed, budget>>

WriteMode(i) ==
    /\ instance[i].pc = "mode"
    /\ StoreRequestedMode(instance[i].output, instance[i].mode)
    /\ \/ Answering(i, "mode") /\ UNCHANGED budget
       \/ Answering(i, "error") /\ Spend("faults")
    /\ UNCHANGED <<lease, revoked, unconfirmed>>

\* A write of the other kinds fails, or the instance is killed: RuntimeMaxSec, or a stop.
InstanceFails(i) ==
    /\ instance[i].pc # "free"
    /\ IF service = "draining" THEN UNCHANGED budget ELSE Spend("faults")
    /\ Answering(i, "error")
    /\ UNCHANGED <<configfsVars, lease, revoked, unconfirmed>>

InstanceStep(i) ==
    \/ CheckPool(i) \/ Lock(i) \/ LockTimesOut(i)
    \/ ConnectConnected(i) \/ ConnectDisconnected(i) \/ WriteLease(i)
    \/ WriteStatusConnected(i) \/ ReportConnected(i) \/ ConnectFails(i)
    \/ Disconnect(i) \/ WriteStatusDisconnected(i) \/ ReleaseLease(i)
    \/ CheckModeOwner(i) \/ WriteMode(i)
    \/ InstanceFails(i)

-----------------------------------------------------------------------------
Init ==
    /\ ConfigfsInit
    /\ service = "inactive" /\ job = NoJob /\ retained = FALSE
    /\ lease = [n \in Outputs |-> NoUser]
    /\ lock = [n \in Outputs |-> NoInstance]
    /\ instance = [i \in Instances |-> Free]
    /\ client = [u \in Uids |-> NoCall]
    /\ believes = {} /\ revoked = {} /\ unconfirmed = {}
    /\ budget = [requests |-> MaxRequests, jobs |-> MaxJobs, faults |-> MaxFaults]

Next ==
    \/ StartService \/ DrainInstances \/ StopService
    \/ RunStep \/ NextPhase \/ StepFails \/ KillJob \/ EndJob
    \/ \E u \in Uids : TimeOut(u) \/ Receive(u) \/ \E n \in Outputs : Request(u, n)
    \/ \E i \in Instances : InstanceStep(i)
    \/ \E a \in Addresses : CloseUnplugged(a)

Spec == Init /\ [][Next]_vars

-----------------------------------------------------------------------------
\* Properties

InService == service \in {"active", "draining"}

\* An output that is connected has an owner who can disconnect it again, wherever a request was
\* killed and whichever of its writes failed (vibeshine-vkms:788-827): the lease is written
\* before the status, and goes after it.  Two outputs have none: one in a pool that a start
\* found left behind by a stop, whose leases systemd removed; and one that was connected but
\* could not be read back (799), whose lease the request gives up although it wrote the status
\* (800), until root takes it over or disconnects it.
ConnectedHasOwner ==
    InService /\ ~retained =>
        \A n \in Outputs : Connected(n) => lease[n] # NoUser \/ n \in unconfirmed

\* Success of set_connector(output, true) is the user's own output, connected
\* (linux_control_client.cpp:212-226), and it stays so until the user, root or the end of the
\* pool takes it, or a late request of the user's own that had timed out: whatever other users
\* ask for at the same time, and whichever requests are killed.
AcknowledgedOutputsKept ==
    InService =>
        \A u \in Users, n \in Outputs :
            <<u, n>> \in believes \ revoked => Connected(n) /\ lease[n] = u

\* No start or stop fails by itself, whatever earlier ones that failed or were killed between
\* two steps have left in configfs; and an active service has the whole pool, enabled
\* (vibeshine-vkms:581-615).
PoolServiceRecovers ==
    /\ job.result = "failed" => job.faulted
    /\ InService => ValidTopology /\ device.enabled

\* While requests race, an output is disconnected only for its owner or root, and its mode
\* changes only while it is connected, for its owner (vibeshine-vkms:806-821, 942-963).
OnlyOwnersChangeOutputs ==
    [][InService =>
        \A n \in Outputs :
            /\ Connected(n) /\ ~Connected(n)' =>
                \E i \in Instances : /\ instance'[i] # instance[i] /\ instance[i].output = n
                                     /\ instance[i].user \in {Root, lease[n]}
            /\ live'.connectors[n].requested # live.connectors[n].requested =>
                /\ Connected(n)
                /\ \E i \in Instances : /\ instance'[i] # instance[i] /\ instance[i].output = n
                                        /\ instance[i].user = lease[n]]_vars
=============================================================================
