----------------------------- MODULE BrokerService -----------------------------
(***************************************************************************)
(* The Windows broker service (tools/virtualdisplay_broker.cpp), which     *)
(* serves one command at a time over a named pipe, keeps the manifest of   *)
(* permanent displays in the registry and gives it back to the driver when *)
(* it starts; the clients of the pipe and the service commands of the      *)
(* command line (tools/virtualdisplay.cpp); and the way a request takes    *)
(* through ControlClient, WindowsControlTransport and DeviceState to the   *)
(* driver.                                                                 *)
(*                                                                         *)
(* The service manager, the registry, the session helper and other users   *)
(* of the driver are external.  The driver is its manifest here: a request *)
(* that succeeds takes effect at one moment (DriverController shows that   *)
(* the last manifest recorded is the one the displays follow).  A request  *)
(* whose transport times out may still take effect, at any later time.     *)
(*                                                                         *)
(* A definition named for what is wrong with it is a faulty variant of the *)
(* one that follows: no specification uses it.                             *)
(***************************************************************************)
EXTENDS Integers, FiniteSets

CONSTANTS
    MaxDisplays,        \* kMaxPermanentDisplays: the connectors are 0 .. MaxDisplays - 1
    Settings,           \* what a profile says: mode, size, name
    BadSettings,        \* settings that no display may have
    Unparsable,         \* the settings of a command that is malformed
    NoProfile,          \* a connector without a profile
    Clients, Handler,   \* who opens the pipe: clients, and the handler of the stop control
    CommandLine,        \* the clients that are the command line; any administrator may open the pipe
    NoClient,
    Commands,           \* what each client may send
    NoCommand,
    NotSaved,           \* no manifest in the registry
    FirstSaved,         \* what the registry may hold at first
    ForeignManifests,   \* what other users of the device set
    Images, NoImage,    \* executables a service may run; no service installed
    OwnImage,           \* the executable beside the one of the clients
    RestoreAttempts,    \* kRestoreAttempts
    MaxCommands,        \* bound on the commands of clients
    MaxControls,        \* bound on the commands of the command line
    MaxFaults           \* bound on failures, crashes, restarts and foreign changes

Connectors == 0..(MaxDisplays - 1)
Manifests == [Connectors -> Settings \cup {NoProfile}]
\* validate_display_manifest: the registry and the driver refuse every other manifest.
Valid(manifest) == manifest \in Manifests

Empty == [c \in Connectors |-> NoProfile]

\* display_manifest_from_permanent_settings: the first displays, all alike.
PermanentManifest(count, settings) ==
    [c \in Connectors |-> IF c < count THEN settings ELSE NoProfile]

ASSUME BrokerAssumption ==
    /\ MaxDisplays \in Nat \ {0} /\ RestoreAttempts \in Nat \ {0}
    /\ {MaxCommands, MaxControls, MaxFaults} \subseteq Nat
    /\ {NoProfile, BadSettings, Unparsable} \cap Settings = {} /\ NoProfile # BadSettings
    /\ CommandLine \subseteq Clients /\ Handler \notin Clients /\ NoClient \notin Clients \cup {Handler}
    /\ NotSaved \notin Manifests /\ FirstSaved \subseteq Manifests \cup {NotSaved}
    /\ ForeignManifests \subseteq Manifests
    /\ OwnImage \in Images /\ NoImage \notin Images

VARIABLES
    service,    \* as the service manager has it: the image, the state, the running image
    control,    \* the service command of the command line that is running
    stop,       \* stop_requested and the stop event
    handler,    \* the handler of the stop control: "idle", "to open" the pipe, or it "missed" the pipe
    broker,     \* the loop of the broker process
    pipe,       \* "none", "listening", or who has it open
    client,     \* the clients of the pipe
    saved,      \* the manifest in the registry
    driver,     \* the manifest of the driver
    late,       \* manifests of requests that timed out and may still reach the driver
    handle,     \* the broker's handle of the control device: "none", "live", "stale"
    promised,   \* auxiliary: the manifest of the last change that was answered "ok"
    kept,       \* auxiliary: where nothing has happened to it that no answer covers
    budget      \* commands, controls and faults left

brokerVars == <<broker, pipe, stop, handle>>
driverVars == <<driver, late>>
auxVars == <<promised, kept>>
vars == <<service, control, handler, brokerVars, client, saved, driverVars, auxVars, budget>>

Spend(what) == budget[what] > 0 /\ budget' = [budget EXCEPT ![what] = @ - 1]
Fault == Spend("faults")

NoBroker == [pc |-> "none", command |-> NoCommand, manifest |-> Empty, original |-> Empty,
             attempt |-> 0, answer |-> "none"]
Idle == [at |-> "idle", command |-> NoCommand]
NoControl == [at |-> "none", op |-> "none", image |-> NoImage, previous |-> NoImage]

Restored(s) == IF s = NotSaved THEN Empty ELSE s

Init ==
    /\ service \in {[image |-> NoImage, state |-> "stopped", running |-> NoImage],
                    [image |-> OwnImage, state |-> "stopped", running |-> NoImage]}
    /\ control = NoControl
    /\ stop = FALSE /\ handler = "idle"
    /\ broker = NoBroker /\ pipe = "none" /\ handle = "none"
    /\ client = [c \in Clients |-> Idle]
    /\ saved \in FirstSaved
    /\ driver = Empty /\ late = {}
    /\ promised = Restored(saved)
    /\ kept = IF promised = driver THEN {"saved", "driver"} ELSE {"saved"}
    /\ budget = [commands |-> MaxCommands, controls |-> MaxControls, faults |-> MaxFaults]

-----------------------------------------------------------------------------
\* Requests to the driver.

At(pc) == broker.pc = pc
Goto(pc) == broker' = [broker EXCEPT !.pc = pc]
\* What the broker had in hand for the command is gone with the answer.
AnswerWith(answer) == broker' = [NoBroker EXCEPT !.pc = "replying", !.answer = answer]

\* A request succeeds while the handle is of the device that is there.
Succeeds == handle = "live" /\ UNCHANGED <<budget, late, handle>>

\* A stale handle fails every request.  Otherwise the driver refuses the request when its
\* backend is unhealthy, its controller stays busy or the backend fails.
Fails == IF handle = "live" THEN Fault /\ UNCHANGED <<late, handle>>
         ELSE UNCHANGED <<budget, late, handle>>

\* The transport stops waiting after 30 seconds.  The request may have been cancelled, have
\* taken effect, or take effect later.
TimesOut(manifest) == /\ handle = "live" /\ Fault
                      /\ late' = late \cup {manifest}
                      /\ UNCHANGED handle

LateRequestArrives ==
    \E m \in late :
        /\ late' = late \ {m} /\ driver' = m
        /\ UNCHANGED <<service, control, handler, brokerVars, client, saved, auxVars, budget>>

LateRequestCancelled ==
    \E m \in late :
        /\ late' = late \ {m}
        /\ UNCHANGED <<service, control, handler, brokerVars, client, saved, driver, auxVars, budget>>

\* Another user of the control device sets the manifest.
ForeignChange ==
    \E m \in ForeignManifests \ {driver} :
        /\ Fault
        /\ driver' = m /\ kept' = kept \ {"driver"}
        /\ UNCHANGED <<service, control, handler, brokerVars, client, saved, late, promised>>

\* The device goes away and comes back without its permanent displays.
DeviceRestarts ==
    /\ Fault
    /\ driver' = Empty /\ late' = {}
    /\ handle' = IF handle = "none" THEN "none" ELSE "stale"
    /\ kept' = IF promised = Empty THEN kept ELSE kept \ {"driver"}
    /\ UNCHANGED <<service, control, handler, broker, pipe, stop, client, saved, promised>>

-----------------------------------------------------------------------------
\* The start of the broker, and its loop.

Exits ==
    /\ broker' = NoBroker /\ pipe' = "none" /\ handle' = "none"
    /\ stop' = FALSE /\ handler' = "idle"
    /\ service' = [service EXCEPT !.state = "stopped", !.running = NoImage]
    /\ client' = [c \in Clients |-> IF pipe = c THEN Idle ELSE client[c]]

OpenDevice ==
    /\ At("opening")
    /\ Goto("protocol") /\ handle' = "live"
    /\ UNCHANGED <<service, control, handler, pipe, stop, client, saved, driverVars, auxVars, budget>>

\* No device, a driver whose protocol does not fit, or no pipe.
StartFails ==
    /\ \/ broker.pc \in {"opening", "creating"} /\ Fault
       \/ At("protocol") /\ IF handle = "live" THEN Fault ELSE UNCHANGED budget
    /\ Exits
    /\ UNCHANGED <<control, saved, driverVars, auxVars>>

CheckProtocol ==
    /\ At("protocol") /\ Succeeds
    /\ Goto("query for restore")
    /\ UNCHANGED <<service, control, handler, pipe, stop, client, saved, driver, auxVars>>

LoadManifest ==
    /\ At("query for restore") /\ Succeeds
    /\ IF Restored(saved) = Empty THEN Goto("checking")
       ELSE broker' = [broker EXCEPT !.pc = "restoring", !.manifest = saved, !.attempt = 0]
    /\ UNCHANGED <<service, control, handler, pipe, stop, client, saved, driver, auxVars>>

\* The query is not repeated.
RestoreUnqueried ==
    /\ At("query for restore") /\ Fails
    /\ Goto("unqueried")
    /\ UNCHANGED <<service, control, handler, pipe, stop, client, saved, driver, auxVars>>

Restore ==
    /\ At("restoring") /\ Succeeds
    /\ driver' = broker.manifest /\ Goto("checking")
    /\ kept' = IF late = {} /\ promised = broker.manifest THEN kept \cup {"driver"} ELSE kept \ {"driver"}
    /\ UNCHANGED <<service, control, handler, pipe, stop, client, saved, promised>>

RestoreOnce ==
    /\ At("restoring") /\ (Fails \/ TimesOut(broker.manifest))
    /\ Goto("checking") /\ kept' = kept \ {"driver"}
    /\ UNCHANGED <<service, control, handler, pipe, stop, client, saved, driver, promised>>
RestoreFails ==
    /\ At("restoring") /\ (Fails \/ TimesOut(broker.manifest))
    /\ IF stop THEN Goto("checking")
       ELSE IF broker.attempt + 1 = RestoreAttempts THEN Goto("exhausted")
       ELSE broker' = [broker EXCEPT !.attempt = @ + 1]
    /\ kept' = kept \ {"driver"}
    /\ UNCHANGED <<service, control, handler, pipe, stop, client, saved, driver, promised>>

\* What cannot be restored is written to the event log, and the broker serves its clients.
RestoreReported ==
    /\ broker.pc \in {"unqueried", "exhausted"}
    /\ Goto("checking")
    /\ UNCHANGED <<service, control, handler, pipe, stop, handle, client, saved, driverVars, auxVars, budget>>

CheckStop ==
    /\ At("checking") /\ ~stop
    /\ Goto("creating")
    /\ UNCHANGED <<service, control, handler, pipe, stop, handle, client, saved, driverVars, auxVars, budget>>

LoopEnds ==
    /\ At("checking") /\ stop
    /\ Exits
    /\ UNCHANGED <<control, saved, driverVars, auxVars, budget>>

\* The one instance of the pipe: whoever opens it has it until the broker closes it.
CreatePipe ==
    /\ At("creating")
    /\ Goto("connecting") /\ pipe' = "listening"
    /\ UNCHANGED <<service, control, handler, stop, handle, client, saved, driverVars, auxVars, budget>>

\* ConnectNamedPipe returns.  With the stop requested nobody is served.
Connected ==
    /\ At("connecting") /\ pipe # "listening"
    /\ Goto(IF stop THEN "closing" ELSE "authorizing")
    /\ UNCHANGED <<service, control, handler, pipe, stop, handle, client, saved, driverVars, auxVars, budget>>

\* Only the system and administrators are served; the token may not be readable.
Authorize ==
    /\ At("authorizing")
    /\ \/ pipe \in Clients /\ Goto("reading") /\ UNCHANGED budget
       \/ Fault /\ AnswerWith("error")
    /\ UNCHANGED <<service, control, handler, pipe, stop, handle, client, saved, driverVars, auxVars>>

\* The handler's connection sends nothing, a silent client runs out of its five seconds, one
\* that has left makes the look at the pipe fail, and the stop cancels the wait.
ReadNothing ==
    /\ At("reading")
    /\ AnswerWith("error")
    /\ UNCHANGED <<service, control, handler, pipe, stop, handle, client, saved, driverVars, auxVars, budget>>

ParsesProfile(command) == command.kind = "profile" /\ command.settings # Unparsable
ParsesPermanent(command) == command.kind = "permanent" /\ command.settings # Unparsable
ParsesHelper(command) == command.kind = "helper" /\ command.settings # Unparsable

\* handle_command: what a command starts with.
FirstStep(command) ==
    CASE command.kind = "query" -> "query"
      [] ParsesProfile(command) -> "profile: count"
      [] ParsesPermanent(command) -> "permanent: count"
      [] ParsesHelper(command) -> "helper"
      [] OTHER -> "replying"

ReadCommand ==
    /\ At("reading") /\ ~stop
    /\ \E c \in Clients :
        /\ pipe = c /\ client[c].at \in {"sent", "left"}
        /\ LET k == client[c].command IN
           /\ IF FirstStep(k) = "replying" THEN AnswerWith("error")
              ELSE broker' = [broker EXCEPT !.pc = FirstStep(k), !.command = k]
           /\ client' = [client EXCEPT ![c].command = NoCommand]
    /\ UNCHANGED <<service, control, handler, pipe, stop, handle, saved, driverVars, auxVars, budget>>

\* The answer is written into the pipe ...
Reply ==
    /\ At("replying")
    /\ broker' = [NoBroker EXCEPT !.pc = "flushing"]
    /\ UNCHANGED <<service, control, handler, pipe, stop, handle, client, saved, driverVars, auxVars, budget>>

\* ... and FlushFileBuffers waits until the client has read it or closed its end, without a
\* time limit and without a look at the stop.
Open(c) == pipe = c /\ client[c].at \in {"verifying", "sent"}

Flushed ==
    /\ At("flushing") /\ \A c \in Clients : ~Open(c)
    /\ Goto("closing")
    /\ UNCHANGED <<service, control, handler, pipe, stop, handle, client, saved, driverVars, auxVars, budget>>

ClosePipe ==
    /\ At("closing")
    /\ client' = [c \in Clients |-> IF pipe = c THEN Idle ELSE client[c]]
    /\ pipe' = "none"
    /\ broker' = [NoBroker EXCEPT !.pc = "checking"]
    /\ UNCHANGED <<service, control, handler, stop, handle, saved, driverVars, auxVars, budget>>

-----------------------------------------------------------------------------
\* The commands.

\* Every query, and the steps of a change that only read, answer the failure of the request.
Reads == {"query", "profile: count", "profile: manifest", "permanent: count", "permanent: result"}

ReadFails ==
    /\ broker.pc \in Reads /\ Fails
    /\ AnswerWith("error")
    /\ UNCHANGED <<service, control, handler, pipe, stop, client, saved, driver, auxVars>>

AnswerQuery ==
    /\ broker.pc \in {"query", "permanent: result"} /\ Succeeds
    /\ AnswerWith("ok")
    /\ UNCHANGED <<service, control, handler, pipe, stop, client, saved, driver, auxVars>>

\* manifest-profile-set: a connector beyond the driver's count is refused.
ProfileCount ==
    /\ At("profile: count") /\ Succeeds
    /\ IF broker.command.connector \in Connectors THEN Goto("profile: manifest") ELSE AnswerWith("error")
    /\ UNCHANGED <<service, control, handler, pipe, stop, client, saved, driver, auxVars>>

\* The profile replaces the one of its connector in the driver's manifest, or is added to it.
\* What is saved is no longer the promise when the driver's manifest was not.
ProfileManifest ==
    /\ At("profile: manifest") /\ Succeeds
    /\ broker' = [broker EXCEPT !.pc = "profile: save", !.original = driver,
                  !.manifest = [driver EXCEPT ![broker.command.connector] = broker.command.settings]]
    /\ kept' = IF driver = promised THEN kept ELSE kept \ {"saved"}
    /\ UNCHANGED <<service, control, handler, pipe, stop, client, saved, driver, promised>>

ProfileSave ==
    /\ At("profile: save")
    /\ \/ /\ Valid(broker.manifest) /\ UNCHANGED budget
          /\ saved' = broker.manifest /\ Goto("profile: apply")
       \/ /\ IF Valid(broker.manifest) THEN Fault ELSE UNCHANGED budget
          /\ AnswerWith("error") /\ UNCHANGED saved
    /\ UNCHANGED <<service, control, handler, pipe, stop, handle, client, driverVars, auxVars>>

\* An answer that promises the manifest of the command, whatever was promised before.
Promise(manifest) ==
    /\ promised' = manifest
    /\ kept' = IF late = {} /\ driver' = manifest THEN {"saved", "driver"} ELSE {"saved"}

ProfileApply ==
    /\ At("profile: apply") /\ Succeeds
    /\ driver' = broker.manifest /\ AnswerWith("ok")
    /\ Promise(broker.manifest)
    /\ UNCHANGED <<service, control, handler, pipe, stop, client, saved>>

ProfileApplyFailsForGood ==
    /\ At("profile: apply")
    /\ \/ Fails /\ UNCHANGED kept
       \/ TimesOut(broker.manifest) /\ kept' = kept \ {"driver"}
    /\ AnswerWith("error")
    /\ UNCHANGED <<service, control, handler, pipe, stop, client, saved, driver, promised>>
ProfileApplyFails ==
    /\ At("profile: apply")
    /\ \/ Fails /\ UNCHANGED kept
       \/ TimesOut(broker.manifest) /\ kept' = kept \ {"driver"}
    /\ Goto("profile: roll back")
    /\ UNCHANGED <<service, control, handler, pipe, stop, client, saved, driver, promised>>

\* The registry gets back what the driver had.
ProfileRollBack ==
    /\ At("profile: roll back") /\ AnswerWith("error")
    /\ \/ saved' = broker.original /\ UNCHANGED <<budget, kept>>
       \/ Fault /\ kept' = kept \ {"saved"} /\ UNCHANGED saved
    /\ UNCHANGED <<service, control, handler, pipe, stop, handle, client, driverVars, promised>>

\* permanent-set: the driver first, then the registry.
PermanentCount ==
    /\ At("permanent: count") /\ Succeeds
    /\ broker' = [broker EXCEPT !.pc = "permanent: apply",
                  !.manifest = PermanentManifest(broker.command.count, broker.command.settings)]
    /\ UNCHANGED <<service, control, handler, pipe, stop, client, saved, driver, auxVars>>

PermanentApply ==
    /\ At("permanent: apply")
    /\ \/ /\ Valid(broker.manifest) /\ Succeeds
          /\ driver' = broker.manifest /\ Goto("permanent: save") /\ UNCHANGED kept
       \/ /\ IF Valid(broker.manifest) THEN Fails ELSE UNCHANGED <<budget, late, handle>>
          /\ AnswerWith("error") /\ UNCHANGED <<driver, kept>>
       \/ /\ Valid(broker.manifest) /\ TimesOut(broker.manifest)
          /\ AnswerWith("error") /\ kept' = kept \ {"driver"} /\ UNCHANGED driver
    /\ UNCHANGED <<service, control, handler, pipe, stop, client, saved, promised>>

\* The last query only decides on the wording of the answer: the change has been made.
PermanentSave ==
    /\ At("permanent: save")
    /\ \/ /\ saved' = broker.manifest /\ Goto("permanent: result")
          /\ UNCHANGED <<driver, budget>> /\ Promise(broker.manifest)
       \/ Fault /\ AnswerWith("error") /\ kept' = kept \ {"driver"} /\ UNCHANGED <<saved, driver, promised>>
    /\ UNCHANGED <<service, control, handler, pipe, stop, handle, client, late>>

\* The helper ends, runs out of its two minutes, or is ended by the stop.  Without a user in
\* the client's session it is started once more in the session of the console.
HelperEnds ==
    /\ broker.pc \in {"helper", "helper on console"}
    /\ \/ AnswerWith("ok") /\ UNCHANGED budget
       \/ Fault /\ AnswerWith("error")
       \/ Fault /\ At("helper") /\ Goto("helper on console")
    /\ UNCHANGED <<service, control, handler, pipe, stop, handle, client, saved, driverVars, auxVars>>

\* The process ends between any two steps: what a change had done so far stays.
Changing == broker.pc \in {"profile: apply", "profile: roll back", "permanent: save"}

BrokerCrashes ==
    /\ ~At("none") /\ Fault
    /\ Exits
    /\ kept' = IF ~Changing THEN kept
               ELSE IF At("permanent: save") THEN kept \ {"driver"} ELSE kept \ {"saved"}
    /\ UNCHANGED <<control, saved, driverVars, promised>>

-----------------------------------------------------------------------------
\* The stop control.  Its handler tells the service manager, sets the flag and the event, and
\* opens the pipe to end the wait for a client.

Stop == /\ service' = [service EXCEPT !.state = "stop pending"]
        /\ stop' = TRUE /\ handler' = "to open"

HandlerOpensNothing ==
    /\ handler = "to open"
    /\ handler' = "idle"
    /\ UNCHANGED <<service, control, stop, pipe, broker, handle, client, saved, driverVars, auxVars, budget>>
HandlerOpens ==
    /\ handler = "to open"
    /\ handler' = IF At("creating") THEN "missed" ELSE "idle"
    /\ pipe' = IF pipe = "listening" THEN Handler ELSE pipe
    /\ UNCHANGED <<service, control, stop, broker, handle, client, saved, driverVars, auxVars, budget>>

-----------------------------------------------------------------------------
\* The clients of the pipe.  One that finds the pipe busy or gone gives up at once.

Connect(c) ==
    /\ client[c].at = "idle" /\ pipe = "listening" /\ Spend("commands")
    /\ \E k \in Commands[c] : client' = [client EXCEPT ![c] = [at |-> "verifying", command |-> k]]
    /\ pipe' = c
    /\ UNCHANGED <<service, control, handler, stop, broker, handle, saved, driverVars, auxVars>>

\* The command line tells its command to the process of the running service only, and only
\* when that runs the executable beside its own.  Others may tell it to anybody.
Trusted == service.state = "running" /\ service.running = OwnImage

Verify(c) ==
    /\ client[c].at = "verifying"
    /\ \E at \in {"sent", "gone"} :
        /\ c \in CommandLine => (at = "sent" <=> Trusted)
        /\ client' = [client EXCEPT ![c].at = at]
    /\ UNCHANGED <<service, control, handler, brokerVars, saved, driverVars, auxVars, budget>>

\* The answer is read to its end, and the client closes the pipe.
ReadAnswer(c) ==
    /\ At("flushing") /\ pipe = c /\ client[c].at = "sent"
    /\ client' = [client EXCEPT ![c] = Idle]
    /\ UNCHANGED <<service, control, handler, brokerVars, saved, driverVars, auxVars, budget>>

\* The client runs out of its time, while the broker goes on.
Leave(c) ==
    /\ client[c].at = "sent" /\ Fault
    /\ client' = [client EXCEPT ![c].at = "left"]
    /\ UNCHANGED <<service, control, handler, brokerVars, saved, driverVars, auxVars>>

-----------------------------------------------------------------------------
\* The service commands of the command line, one at a time.

Begin(op, image) ==
    /\ control.at = "none" /\ Spend("controls")
    /\ control' = [at |-> op, op |-> op, image |-> image, previous |-> service.image]

EndControl == control' = NoControl

Unmoved == UNCHANGED <<client, saved, driverVars, auxVars>>

\* CreateService, or the new binary path of the service that is there.
Install ==
    \E i \in Images :
        /\ Begin("install", i)
        /\ service' = [service EXCEPT !.image = i]
        /\ UNCHANGED <<handler, brokerVars>> /\ Unmoved

\* Hardening fails: the new service is deleted again, the old one gets its path back.
Harden ==
    /\ control.at = "install"
    /\ \/ UNCHANGED <<service, budget>>
       \/ Fault /\ service' = [service EXCEPT !.image = control.previous]
    /\ EndControl
    /\ UNCHANGED <<handler, brokerVars>> /\ Unmoved

\* The state of the service is queried first and again until it is the one that is wanted.
StartService ==
    /\ service.image # NoImage /\ service.state = "stopped"
    /\ Begin("start", NoImage)
    /\ service' = [service EXCEPT !.state = "start pending", !.running = service.image]
    /\ UNCHANGED <<handler, brokerVars>> /\ Unmoved

\* The service reports that it runs before the broker has opened the device.
ServiceMain ==
    /\ service.state = "start pending"
    /\ service' = [service EXCEPT !.state = "running"]
    /\ Goto("opening") /\ stop' = FALSE
    /\ UNCHANGED <<control, handler, pipe, handle, budget>> /\ Unmoved

StopService(op) ==
    /\ service.image # NoImage /\ service.state = "running"
    /\ Begin(op, NoImage) /\ Stop
    /\ UNCHANGED <<broker, pipe, handle>> /\ Unmoved

Wanted(op) == IF op = "start" THEN "running" ELSE "stopped"

\* The wait for the state ends when it is seen, or after thirty seconds.
Uninstalls == control.op = "uninstall"
WaitEnds ==
    /\ control.at \in {"start", "stop", "uninstall"}
    /\ \/ /\ service.state = Wanted(control.op) /\ UNCHANGED budget
          /\ service' = IF Uninstalls THEN [service EXCEPT !.image = NoImage] ELSE service
       \/ service.state # Wanted(control.op) /\ Fault /\ UNCHANGED service
    /\ EndControl
    /\ UNCHANGED <<handler, brokerVars>> /\ Unmoved

\* A service that is stopped already is deleted at once.
UninstallStopped ==
    /\ service.image # NoImage /\ service.state = "stopped"
    /\ control.at = "none" /\ Spend("controls")
    /\ service' = [service EXCEPT !.image = NoImage]
    /\ UNCHANGED <<control, handler, brokerVars>> /\ Unmoved

-----------------------------------------------------------------------------
BrokerStep ==
    \/ OpenDevice \/ StartFails \/ CheckProtocol \/ LoadManifest \/ RestoreUnqueried
    \/ Restore \/ RestoreFails \/ RestoreReported \/ CheckStop \/ LoopEnds \/ CreatePipe \/ Connected
    \/ Authorize \/ ReadNothing \/ ReadCommand \/ Reply \/ Flushed \/ ClosePipe
    \/ ReadFails \/ AnswerQuery \/ ProfileCount \/ ProfileManifest \/ ProfileSave
    \/ ProfileApply \/ ProfileApplyFails \/ ProfileRollBack
    \/ PermanentCount \/ PermanentApply \/ PermanentSave \/ HelperEnds

ClientStep(c) == Connect(c) \/ Verify(c) \/ ReadAnswer(c) \/ Leave(c)

ControlStep ==
    \/ Install \/ Harden \/ StartService \/ StopService("stop") \/ StopService("uninstall")
    \/ WaitEnds \/ UninstallStopped

Next ==
    \/ BrokerStep \/ BrokerCrashes \/ HandlerOpens \/ ServiceMain \/ ControlStep
    \/ \E c \in Clients : ClientStep(c)
    \/ LateRequestArrives \/ LateRequestCancelled \/ ForeignChange \/ DeviceRestarts

Spec == Init /\ [][Next]_vars

\* The threads of the service are scheduled, and the command line, once it has the pipe, asks
\* who is at the other end and reads its answer.  Nobody has to connect to the pipe, no command
\* has to be given, and a client of somebody else's making need not do anything.
Fairness ==
    /\ WF_vars(BrokerStep) /\ WF_vars(HandlerOpens) /\ WF_vars(ServiceMain)
    /\ \A c \in CommandLine : WF_vars(Verify(c)) /\ WF_vars(ReadAnswer(c))

FairSpec == Spec /\ Fairness

-----------------------------------------------------------------------------
(* Properties *)

\* What the last answered change promised is in the registry and in the driver between two
\* commands, whatever failed, timed out, crashed or restarted since.  The registry is excused
\* when a save of it failed, the process died halfway through a change, or the change began
\* from a manifest of the driver that was not the promised one; the driver when another user
\* changed it, the device restarted without it, or a request to it timed out or could not be
\* completed, until a broker has restored it.
AnsweredSettingsKept ==
    ~Changing =>
        /\ "saved" \in kept => Restored(saved) = promised
        /\ "driver" \in kept => driver = promised

\* A broker that starts gives the saved displays back to the driver (restore_persisted_display_-
\* manifest, virtualdisplay_broker.cpp:849-885).  There is no promise of more: it does not when
\* its one query of the driver fails (850-857), when the driver refuses all its attempts
\* (880-884), when it is stopped, when it ends, also because it finds no device, or when the
\* device it has opened goes away.
SettingsRestored ==
    At("opening") /\ Restored(saved) # Empty ~>
        \/ driver = Restored(saved)
        \/ At("unqueried") \/ At("exhausted") \/ stop \/ At("none") \/ handle = "stale"

\* The answer waits for a client that is not the command line.
HeldByClient == At("flushing") /\ \E c \in Clients \ CommandLine : Open(c)

\* A stop ends the service (service_control_handler and run_broker_loop,
\* virtualdisplay_broker.cpp:887-1013): the handler opens the pipe to wake a broker that waits
\* for a client, and all it waits for otherwise ends by itself, with two exceptions.  A client
\* that neither reads its answer nor leaves keeps the broker in FlushFileBuffers (846, 960).
\* And a handler that comes between the look at the flag (922) and the creation of the pipe
\* finds none: the broker waits for its next client then, who ends it.
StopCompletes ==
    /\ service.state = "stop pending" ~>
        \/ service.state = "stopped" \/ HeldByClient
        \/ handler = "missed" /\ At("connecting") /\ pipe = "listening"
    /\ handler = "missed" /\ pipe \in Clients ~> service.state = "stopped"
=============================================================================
