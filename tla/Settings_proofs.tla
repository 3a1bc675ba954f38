-------------------------- MODULE Settings_proofs --------------------------
(***************************************************************************)
(* What somebody asked for is kept: the displays of the broker service,    *)
(* and the modes and the settings of a monitor that arrives.               *)
(*                                                                         *)
(* The first part is about the broker (BrokerService).  What an answered   *)
(* change promised is kept in the registry and in the driver, for any      *)
(* number of displays, settings, clients and commands, and with any        *)
(* failures, time-outs, crashes, restarts and foreign changes.  A profile  *)
(* is saved before it is applied: while it is on its way, what was         *)
(* promised is in the hands of the broker, as the original to roll back    *)
(* to.  Permanent displays are applied before they are saved: while they   *)
(* are on their way it is the driver that differs from the promise.        *)
(* Between two commands both agree with it, except where something         *)
(* happened that no answer covers, which is what "kept" leaves out.        *)
(*                                                                         *)
(* The second part is about arrivals (MonitorArrival), for any number of   *)
(* displays, requests, places, arrivals, attempts, failures and changes.   *)
(* Everybody who has a reference on the mode of an EDID asked for that     *)
(* mode, so that nobody is told of another one.  What the driver has in    *)
(* its hands for a display the user gave that display; and the last        *)
(* attempt of a work item finds the monitor in its place and settles it.   *)
(***************************************************************************)
EXTENDS BrokerService, MonitorArrival, FiniteSetTheorems, WellFoundedInduction, TLAPS

-----------------------------------------------------------------------------
(* The broker.                                                             *)

\* The places of the broker at which it holds a manifest that it is going to use.
Saving == {"profile: save", "profile: apply", "profile: roll back"}
Calm(pc) == pc \notin Saving \cup {"none", "restoring", "permanent: save"}

Services ==
    [image : Images \cup {NoImage},
     state : {"stopped", "start pending", "running", "stop pending"},
     running : Images \cup {NoImage}]

BrokerTypes ==
    /\ service \in Services
    /\ control.previous \in Images \cup {NoImage}
    /\ broker = [pc |-> broker.pc, command |-> broker.command, manifest |-> broker.manifest,
                 original |-> broker.original, attempt |-> broker.attempt, answer |-> broker.answer]
    /\ driver \in Manifests /\ late \subseteq Manifests
    /\ saved \in Manifests \cup {NotSaved}
    /\ promised \in Manifests

\* There is a broker only while the service manager has the service as running.
Runs == ~At("none") => service.state \in {"running", "stop pending"}

\* What the broker holds is a manifest that the driver has, had, or accepts.
Carries ==
    /\ broker.pc \in {"restoring", "profile: apply", "permanent: save"} => broker.manifest \in Manifests
    /\ broker.pc \in Saving => broker.original \in Manifests

\* The registry has what was promised; once a profile is saved, the broker has.
RegistryAgrees ==
    /\ "saved" \in kept /\ ~At("profile: apply") /\ ~At("profile: roll back") => Restored(saved) = promised
    /\ "saved" \in kept /\ broker.pc \in Saving => broker.original = promised
    /\ At("profile: apply") => saved = broker.manifest

\* The driver has what was promised, and no request is under way that could change it,
\* until permanent displays are applied.
DriverAgrees ==
    "driver" \in kept =>
        /\ late = {}
        /\ ~At("permanent: save") => driver = promised

BrokerInv == BrokerTypes /\ Runs /\ Carries /\ RegistryAgrees /\ DriverAgrees

-----------------------------------------------------------------------------
(* Manifests, and the steps of the broker that leave them alone.           *)

\* No display at all is a manifest.
LEMMA EmptyIsManifest == Empty \in Manifests
  BY DEF Empty, Manifests

\* What the registry gives back is a manifest.
LEMMA RestoredIsManifest ==
  ASSUME NEW s \in Manifests \cup {NotSaved}
  PROVE  Restored(s) \in Manifests
  BY EmptyIsManifest DEF Restored

\* A manifest that was saved is given back as it is.
LEMMA SavedIsRestored ==
  ASSUME NEW m \in Manifests
  PROVE  Restored(m) = m
  BY BrokerAssumption DEF Restored

\* A broker that goes on somewhere keeps all it holds.
LEMMA GoesOn ==
  ASSUME BrokerTypes, NEW pc, Goto(pc)
  PROVE  /\ broker'.pc = pc
         /\ broker'.manifest = broker.manifest
         /\ broker'.original = broker.original
         /\ (broker = [pc |-> broker.pc, command |-> broker.command, manifest |-> broker.manifest,
                       original |-> broker.original, attempt |-> broker.attempt, answer |-> broker.answer])'
  BY DEF BrokerTypes, Goto

\* A broker that has its answer replies.
LEMMA Answers ==
  ASSUME BrokerTypes, NEW answer, AnswerWith(answer)
  PROVE  /\ broker'.pc = "replying"
         /\ (broker = [pc |-> broker.pc, command |-> broker.command, manifest |-> broker.manifest,
                       original |-> broker.original, attempt |-> broker.attempt, answer |-> broker.answer])'
  BY DEF AnswerWith, NoBroker

\* The process is gone, and the service manager knows.
LEMMA ExitsTyped ==
  ASSUME BrokerTypes, Exits
  PROVE  /\ broker'.pc = "none"
         /\ (broker = [pc |-> broker.pc, command |-> broker.command, manifest |-> broker.manifest,
                       original |-> broker.original, attempt |-> broker.attempt, answer |-> broker.answer])'
         /\ service' \in Services
  <1>1. broker'.pc = "none"
    BY DEF Exits, NoBroker
  <1>2. (broker = [pc |-> broker.pc, command |-> broker.command, manifest |-> broker.manifest,
                   original |-> broker.original, attempt |-> broker.attempt, answer |-> broker.answer])'
    BY DEF Exits, NoBroker
  <1>3. service' \in Services
    BY DEF Exits, BrokerTypes, Services
  <1> QED
    BY <1>1, <1>2, <1>3

\* A step that changes no manifest and brings the broker to a place where it holds none.
LEMMA CalmMove ==
  ASSUME BrokerInv, UNCHANGED <<saved, driverVars, auxVars>>, BrokerTypes', Runs',
         Calm(broker'.pc) \/ broker'.pc = "none",
         ~Changing
  PROVE  BrokerInv'
  <1>1. Carries'
    BY DEF Calm, Carries, Saving, At
  <1>2. RegistryAgrees'
    BY DEF BrokerInv, RegistryAgrees, Calm, Saving, Changing, At, auxVars
  <1>3. DriverAgrees'
    BY DEF BrokerInv, DriverAgrees, Calm, Saving, Changing, At, auxVars, driverVars
  <1> QED
    BY <1>1, <1>2, <1>3 DEF BrokerInv

\* The same for a broker that goes on, with the service as it was ...
LEMMA CalmGoto ==
  ASSUME BrokerInv, NEW pc, Goto(pc), Calm(pc), ~At("none"), ~Changing,
         UNCHANGED <<service, control, saved, driverVars, auxVars>>
  PROVE  BrokerInv'
  <1>1. BrokerTypes'
    BY GoesOn DEF BrokerInv, BrokerTypes, driverVars, auxVars
  <1>2. Runs'
    BY DEF BrokerInv, Runs, At
  <1> QED
    BY <1>1, <1>2, GoesOn, CalmMove DEF BrokerInv

\* ... and for one that has its answer.
LEMMA CalmAnswer ==
  ASSUME BrokerInv, NEW answer, AnswerWith(answer), ~At("none"), ~Changing,
         UNCHANGED <<service, control, saved, driverVars, auxVars>>
  PROVE  BrokerInv'
  <1>1. BrokerTypes'
    BY Answers DEF BrokerInv, BrokerTypes, driverVars, auxVars
  <1>2. Runs'
    BY DEF BrokerInv, Runs, At
  <1> QED
    BY <1>1, <1>2, Answers, CalmMove DEF BrokerInv, Calm, Saving

\* A step of somebody else: neither the broker nor a manifest changes.
LEMMA Elsewhere ==
  ASSUME BrokerInv, UNCHANGED <<broker, saved, driverVars, auxVars>>, service' \in Services,
         control'.previous \in Images \cup {NoImage}, Runs'
  PROVE  BrokerInv'
  <1>1. BrokerTypes'
    BY DEF BrokerInv, BrokerTypes, driverVars, auxVars
  <1>2. Carries' /\ RegistryAgrees' /\ DriverAgrees'
    BY DEF BrokerInv, Carries, RegistryAgrees, DriverAgrees, driverVars, auxVars, At
  <1> QED
    BY <1>1, <1>2 DEF BrokerInv

-----------------------------------------------------------------------------
(* The driver, and who else uses it.                                       *)


\* A request that timed out reaches the driver or is cancelled: nothing was kept of the driver.
LEMMA LateRequestKeeps ==
  ASSUME BrokerInv, LateRequestArrives \/ LateRequestCancelled
  PROVE  BrokerInv'
  <1>1. PICK m \in late : late' = late \ {m} /\ driver' \in {m, driver}
    BY DEF LateRequestArrives, LateRequestCancelled
  <1>2. UNCHANGED <<service, control, broker, saved, promised, kept>>
    BY DEF LateRequestArrives, LateRequestCancelled, brokerVars, auxVars
  <1>3. BrokerTypes' /\ Runs'
    BY <1>1, <1>2 DEF BrokerInv, BrokerTypes, Runs, At
  <1>4. "driver" \notin kept
    BY <1>1 DEF BrokerInv, DriverAgrees
  <1>5. Carries' /\ RegistryAgrees' /\ DriverAgrees'
    BY <1>2, <1>4 DEF BrokerInv, Carries, RegistryAgrees, DriverAgrees, At
  <1> QED
    BY <1>3, <1>5 DEF BrokerInv

\* The driver changes under the broker: what was kept of it is what it has now, or nothing.
LEMMA DriverChangesKeep ==
  ASSUME BrokerInv, UNCHANGED <<service, control, broker, saved, promised>>, driver' \in Manifests,
         late' = late \/ late' = {},
         kept' \subseteq kept, "saved" \in kept' <=> "saved" \in kept,
         "driver" \in kept' => driver' = promised
  PROVE  BrokerInv'
  <1>1. BrokerTypes' /\ Runs'
    BY DEF BrokerInv, BrokerTypes, Runs, At
  <1>2. Carries' /\ RegistryAgrees'
    BY DEF BrokerInv, Carries, RegistryAgrees, At
  <1>3. DriverAgrees'
    BY DEF BrokerInv, DriverAgrees, At
  <1> QED
    BY <1>1, <1>2, <1>3 DEF BrokerInv

\* Another user of the device sets a manifest.
LEMMA ForeignChangeKeeps ==
  ASSUME BrokerInv, ForeignChange
  PROVE  BrokerInv'
  <1>1. PICK m \in ForeignManifests : driver' = m
    BY DEF ForeignChange
  <1>2. driver' \in Manifests
    BY <1>1, BrokerAssumption
  <1>3. /\ UNCHANGED <<service, control, broker, saved, promised, late>>
        /\ kept' = kept \ {"driver"}
    BY DEF ForeignChange, brokerVars
  <1> QED
    BY <1>2, <1>3, DriverChangesKeep

\* The device comes back without its displays: kept only if no display was promised.
LEMMA DeviceRestartsKeeps ==
  ASSUME BrokerInv, DeviceRestarts
  PROVE  BrokerInv'
  <1>1. /\ UNCHANGED <<service, control, broker, saved, promised>>
        /\ driver' = Empty /\ late' = {}
        /\ kept' = IF promised = Empty THEN kept ELSE kept \ {"driver"}
    BY DEF DeviceRestarts
  <1>2. kept' \subseteq kept /\ ("saved" \in kept' <=> "saved" \in kept)
    BY <1>1
  <1>3. "driver" \in kept' => driver' = promised
    BY <1>1
  <1> QED
    BY <1>1, <1>2, <1>3, EmptyIsManifest, DriverChangesKeep

-----------------------------------------------------------------------------
(* The start of the broker, and its loop.                                  *)


\* The process ends, whatever it was at: what it had in hand is gone.
LEMMA ExitsKeeps ==
  ASSUME BrokerInv, Exits, UNCHANGED <<control, saved, driverVars, promised>>,
         kept' \subseteq kept,
         At("profile: apply") \/ At("profile: roll back") => "saved" \notin kept',
         At("permanent: save") => "driver" \notin kept'
  PROVE  BrokerInv'
  <1>1. BrokerTypes' /\ Runs'
    BY ExitsTyped DEF BrokerInv, BrokerTypes, Runs, At, driverVars
  <1>2. Carries'
    BY ExitsTyped DEF Carries, Saving, BrokerInv
  <1>3. RegistryAgrees' /\ DriverAgrees'
    BY ExitsTyped DEF BrokerInv, RegistryAgrees, DriverAgrees, Saving, At, driverVars
  <1> QED
    BY <1>1, <1>2, <1>3 DEF BrokerInv

\* The process dies between two steps of a change.
LEMMA BrokerCrashesKeeps ==
  ASSUME BrokerInv, BrokerCrashes
  PROVE  BrokerInv'
  <1>1. Exits /\ UNCHANGED <<control, saved, driverVars, promised>>
    BY DEF BrokerCrashes
  <1>2. kept' = IF ~Changing THEN kept
                ELSE IF At("permanent: save") THEN kept \ {"driver"} ELSE kept \ {"saved"}
    BY DEF BrokerCrashes
  <1>3. kept' \subseteq kept
    BY <1>2
  <1>4. /\ At("profile: apply") \/ At("profile: roll back") => "saved" \notin kept'
        /\ At("permanent: save") => "driver" \notin kept'
    BY <1>2 DEF Changing, At
  <1> QED
    BY <1>1, <1>3, <1>4, ExitsKeeps

\* The broker ends by itself: it has nothing in hand then.
LEMMA EndsKeep ==
  ASSUME BrokerInv, StartFails \/ LoopEnds
  PROVE  BrokerInv'
  <1>1. Exits /\ UNCHANGED <<control, saved, driverVars, auxVars>>
    BY DEF StartFails, LoopEnds
  <1>2. broker.pc \in {"opening", "creating", "protocol", "checking"}
    BY DEF StartFails, LoopEnds, At
  <1> QED
    BY <1>1, <1>2, ExitsKeeps DEF At, auxVars

\* A step of the loop that changes nothing but the place of the broker.
LEMMA LoopKeeps ==
  ASSUME BrokerInv,
         \/ OpenDevice
         \/ CheckProtocol
         \/ RestoreUnqueried
         \/ RestoreReported
         \/ CheckStop
         \/ CreatePipe
         \/ Connected
         \/ Flushed
  PROVE  BrokerInv'
  <1>1. PICK pc \in {"protocol", "query for restore", "unqueried", "checking", "creating", "connecting",
                     "closing", "authorizing"} : Goto(pc)
    <2>1. CASE OpenDevice
      BY <2>1 DEF OpenDevice
    <2>2. CASE CheckProtocol
      BY <2>2 DEF CheckProtocol
    <2>3. CASE RestoreUnqueried
      BY <2>3 DEF RestoreUnqueried
    <2>4. CASE CheckStop
      BY <2>4 DEF CheckStop
    <2>5. CASE CreatePipe
      BY <2>5 DEF CreatePipe
    <2>6. CASE Connected
      BY <2>6 DEF Connected
    <2>7. CASE RestoreReported
      BY <2>7 DEF RestoreReported
    <2>8. CASE Flushed
      BY <2>8 DEF Flushed
    <2> QED
      BY <2>1, <2>2, <2>3, <2>4, <2>5, <2>6, <2>7, <2>8
  <1>2. broker.pc \in {"opening", "protocol", "query for restore", "unqueried", "exhausted", "checking",
                     "creating", "connecting", "flushing"}
    BY DEF OpenDevice, CheckProtocol, RestoreUnqueried, RestoreReported, CheckStop, CreatePipe, Connected,
           Flushed, At
  <1>3. UNCHANGED <<service, control, saved, driverVars, auxVars>>
    BY DEF OpenDevice, CheckProtocol, RestoreUnqueried, RestoreReported, CheckStop, CreatePipe, Connected,
           Flushed, Succeeds, Fails, driverVars
  <1>4. Calm(pc)
    BY DEF Calm, Saving
  <1> QED
    BY <1>1, <1>2, <1>3, <1>4, CalmGoto DEF At, Changing

\* What is restored is what the registry had.
LEMMA LoadManifestKeeps ==
  ASSUME BrokerInv, LoadManifest
  PROVE  BrokerInv'
  <1>1. At("query for restore")
    BY DEF LoadManifest
  <1>2. UNCHANGED <<service, control, saved, driverVars, auxVars>>
    BY DEF LoadManifest, Succeeds, driverVars
  <1>3. CASE Restored(saved) = Empty
    BY <1>1, <1>2, <1>3, CalmGoto DEF LoadManifest, Calm, Saving, At, Changing
  <1>4. CASE Restored(saved) # Empty
    <2>1. broker' = [broker EXCEPT !.pc = "restoring", !.manifest = saved, !.attempt = 0]
      BY <1>4 DEF LoadManifest
    <2>2. saved \in Manifests
      BY <1>4 DEF BrokerInv, BrokerTypes, Restored
    <2>3. /\ broker'.pc = "restoring" /\ broker'.manifest = saved
          /\ (broker = [pc |-> broker.pc, command |-> broker.command, manifest |-> broker.manifest,
                        original |-> broker.original, attempt |-> broker.attempt,
                        answer |-> broker.answer])'
      BY <2>1 DEF BrokerInv, BrokerTypes
    <2>4. BrokerTypes' /\ Runs'
      BY <1>1, <1>2, <2>3 DEF BrokerInv, BrokerTypes, Runs, At, driverVars, auxVars
    <2>5. Carries'
      BY <2>2, <2>3 DEF Carries, Saving
    <2>6. RegistryAgrees' /\ DriverAgrees'
      BY <1>1, <1>2, <2>3 DEF BrokerInv, RegistryAgrees, DriverAgrees, Saving, At, driverVars, auxVars
    <2> QED
      BY <2>4, <2>5, <2>6 DEF BrokerInv
  <1> QED
    BY <1>3, <1>4

\* The saved manifest is in the driver: if it is the promised one, the promise is kept again.
LEMMA RestoreKeeps ==
  ASSUME BrokerInv, Restore
  PROVE  BrokerInv'
  <1>1. At("restoring")
    BY DEF Restore
  <1>2. /\ UNCHANGED <<service, control, saved, promised, late>>
        /\ driver' = broker.manifest
        /\ kept' = IF late = {} /\ promised = broker.manifest THEN kept \cup {"driver"} ELSE kept \ {"driver"}
    BY DEF Restore, Succeeds
  <1>3. /\ broker'.pc = "checking" /\ broker'.manifest = broker.manifest /\ broker'.original = broker.original
        /\ (broker = [pc |-> broker.pc, command |-> broker.command, manifest |-> broker.manifest,
                      original |-> broker.original, attempt |-> broker.attempt,
                      answer |-> broker.answer])'
    BY GoesOn DEF Restore, BrokerInv
  <1>4. broker.manifest \in Manifests
    BY <1>1 DEF BrokerInv, Carries, At
  <1>5. BrokerTypes' /\ Runs'
    BY <1>1, <1>2, <1>3, <1>4 DEF BrokerInv, BrokerTypes, Runs, At
  <1>6. Carries'
    BY <1>3 DEF Carries, Saving
  <1>7. RegistryAgrees'
    BY <1>1, <1>2, <1>3 DEF BrokerInv, RegistryAgrees, Saving, At
  <1>8. DriverAgrees'
    BY <1>2 DEF DriverAgrees
  <1> QED
    BY <1>5, <1>6, <1>7, <1>8 DEF BrokerInv

\* A request that fails leaves nothing behind; one that times out may still arrive.
LEMMA AskedOfDriver ==
  ASSUME NEW m \in Manifests, late \subseteq Manifests, Fails \/ TimesOut(m)
  PROVE  late' \subseteq Manifests
  BY DEF Fails, TimesOut

\* A restoration that fails: the driver need not have the promise any more.
LEMMA RestoreFailsKeeps ==
  ASSUME BrokerInv, RestoreFails
  PROVE  BrokerInv'
  <1>1. At("restoring")
    BY DEF RestoreFails
  <1>2. /\ UNCHANGED <<service, control, saved, driver, promised>>
        /\ kept' = kept \ {"driver"}
    BY DEF RestoreFails
  <1>3. broker.manifest \in Manifests
    BY <1>1 DEF BrokerInv, Carries, At
  <1>4. late' \subseteq Manifests
    BY <1>3, AskedOfDriver DEF RestoreFails, BrokerInv, BrokerTypes
  <1>5. /\ broker'.pc \in {"checking", "exhausted", "restoring"}
        /\ broker'.manifest = broker.manifest
        /\ (broker = [pc |-> broker.pc, command |-> broker.command, manifest |-> broker.manifest,
                      original |-> broker.original, attempt |-> broker.attempt,
                      answer |-> broker.answer])'
    <2>1. CASE Goto("checking") \/ Goto("exhausted")
      BY <2>1, GoesOn DEF BrokerInv
    <2>2. CASE broker' = [broker EXCEPT !.attempt = @ + 1]
      BY <1>1, <2>2 DEF BrokerInv, BrokerTypes, At
    <2> QED
      BY <2>1, <2>2 DEF RestoreFails
  <1>6. BrokerTypes' /\ Runs'
    BY <1>1, <1>2, <1>4, <1>5 DEF BrokerInv, BrokerTypes, Runs, At
  <1>7. Carries'
    BY <1>3, <1>5 DEF Carries, Saving
  <1>8. RegistryAgrees'
    BY <1>1, <1>2, <1>5 DEF BrokerInv, RegistryAgrees, Saving, At
  <1>9. DriverAgrees'
    BY <1>2 DEF DriverAgrees
  <1> QED
    BY <1>6, <1>7, <1>8, <1>9 DEF BrokerInv

-----------------------------------------------------------------------------
(* A command.                                                              *)


\* A step that ends in an answer and changes no manifest.
LEMMA AnsweredKeeps ==
  ASSUME BrokerInv,
         \/ ReadNothing
         \/ ReadFails
         \/ AnswerQuery
  PROVE  BrokerInv'
  <1>1. PICK answer \in {"ok", "error"} : AnswerWith(answer)
    BY DEF ReadNothing, ReadFails, AnswerQuery
  <1>2. broker.pc \in Reads \cup {"reading"}
    BY DEF ReadNothing, ReadFails, AnswerQuery, Reads, At
  <1>3. UNCHANGED <<service, control, saved, driverVars, auxVars>>
    BY DEF ReadNothing, ReadFails, AnswerQuery, Succeeds, Fails, driverVars
  <1> QED
    BY <1>1, <1>2, <1>3, CalmAnswer DEF At, Changing, Reads

\* A step that goes on or answers, and changes no manifest.
LEMMA MovesOrAnswersKeep ==
  ASSUME BrokerInv,
         \/ Authorize
         \/ ProfileCount
         \/ HelperEnds
  PROVE  BrokerInv'
  <1>1. \/ \E pc \in {"reading", "profile: manifest", "helper on console"} : Goto(pc)
        \/ \E answer \in {"ok", "error"} : AnswerWith(answer)
    BY DEF Authorize, ProfileCount, HelperEnds
  <1>2. broker.pc \in {"authorizing", "profile: count", "helper", "helper on console"}
    BY DEF Authorize, ProfileCount, HelperEnds, At
  <1>3. UNCHANGED <<service, control, saved, driverVars, auxVars>>
    BY DEF Authorize, ProfileCount, HelperEnds, Succeeds, driverVars
  <1>4. ~At("none") /\ ~Changing
    BY <1>2 DEF At, Changing
  <1>5. CASE \E pc \in {"reading", "profile: manifest", "helper on console"} : Goto(pc)
    BY <1>3, <1>4, <1>5, CalmGoto DEF Calm, Saving
  <1>6. CASE \E answer \in {"ok", "error"} : AnswerWith(answer)
    BY <1>3, <1>4, <1>6, CalmAnswer
  <1> QED
    BY <1>1, <1>5, <1>6

\* A command begins where the broker has no manifest in hand yet.
LEMMA FirstStepCalm ==
  ASSUME NEW command
  PROVE  Calm(FirstStep(command))
  <1>1. FirstStep(command) \in {"query", "profile: count", "permanent: count", "helper", "replying"}
    BY Zenon DEF FirstStep
  <1> QED
    BY <1>1 DEF Calm, Saving

\* A command is read.
LEMMA ReadCommandKeeps ==
  ASSUME BrokerInv, ReadCommand
  PROVE  BrokerInv'
  <1>1. At("reading") /\ UNCHANGED <<service, control, saved, driverVars, auxVars>>
    BY DEF ReadCommand
  <1>2. PICK c \in Clients :
            IF FirstStep(client[c].command) = "replying" THEN AnswerWith("error")
            ELSE broker' = [broker EXCEPT !.pc = FirstStep(client[c].command), !.command = client[c].command]
    BY DEF ReadCommand
  <1>3. CASE AnswerWith("error")
    BY <1>1, <1>3, CalmAnswer DEF At, Changing
  <1>4. CASE broker' = [broker EXCEPT !.pc = FirstStep(client[c].command), !.command = client[c].command]
    <2>1. PICK pc : pc = FirstStep(client[c].command)
      OBVIOUS
    <2>2. Calm(pc)
      BY <2>1, FirstStepCalm
    <2>3. /\ broker'.pc = pc
          /\ (broker = [pc |-> broker.pc, command |-> broker.command, manifest |-> broker.manifest,
                        original |-> broker.original, attempt |-> broker.attempt,
                        answer |-> broker.answer])'
      BY <1>4, <2>1 DEF BrokerInv, BrokerTypes
    <2>4. BrokerTypes' /\ Runs'
      BY <1>1, <2>3 DEF BrokerInv, BrokerTypes, Runs, At, driverVars, auxVars
    <2> QED
      BY <1>1, <2>2, <2>3, <2>4, CalmMove DEF At, Changing
  <1> QED
    BY <1>2, <1>3, <1>4

\* The answer is written.
LEMMA ReplyKeeps ==
  ASSUME BrokerInv, Reply
  PROVE  BrokerInv'
  <1>1. /\ At("replying") /\ broker' = [NoBroker EXCEPT !.pc = "flushing"]
        /\ UNCHANGED <<service, control, saved, driverVars, auxVars>>
    BY DEF Reply
  <1>2. /\ broker'.pc = "flushing"
        /\ (broker = [pc |-> broker.pc, command |-> broker.command, manifest |-> broker.manifest,
                      original |-> broker.original, attempt |-> broker.attempt,
                      answer |-> broker.answer])'
    BY <1>1 DEF NoBroker
  <1>3. BrokerTypes' /\ Runs'
    BY <1>1, <1>2 DEF BrokerInv, BrokerTypes, Runs, At, driverVars, auxVars
  <1> QED
    BY <1>1, <1>2, <1>3, CalmMove DEF At, Changing, Calm, Saving

\* The pipe is closed, and the broker forgets the command.
LEMMA ClosePipeKeeps ==
  ASSUME BrokerInv, ClosePipe
  PROVE  BrokerInv'
  <1>1. /\ At("closing") /\ broker' = [NoBroker EXCEPT !.pc = "checking"]
        /\ UNCHANGED <<service, control, saved, driverVars, auxVars>>
    BY DEF ClosePipe
  <1>2. /\ broker'.pc = "checking"
        /\ (broker = [pc |-> broker.pc, command |-> broker.command, manifest |-> broker.manifest,
                      original |-> broker.original, attempt |-> broker.attempt,
                      answer |-> broker.answer])'
    BY <1>1 DEF NoBroker
  <1>3. BrokerTypes' /\ Runs'
    BY <1>1, <1>2 DEF BrokerInv, BrokerTypes, Runs, At, driverVars, auxVars
  <1> QED
    BY <1>1, <1>2, <1>3, CalmMove DEF At, Changing, Calm, Saving

-----------------------------------------------------------------------------
(* A profile: the registry first, then the driver.                         *)


\* The broker takes what the driver has as the original to go back to.
LEMMA ProfileManifestKeeps ==
  ASSUME BrokerInv, ProfileManifest
  PROVE  BrokerInv'
  <1>1. /\ At("profile: manifest")
        /\ UNCHANGED <<service, control, saved, driver, promised, late>>
        /\ kept' = IF driver = promised THEN kept ELSE kept \ {"saved"}
    BY DEF ProfileManifest, Succeeds
  <1>2. /\ broker'.pc = "profile: save" /\ broker'.original = driver
        /\ (broker = [pc |-> broker.pc, command |-> broker.command, manifest |-> broker.manifest,
                      original |-> broker.original, attempt |-> broker.attempt,
                      answer |-> broker.answer])'
    <2>1. PICK m : broker' = [broker EXCEPT !.pc = "profile: save", !.original = driver, !.manifest = m]
      BY DEF ProfileManifest
    <2> QED
      BY <2>1 DEF BrokerInv, BrokerTypes
  <1>3. BrokerTypes' /\ Runs'
    BY <1>1, <1>2 DEF BrokerInv, BrokerTypes, Runs, At
  <1>4. Carries'
    BY <1>1, <1>2 DEF Carries, Saving, BrokerInv, BrokerTypes
  <1>5. RegistryAgrees'
    BY <1>1, <1>2 DEF BrokerInv, RegistryAgrees, Saving, At
  <1>6. DriverAgrees'
    BY <1>1, <1>2 DEF BrokerInv, DriverAgrees, At
  <1> QED
    BY <1>3, <1>4, <1>5, <1>6 DEF BrokerInv

\* A valid manifest is saved, or the command fails.
LEMMA ProfileSaveKeeps ==
  ASSUME BrokerInv, ProfileSave
  PROVE  BrokerInv'
  <1>1. At("profile: save") /\ UNCHANGED <<service, control, driverVars, auxVars>>
    BY DEF ProfileSave
  <1>2. CASE saved' = broker.manifest /\ Valid(broker.manifest) /\ Goto("profile: apply")
    <2>1. /\ broker'.pc = "profile: apply"
          /\ broker'.manifest = broker.manifest /\ broker'.original = broker.original
          /\ (broker = [pc |-> broker.pc, command |-> broker.command, manifest |-> broker.manifest,
                      original |-> broker.original, attempt |-> broker.attempt,
                      answer |-> broker.answer])'
      BY <1>2, GoesOn DEF BrokerInv
    <2>2. saved' \in Manifests
      BY <1>2 DEF Valid
    <2>3. BrokerTypes' /\ Runs'
      BY <1>1, <2>1, <2>2 DEF BrokerInv, BrokerTypes, Runs, At, driverVars, auxVars
    <2>4. Carries'
      BY <1>1, <1>2, <2>1, <2>2 DEF BrokerInv, Carries, Saving, At
    <2>5. RegistryAgrees' /\ DriverAgrees'
      BY <1>1, <1>2, <2>1 DEF BrokerInv, RegistryAgrees, DriverAgrees, Saving, At, driverVars, auxVars
    <2> QED
      BY <2>3, <2>4, <2>5 DEF BrokerInv
  <1>3. CASE AnswerWith("error") /\ UNCHANGED saved
    BY <1>1, <1>3, CalmAnswer DEF At, Changing
  <1> QED
    BY <1>2, <1>3 DEF ProfileSave

\* What an answer promises is the manifest of the command, which both have.
LEMMA PromiseKept ==
  ASSUME BrokerTypes, Promise(broker.manifest), broker.manifest \in Manifests,
         saved' = broker.manifest, broker'.pc \notin Saving \cup {"permanent: save"},
         late' = late
  PROVE  RegistryAgrees' /\ DriverAgrees'
  <1>1. promised' = broker.manifest
    BY DEF Promise
  <1>2. Restored(saved') = promised'
    BY <1>1, SavedIsRestored
  <1>3. RegistryAgrees'
    BY <1>2 DEF RegistryAgrees, Saving, At
  <1>4. kept' = IF late = {} /\ driver' = broker.manifest THEN {"saved", "driver"} ELSE {"saved"}
    BY DEF Promise
  <1>5. DriverAgrees'
    BY <1>1, <1>4 DEF DriverAgrees
  <1> QED
    BY <1>3, <1>5

\* The driver takes the profile: the command is answered.
LEMMA ProfileApplyKeeps ==
  ASSUME BrokerInv, ProfileApply
  PROVE  BrokerInv'
  <1>1. /\ At("profile: apply") /\ Promise(broker.manifest) /\ driver' = broker.manifest
        /\ UNCHANGED <<service, control, saved, late>>
    BY DEF ProfileApply, Succeeds
  <1>2. /\ broker'.pc = "replying"
        /\ (broker = [pc |-> broker.pc, command |-> broker.command, manifest |-> broker.manifest,
                      original |-> broker.original, attempt |-> broker.attempt,
                      answer |-> broker.answer])'
    BY Answers DEF ProfileApply, BrokerInv
  <1>3. broker.manifest \in Manifests /\ saved = broker.manifest
    BY <1>1 DEF BrokerInv, Carries, RegistryAgrees, At
  <1>4. BrokerTypes' /\ Runs'
    BY <1>1, <1>2, <1>3 DEF BrokerInv, BrokerTypes, Runs, At, Promise
  <1>5. Carries'
    BY <1>2 DEF Carries, Saving
  <1>6. RegistryAgrees' /\ DriverAgrees'
    BY <1>1, <1>2, <1>3, PromiseKept DEF BrokerInv, Saving
  <1> QED
    BY <1>4, <1>5, <1>6 DEF BrokerInv

\* The driver does not take it: the broker still has the original.
LEMMA ProfileApplyFailsKeeps ==
  ASSUME BrokerInv, ProfileApplyFails
  PROVE  BrokerInv'
  <1>1. /\ At("profile: apply")
        /\ UNCHANGED <<service, control, saved, driver, promised>>
    BY DEF ProfileApplyFails
  <1>2. broker.manifest \in Manifests /\ broker.original \in Manifests
    BY <1>1 DEF BrokerInv, Carries, Saving, At
  <1>3. late' \subseteq Manifests
    BY <1>2, AskedOfDriver DEF ProfileApplyFails, BrokerInv, BrokerTypes
  <1>4. \/ kept' = kept /\ late' = late
        \/ kept' = kept \ {"driver"}
    BY DEF ProfileApplyFails, Fails
  <1>5. /\ broker'.pc = "profile: roll back" /\ broker'.original = broker.original
        /\ (broker = [pc |-> broker.pc, command |-> broker.command, manifest |-> broker.manifest,
                      original |-> broker.original, attempt |-> broker.attempt,
                      answer |-> broker.answer])'
    BY GoesOn DEF ProfileApplyFails, BrokerInv
  <1>6. BrokerTypes' /\ Runs'
    BY <1>1, <1>3, <1>5 DEF BrokerInv, BrokerTypes, Runs, At
  <1>7. Carries'
    BY <1>2, <1>5 DEF Carries, Saving
  <1>8. RegistryAgrees'
    BY <1>1, <1>4, <1>5 DEF BrokerInv, RegistryAgrees, Saving, At
  <1>9. DriverAgrees'
    BY <1>1, <1>4, <1>5 DEF BrokerInv, DriverAgrees, At
  <1> QED
    BY <1>6, <1>7, <1>8, <1>9 DEF BrokerInv

\* The registry gets the original back, which is what was promised.
LEMMA ProfileRollBackKeeps ==
  ASSUME BrokerInv, ProfileRollBack
  PROVE  BrokerInv'
  <1>1. At("profile: roll back") /\ UNCHANGED <<service, control, driverVars, promised>>
    BY DEF ProfileRollBack
  <1>2. \/ saved' = broker.original /\ kept' = kept
        \/ saved' = saved /\ kept' = kept \ {"saved"}
    BY DEF ProfileRollBack
  <1>3. broker.original \in Manifests
    BY <1>1 DEF BrokerInv, Carries, Saving, At
  <1>4. /\ broker'.pc = "replying"
        /\ (broker = [pc |-> broker.pc, command |-> broker.command, manifest |-> broker.manifest,
                      original |-> broker.original, attempt |-> broker.attempt,
                      answer |-> broker.answer])'
    BY Answers DEF ProfileRollBack, BrokerInv
  <1>5. BrokerTypes' /\ Runs'
    BY <1>1, <1>2, <1>3, <1>4 DEF BrokerInv, BrokerTypes, Runs, At, driverVars
  <1>6. Carries'
    BY <1>4 DEF Carries, Saving
  <1>7. RegistryAgrees'
    BY <1>1, <1>2, <1>3, <1>4, SavedIsRestored DEF BrokerInv, RegistryAgrees, Saving, At
  <1>8. DriverAgrees'
    BY <1>1, <1>2, <1>4 DEF BrokerInv, DriverAgrees, At, driverVars
  <1> QED
    BY <1>5, <1>6, <1>7, <1>8 DEF BrokerInv

-----------------------------------------------------------------------------
(* Permanent displays: the driver first, then the registry.                *)


\* The broker makes the manifest of the permanent displays.
LEMMA PermanentCountKeeps ==
  ASSUME BrokerInv, PermanentCount
  PROVE  BrokerInv'
  <1>1. At("permanent: count") /\ UNCHANGED <<service, control, saved, driverVars, auxVars>>
    BY DEF PermanentCount, Succeeds, driverVars
  <1>2. /\ broker'.pc = "permanent: apply"
        /\ (broker = [pc |-> broker.pc, command |-> broker.command, manifest |-> broker.manifest,
                      original |-> broker.original, attempt |-> broker.attempt,
                      answer |-> broker.answer])'
    <2>1. PICK m : broker' = [broker EXCEPT !.pc = "permanent: apply", !.manifest = m]
      BY DEF PermanentCount
    <2> QED
      BY <2>1 DEF BrokerInv, BrokerTypes
  <1>3. BrokerTypes' /\ Runs'
    BY <1>1, <1>2 DEF BrokerInv, BrokerTypes, Runs, At, driverVars, auxVars
  <1> QED
    BY <1>1, <1>2, <1>3, CalmMove DEF At, Changing, Calm, Saving

\* The driver takes them, refuses them, or may take them later.
LEMMA PermanentApplyKeeps ==
  ASSUME BrokerInv, PermanentApply
  PROVE  BrokerInv'
  <1>1. At("permanent: apply") /\ UNCHANGED <<service, control, saved, promised>>
    BY DEF PermanentApply
  <1>2. CASE /\ Valid(broker.manifest) /\ late' = late /\ driver' = broker.manifest
             /\ Goto("permanent: save") /\ UNCHANGED kept
    <2>1. /\ broker'.pc = "permanent: save" /\ broker'.manifest = broker.manifest
          /\ (broker = [pc |-> broker.pc, command |-> broker.command, manifest |-> broker.manifest,
                        original |-> broker.original, attempt |-> broker.attempt,
                        answer |-> broker.answer])'
      BY <1>2, GoesOn DEF BrokerInv
    <2>2. broker.manifest \in Manifests
      BY <1>2 DEF Valid
    <2>3. BrokerTypes' /\ Runs'
      BY <1>1, <1>2, <2>1, <2>2 DEF BrokerInv, BrokerTypes, Runs, At
    <2>4. Carries'
      BY <2>1, <2>2 DEF Carries, Saving
    <2>5. RegistryAgrees' /\ DriverAgrees'
      BY <1>1, <1>2, <2>1 DEF BrokerInv, RegistryAgrees, DriverAgrees, Saving, At
    <2> QED
      BY <2>3, <2>4, <2>5 DEF BrokerInv
  <1>3. CASE AnswerWith("error") /\ UNCHANGED <<driver, kept, late>>
    BY <1>1, <1>3, CalmAnswer DEF At, Changing, driverVars, auxVars
  <1>4. CASE /\ Valid(broker.manifest) /\ TimesOut(broker.manifest)
             /\ AnswerWith("error") /\ kept' = kept \ {"driver"} /\ UNCHANGED driver
    <2>1. /\ broker'.pc = "replying"
          /\ (broker = [pc |-> broker.pc, command |-> broker.command, manifest |-> broker.manifest,
                        original |-> broker.original, attempt |-> broker.attempt,
                        answer |-> broker.answer])'
      BY <1>4, Answers DEF BrokerInv
    <2>2. late' \subseteq Manifests
      BY <1>4, AskedOfDriver DEF BrokerInv, BrokerTypes, Valid
    <2>3. BrokerTypes' /\ Runs'
      BY <1>1, <1>4, <2>1, <2>2 DEF BrokerInv, BrokerTypes, Runs, At
    <2>4. Carries'
      BY <2>1 DEF Carries, Saving
    <2>5. RegistryAgrees' /\ DriverAgrees'
      BY <1>1, <1>4, <2>1 DEF BrokerInv, RegistryAgrees, DriverAgrees, Saving, At
    <2> QED
      BY <2>3, <2>4, <2>5 DEF BrokerInv
  <1> QED
    BY <1>2, <1>3, <1>4 DEF PermanentApply, Succeeds, Fails

\* They are saved and promised, or the driver is ahead of the promise.
LEMMA PermanentSaveKeeps ==
  ASSUME BrokerInv, PermanentSave
  PROVE  BrokerInv'
  <1>1. At("permanent: save") /\ UNCHANGED <<service, control, driver, late>>
    BY DEF PermanentSave
  <1>2. broker.manifest \in Manifests
    BY <1>1 DEF BrokerInv, Carries, At
  <1>3. CASE saved' = broker.manifest /\ Goto("permanent: result") /\ Promise(broker.manifest)
    <2>1. /\ broker'.pc = "permanent: result"
          /\ (broker = [pc |-> broker.pc, command |-> broker.command, manifest |-> broker.manifest,
                        original |-> broker.original, attempt |-> broker.attempt,
                        answer |-> broker.answer])'
      BY <1>3, GoesOn DEF BrokerInv
    <2>2. BrokerTypes' /\ Runs'
      BY <1>1, <1>2, <1>3, <2>1 DEF BrokerInv, BrokerTypes, Runs, At, Promise
    <2>3. Carries'
      BY <2>1 DEF Carries, Saving
    <2>4. RegistryAgrees' /\ DriverAgrees'
      BY <1>1, <1>2, <1>3, <2>1, PromiseKept DEF BrokerInv, Saving
    <2> QED
      BY <2>2, <2>3, <2>4 DEF BrokerInv
  <1>4. CASE AnswerWith("error") /\ kept' = kept \ {"driver"} /\ UNCHANGED <<saved, promised>>
    <2>1. /\ broker'.pc = "replying"
          /\ (broker = [pc |-> broker.pc, command |-> broker.command, manifest |-> broker.manifest,
                        original |-> broker.original, attempt |-> broker.attempt,
                        answer |-> broker.answer])'
      BY <1>4, Answers DEF BrokerInv
    <2>2. BrokerTypes' /\ Runs'
      BY <1>1, <1>4, <2>1 DEF BrokerInv, BrokerTypes, Runs, At
    <2>3. Carries'
      BY <2>1 DEF Carries, Saving
    <2>4. RegistryAgrees' /\ DriverAgrees'
      BY <1>1, <1>4, <2>1 DEF BrokerInv, RegistryAgrees, DriverAgrees, Saving, At
    <2> QED
      BY <2>2, <2>3, <2>4 DEF BrokerInv
  <1> QED
    BY <1>3, <1>4 DEF PermanentSave

-----------------------------------------------------------------------------
(* The service, its clients and its command line.                          *)


\* A client, or the handler of the stop control, opens the pipe or leaves.
LEMMA ClientKeeps ==
  ASSUME BrokerInv, HandlerOpens \/ \E c \in Clients : ClientStep(c)
  PROVE  BrokerInv'
  <1>1. UNCHANGED <<service, control, broker, saved, driverVars, auxVars>>
    BY DEF HandlerOpens, ClientStep, Connect, Verify, ReadAnswer, Leave, brokerVars
  <1> QED
    BY <1>1, Elsewhere DEF BrokerInv, BrokerTypes, Runs, At

\* The service begins to run, with a broker that holds nothing.
LEMMA ServiceMainKeeps ==
  ASSUME BrokerInv, ServiceMain
  PROVE  BrokerInv'
  <1>1. /\ service.state = "start pending"
        /\ service' = [service EXCEPT !.state = "running"]
        /\ UNCHANGED <<control, saved, driverVars, auxVars>>
    BY DEF ServiceMain, Unmoved
  <1>2. /\ broker'.pc = "opening"
        /\ (broker = [pc |-> broker.pc, command |-> broker.command, manifest |-> broker.manifest,
                      original |-> broker.original, attempt |-> broker.attempt,
                      answer |-> broker.answer])'
    BY GoesOn DEF ServiceMain, BrokerInv
  <1>3. service' \in Services /\ service'.state = "running"
    BY <1>1 DEF BrokerInv, BrokerTypes, Services
  <1>4. BrokerTypes' /\ Runs'
    BY <1>1, <1>2, <1>3 DEF BrokerInv, BrokerTypes, Runs, driverVars, auxVars
  <1>5. At("none")
    BY <1>1 DEF BrokerInv, Runs
  <1> QED
    BY <1>1, <1>2, <1>4, <1>5, CalmMove DEF At, Changing, Calm, Saving

\* A service command: a broker that runs is at most told to stop.
LEMMA ControlKeeps ==
  ASSUME BrokerInv, ControlStep
  PROVE  BrokerInv'
  <1>1. UNCHANGED <<broker, saved, driverVars, auxVars>>
    BY DEF ControlStep, Install, Harden, StartService, StopService, WaitEnds, UninstallStopped,
           Unmoved, brokerVars
  <1>2. service \in Services /\ control.previous \in Images \cup {NoImage}
    BY DEF BrokerInv, BrokerTypes
  <1>3. control'.previous \in Images \cup {NoImage}
    <2>1. service.image \in Images \cup {NoImage}
      BY <1>2 DEF Services
    <2>2. ASSUME NEW op, NEW image, Begin(op, image)
          PROVE  control'.previous \in Images \cup {NoImage}
      BY <2>1, <2>2 DEF Begin
    <2>3. EndControl => control'.previous \in Images \cup {NoImage}
      BY DEF EndControl, NoControl
    <2>4. CASE Install
      BY <2>2, <2>4 DEF Install
    <2>5. CASE StartService
      BY <2>2, <2>5 DEF StartService
    <2>6. CASE StopService("stop") \/ StopService("uninstall")
      BY <2>2, <2>6 DEF StopService
    <2>7. CASE Harden \/ WaitEnds
      BY <2>3, <2>7 DEF Harden, WaitEnds
    <2>8. CASE UninstallStopped
      BY <1>2, <2>8 DEF UninstallStopped
    <2> QED
      BY <2>4, <2>5, <2>6, <2>7, <2>8 DEF ControlStep
  <1>4. /\ service' \in Services
        /\ service'.state = service.state
           \/ service.state = "stopped" \/ service'.state = "stop pending"
    <2>1. CASE Install
      BY <1>2, <2>1 DEF Install, Services
    <2>2. CASE Harden
      BY <1>2, <2>2 DEF Harden, Services
    <2>3. CASE StartService
      BY <1>2, <2>3 DEF StartService, Services
    <2>4. CASE StopService("stop") \/ StopService("uninstall")
      BY <1>2, <2>4 DEF StopService, Stop, Services
    <2>5. CASE WaitEnds
      BY <1>2, <2>5 DEF WaitEnds, Services
    <2>6. CASE UninstallStopped
      BY <1>2, <2>6 DEF UninstallStopped, Services
    <2> QED
      BY <2>1, <2>2, <2>3, <2>4, <2>5, <2>6 DEF ControlStep
  <1>5. Runs'
    BY <1>1, <1>4 DEF BrokerInv, Runs, At
  <1> QED
    BY <1>1, <1>3, <1>4, <1>5, Elsewhere

-----------------------------------------------------------------------------
(* The theorems.                                                           *)


\* At the start the registry has what was promised last, and the driver nothing.
LEMMA InvInit ==
  Init => BrokerInv
  <1> SUFFICES ASSUME Init PROVE BrokerInv
    OBVIOUS
  <1>1. BrokerTypes
    <2>1. saved \in Manifests \cup {NotSaved}
      BY BrokerAssumption DEF Init
    <2>2. promised = Restored(saved) /\ promised \in Manifests
      BY <2>1, RestoredIsManifest DEF Init
    <2>3. service \in Services
      <3>1. OwnImage \in Images
        BY BrokerAssumption
      <3>2. \/ service = [image |-> NoImage, state |-> "stopped", running |-> NoImage]
            \/ service = [image |-> OwnImage, state |-> "stopped", running |-> NoImage]
        BY DEF Init
      <3>3. /\ [image |-> NoImage, state |-> "stopped", running |-> NoImage] \in Services
            /\ [image |-> OwnImage, state |-> "stopped", running |-> NoImage] \in Services
        BY <3>1 DEF Services
      <3> QED
        BY <3>2, <3>3
    <2>4. control.previous \in Images \cup {NoImage}
      BY DEF Init, NoControl
    <2>5. broker = [pc |-> broker.pc, command |-> broker.command, manifest |-> broker.manifest,
                    original |-> broker.original, attempt |-> broker.attempt, answer |-> broker.answer]
      BY DEF Init, NoBroker
    <2>6. driver \in Manifests /\ late \subseteq Manifests
      BY EmptyIsManifest DEF Init
    <2> QED
      BY <2>1, <2>2, <2>3, <2>4, <2>5, <2>6 DEF BrokerTypes
  <1>2. broker.pc = "none"
    BY DEF Init, NoBroker
  <1>3. Runs /\ Carries
    BY <1>2 DEF Runs, Carries, Saving, At
  <1>4. RegistryAgrees /\ DriverAgrees
    BY <1>2 DEF Init, RegistryAgrees, DriverAgrees, Saving, At
  <1> QED
    BY <1>1, <1>3, <1>4 DEF BrokerInv

\* Each step of the broker keeps the invariant.
LEMMA BrokerStepKeeps ==
  ASSUME BrokerInv, BrokerStep
  PROVE  BrokerInv'
  BY LoopKeeps, EndsKeep, LoadManifestKeeps, RestoreKeeps, RestoreFailsKeeps, AnsweredKeeps,
     MovesOrAnswersKeep, ReadCommandKeeps, ReplyKeeps, ClosePipeKeeps, ProfileManifestKeeps,
     ProfileSaveKeeps, ProfileApplyKeeps, ProfileApplyFailsKeeps, ProfileRollBackKeeps,
     PermanentCountKeeps, PermanentApplyKeeps, PermanentSaveKeeps
  DEF BrokerStep

\* Each step keeps the invariant.
LEMMA InvNext ==
  BrokerInv /\ [Next]_vars => BrokerInv'
  <1> SUFFICES ASSUME BrokerInv, [Next]_vars PROVE BrokerInv'
    OBVIOUS
  <1>1. CASE UNCHANGED vars
    BY <1>1, Elsewhere DEF vars, brokerVars, BrokerInv, BrokerTypes, Runs, At
  <1>2. CASE Next
    BY <1>2, BrokerStepKeeps, BrokerCrashesKeeps, ClientKeeps, ServiceMainKeeps, ControlKeeps,
       LateRequestKeeps, ForeignChangeKeeps, DeviceRestartsKeeps
    DEF Next
  <1> QED
    BY <1>1, <1>2

\* The broker always knows what was promised: from the registry, or from what it holds.
THEOREM SettingsInvariant == Spec => []BrokerInv
  BY InvInit, InvNext, PTL DEF Spec

\* Whatever fails, times out, crashes or restarts, the registry and the driver have what
\* the last answer promised (AnsweredSettingsKept).
THEOREM SettingsAlwaysKept == Spec => []AnsweredSettingsKept
  <1>1. BrokerInv => AnsweredSettingsKept
    BY DEF BrokerInv, RegistryAgrees, DriverAgrees, AnsweredSettingsKept, Changing, At
  <1> QED
    BY <1>1, SettingsInvariant, PTL

-----------------------------------------------------------------------------
(* Arrivals: the invariant.                                                 *)

\* The modes that are asked for; NoMode is the one of an arrival that has not begun.
Modes == {d.mode : d \in Descriptors} \cup {NoMode}

\* An entry of the store of modes.
Entry == [references : Nat, mode : Modes, restricted : BOOLEAN]

\* An arrival ...
Arrival ==
    [at : {"idle", "reserve", "check", "register", "create", "arrive", "schedule", "unregister",
           "failed", "ended"},
     descriptor : Descriptors \cup {NoMode}, read : Scalings \cup {NoScaling},
     arriving : BOOLEAN, departing : BOOLEAN,
     place : Places \cup {NoPlace}, untouched : BOOLEAN]

\* ... and the work item.
WorkItem ==
    [at : {"none", "attempt", "apply", "write", "migrate", "ended"},
     scaling : Scalings \cup {NoScaling}, value : Scalings \cup {NoScaling},
     todo : SUBSET Places, place : Places \cup {NoPlace}, left : Nat]

\* A place of the registry.
Place == [display : Displays \cup {NoDisplay}, scaling : Scalings, profile : Profiles]

\* The types of what the modes depend on.
ModeTypes ==
    /\ entries \in [DOMAIN TimingOf -> Entry]
    /\ monitors \in [Displays -> {0} \cup Arrivals]
    /\ arrivals \in [Arrivals -> Arrival]
    /\ departures \in [Arrivals -> {"none", "calling", "unregister", "answer"}]
    /\ \A a \in Arrivals : arrivals[a].at # "idle" => arrivals[a].descriptor \in Descriptors

\* One that arrives or is being departed has its record.
RecordOf(a) ==
    /\ arrivals[a].at = "arrive" => monitors[Display(a)] = a
    /\ arrivals[a].arriving <=> arrivals[a].at = "arrive"
    /\ arrivals[a].departing => arrivals[a].at \in {"schedule", "ended"}
    /\ departures[a] # "none" => arrivals[a].departing
    /\ departures[a] = "calling" => monitors[Display(a)] = a
    /\ departures[a] \in {"unregister", "answer"} => monitors[Display(a)] # a

\* A record is of an arrival of its display that has come so far.
Records ==
    /\ \A d \in Displays :
        monitors[d] # 0 => /\ arrivals[monitors[d]].at \in {"arrive", "schedule", "ended"}
                           /\ Display(monitors[d]) = d
    /\ \A a \in Arrivals : RecordOf(a)

\* Whoever has a reference on the mode of an EDID has asked for that mode.
HoldersAgree ==
    \A e \in DOMAIN TimingOf : \A a \in Holders(e) :
        /\ entries[e].mode = arrivals[a].descriptor.mode
        /\ entries[e].restricted = arrivals[a].descriptor.restricted

\* The modes.
ModesInv == ModeTypes /\ Records /\ ReferencesExact /\ HoldersAgree

\* The types of what the settings depend on.
SettingTypes ==
    /\ retained \in [Displays -> Scalings \cup {NoScaling}]
    /\ items \in [Arrivals -> WorkItem]
    /\ places \in [Places -> Place]
    /\ age \in [Places -> Nat]
    /\ console \in BOOLEAN

\* Some place of the display has a scaling other than the recommended one.
Customized(d) == \E q \in PlacesOf(d) : places[q].scaling # 0

\* What the user chose for a display it has, unless he put the scaling back.
ChoicesKept == \A d \in Displays : Chose(d) => Reset(d) \/ Customized(d)

ChoicesRespected == ScalingsChosen /\ ChoicesKept

\* A value in the hands of the driver: the user chose it for the display, or for another one
\* whose settings keys begin with the same prefix.
Given(d, value) ==
    value # NoScaling =>
        value # 0 /\ \E e \in Displays : Kin(e, d) /\ <<e, value>> \in chosen

\* What an arrival and its work item have read.
GivenTo(a) ==
    /\ arrivals[a].at = "reserve" => Given(Display(a), arrivals[a].read)
    /\ items[a].at # "none" => /\ Given(Display(a), items[a].scaling)
                              /\ Given(Display(a), items[a].value)

ValuesGiven ==
    /\ \A d \in Displays : Given(d, retained[d])
    /\ \A a \in Arrivals : GivenTo(a)

\* The place of a monitor is one of its display.
PlacedOwn(a) ==
    /\ arrivals[a].place # NoPlace =>
        arrivals[a].at \in {"schedule", "ended"} /\ arrivals[a].place \in PlacesOf(Display(a))
    /\ arrivals[a].untouched => console /\ arrivals[a].place # NoPlace

Placed == \A a \in Arrivals : PlacedOwn(a)

\* A work item has a value to write when there are places to write it to.
ItemsReady ==
    \A a \in Arrivals :
        /\ items[a].todo # {} => items[a].value # NoScaling
        /\ items[a].at = "write" => items[a].place \in Places /\ items[a].value # NoScaling
        /\ items[a].at = "migrate" => items[a].place \in Places /\ items[a].todo = {}

\* The modes, and the types of the settings.
TypesInv == ModesInv /\ SettingTypes /\ ItemsReady

\* A work item is of an arrival that is over, writes to places that match its display, and
\* migrates to places of its display.
ItemOwn(a) ==
    items[a].at # "none" =>
        /\ arrivals[a].at = "ended" /\ arrivals[a].descriptor.retain
        /\ items[a].todo \subseteq Matching(Display(a))
        /\ items[a].at = "write" => items[a].place \in Matching(Display(a))
        /\ items[a].at = "migrate" =>
            /\ items[a].place \in PlacesOf(Display(a))
            /\ \E q \in PlacesOf(Display(a)) : places[q].profile # "none"
        /\ items[a].at = "ended" => items[a].left = 0

ItemsOwn == \A a \in Arrivals : ItemOwn(a)

\* The place of a monitor has a customized scaling, or need not have one; ...
Settled(a) ==
    places[arrivals[a].place].scaling # 0 \/ Reset(Display(a)) \/ ~Chose(Display(a))

\* ... as for its profile.
Calibrated(a) ==
    \/ places[arrivals[a].place].profile # "none"
    \/ \A q \in PlacesOf(Display(a)) : places[q].profile = "none"

\* The last attempt finds the monitor in its place, and deals with it.
OnLast(a) ==
    /\ items[a].at \in {"apply", "write", "migrate", "ended"} /\ items[a].left = 0
    /\ monitors[Display(a)] = a

LastAttempt(a) ==
    OnLast(a) =>
        /\ arrivals[a].place # NoPlace
        /\ arrivals[a].untouched =>
            /\ items[a].at \in {"apply", "write"} =>
                \/ Settled(a)
                \/ arrivals[a].place \in items[a].todo
                \/ items[a].at = "write" /\ items[a].place = arrivals[a].place
            /\ items[a].at \in {"migrate", "ended"} => Settled(a)
            /\ items[a].at = "migrate" => items[a].place = arrivals[a].place
            /\ items[a].at = "ended" => Calibrated(a)

LastAttempts == \A a \in Arrivals : LastAttempt(a)

\* The settings.
SettingsInv == ChoicesRespected /\ ValuesGiven /\ Placed /\ ItemsOwn /\ LastAttempts

-----------------------------------------------------------------------------
(* The modes: what a step leaves alone.                                    *)

\* No arrival has the number 0, and one has some display when it is not idle.
LEMMA NoneIsNoArrival ==
  /\ 0 \notin Arrivals /\ Arrivals \subseteq Nat
  /\ IsFiniteSet(Arrivals)
  <1>1. MaxArrivals \in Nat
    BY MonitorArrivalAssumption
  <1>2. IsFiniteSet(Arrivals)
    BY <1>1, FS_Interval DEF Arrivals
  <1> QED
    BY <1>1, <1>2 DEF Arrivals

\* The display and the EDID of an arrival that has begun.
LEMMA EdidOfArrival ==
  ASSUME ModeTypes, NEW a \in Arrivals, arrivals[a].at # "idle"
  PROVE  Display(a) \in Displays /\ Edid(a) \in DOMAIN TimingOf
  BY MonitorArrivalAssumption DEF ModeTypes, Display, Edid

\* The holders of a mode are arrivals, finitely many.
LEMMA HoldersFinite ==
  ASSUME NEW e
  PROVE  IsFiniteSet(Holders(e)) /\ Holders(e) \subseteq Arrivals
  BY NoneIsNoArrival, FS_Subset DEF Holders

-----------------------------------------------------------------------------
(* Steps that hold no mode.                                                *)

\* Nothing changes that the modes depend on.
ModesAsBefore ==
    /\ UNCHANGED <<entries, monitors, departures>>
    /\ \A a \in Arrivals : /\ arrivals'[a].at = arrivals[a].at
                           /\ arrivals'[a].descriptor = arrivals[a].descriptor
                           /\ arrivals'[a].arriving = arrivals[a].arriving
                           /\ arrivals'[a].departing = arrivals[a].departing

\* A step of the settings leaves the modes as they were.
LEMMA ModesAsBeforeKeeps ==
  ASSUME ModesInv, ModesAsBefore, arrivals' \in [Arrivals -> Arrival]
  PROVE  ModesInv'
  <1>1. ModeTypes'
    BY DEF ModesInv, ModeTypes, ModesAsBefore
  <1>2. \A a \in Arrivals : Display(a)' = Display(a) /\ Edid(a)' = Edid(a)
    BY DEF ModesAsBefore, Display, Edid
  <1>3. Records'
    <2>1. \A d \in Displays :
            monitors'[d] # 0 => /\ arrivals'[monitors'[d]].at \in {"arrive", "schedule", "ended"}
                                /\ Display(monitors[d])' = d
      BY <1>2 DEF ModesInv, ModeTypes, Records, ModesAsBefore
    <2> QED
      BY <1>2, <2>1 DEF ModesInv, ModeTypes, Records, RecordOf, ModesAsBefore
  <1>4. \A e \in DOMAIN TimingOf : Holders(e)' = Holders(e)
    BY <1>2 DEF Holders, ModesAsBefore
  <1>5. ReferencesExact'
    BY <1>4 DEF ModesInv, ReferencesExact, ModesAsBefore
  <1>6. HoldersAgree'
    BY <1>4, HoldersFinite DEF ModesInv, HoldersAgree, ModesAsBefore
  <1> QED
    BY <1>1, <1>3, <1>5, <1>6 DEF ModesInv

-----------------------------------------------------------------------------
(* Steps of one arrival.                                                   *)

\* The arrival or the departure of a has a reference.
Holds(a) ==
    /\ arrivals[a].at # "idle"
    /\ \/ arrivals[a].at \in {"create", "arrive", "unregister"}
       \/ monitors[Display(a)] = a
       \/ departures[a] = "unregister"

\* A step of the arrival a or of its departure leaves the others and their records alone.
OthersSame(a) ==
    /\ \A b \in Arrivals \ {a} : arrivals'[b] = arrivals[b] /\ departures'[b] = departures[b]
    /\ \A d \in Displays : monitors'[d] = monitors[d] \/ {monitors[d], monitors'[d]} \subseteq {0, a}

\* The others hold what they held.
LEMMA OthersHold ==
  ASSUME ModesInv, NEW a \in Arrivals, OthersSame(a), NEW b \in Arrivals \ {a}
  PROVE  /\ Display(b)' = Display(b) /\ Edid(b)' = Edid(b)
         /\ Holds(b)' <=> Holds(b)
         /\ RecordOf(b)'
  <1>1. arrivals'[b] = arrivals[b] /\ departures'[b] = departures[b]
    BY DEF OthersSame
  <1>2. Display(b)' = Display(b) /\ Edid(b)' = Edid(b)
    BY <1>1 DEF Display, Edid
  <1>3. arrivals[b].at # "idle" => (monitors'[Display(b)] = b <=> monitors[Display(b)] = b)
    <2>1. b # 0 /\ b # a
      BY NoneIsNoArrival
    <2>2. arrivals[b].at # "idle" => Display(b) \in Displays
      BY EdidOfArrival DEF ModesInv
    <2> QED
      BY <2>1, <2>2 DEF OthersSame
  <1>4. Holds(b)' <=> Holds(b)
    BY <1>1, <1>2, <1>3 DEF Holds
  <1>5. RecordOf(b)'
    <2>1. RecordOf(b)
      BY DEF ModesInv, Records
    <2> QED
      BY <1>1, <1>2, <1>3, <2>1 DEF RecordOf
  <1> QED
    BY <1>2, <1>4, <1>5

\* The records are right when that of the arrival is.
LEMMA RecordsKept ==
  ASSUME ModesInv, ModeTypes', NEW a \in Arrivals, OthersSame(a), RecordOf(a)',
         \A d \in Displays : monitors'[d] = a => /\ arrivals'[a].at \in {"arrive", "schedule", "ended"}
                                               /\ Display(a)' = d
  PROVE  Records'
  <1>1. \A b \in Arrivals : RecordOf(b)'
    BY OthersHold
  <1>2. ASSUME NEW d \in Displays, monitors'[d] # 0
        PROVE  /\ arrivals'[monitors'[d]].at \in {"arrive", "schedule", "ended"}
               /\ Display(monitors[d])' = d
    <2>1. CASE monitors'[d] = a
      BY <2>1
    <2>2. CASE monitors'[d] # a
      <3>1. monitors'[d] = monitors[d]
        BY <1>2, <2>2 DEF OthersSame
      <3>2. PICK b \in Arrivals \ {a} : b = monitors[d]
        BY <1>2, <2>2, <3>1 DEF ModesInv, ModeTypes
      <3>3. arrivals[b].at \in {"arrive", "schedule", "ended"} /\ Display(b) = d
        BY <1>2, <3>1, <3>2 DEF ModesInv, Records
      <3>4. arrivals'[b] = arrivals[b] /\ Display(b)' = d
        BY <3>3, OthersHold DEF OthersSame
      <3>5. monitors'[d] = b
        BY <3>1, <3>2
      <3>6. Display(monitors[d])' = Display(b)'
        BY <3>5 DEF Display
      <3> QED
        BY <3>3, <3>4, <3>5, <3>6
    <2> QED
      BY <2>1, <2>2
  <1> QED
    BY <1>1, <1>2 DEF Records

\* Neither the holders nor the modes change.
LEMMA KeepsHolding ==
  ASSUME ModesInv, NEW a \in Arrivals, OthersSame(a), UNCHANGED entries,
         Holds(a)' <=> Holds(a),
         Holds(a) => arrivals'[a].descriptor = arrivals[a].descriptor
  PROVE  ReferencesExact' /\ HoldersAgree'
  <1>1. ASSUME NEW e \in DOMAIN TimingOf
        PROVE  Holders(e)' = Holders(e)
    <2>1. ASSUME NEW b \in Arrivals
          PROVE  Holds(b)' /\ Edid(b)' = e <=> Holds(b) /\ Edid(b) = e
      <3>1. CASE b = a
        BY <3>1 DEF Edid, Display
      <3>2. CASE b # a
        BY <3>2, OthersHold
      <3> QED
        BY <3>1, <3>2
    <2> QED
      BY <2>1 DEF Holders, Holds
  <1>2. ReferencesExact'
    BY <1>1 DEF ModesInv, ReferencesExact
  <1>3. ASSUME NEW e \in DOMAIN TimingOf, NEW b \in Holders(e)
        PROVE  arrivals'[b].descriptor = arrivals[b].descriptor
    BY <1>3, OthersHold DEF Holders, Holds, OthersSame
  <1>4. HoldersAgree'
    BY <1>1, <1>3 DEF ModesInv, HoldersAgree
  <1> QED
    BY <1>2, <1>4

\* One more arrival holds a mode that nobody holds, or everybody for the same request.
LEMMA Joins ==
  ASSUME ModesInv, NEW a \in Arrivals, OthersSame(a),
         ~Holds(a), Holds(a)', arrivals[a].at # "idle",
         arrivals'[a].descriptor = arrivals[a].descriptor,
         NEW e \in DOMAIN TimingOf, e = Edid(a),
         Registrable(entries[e], arrivals[a].descriptor.mode, arrivals[a].descriptor.restricted),
         entries' = [entries EXCEPT ![e] =
                        Registered(@, arrivals[a].descriptor.mode, arrivals[a].descriptor.restricted)]
  PROVE  ReferencesExact' /\ HoldersAgree'
  <1>1. Edid(a)' = e
    BY DEF Edid, Display
  <1>2. ASSUME NEW f \in DOMAIN TimingOf
        PROVE  Holders(f)' = Holders(f) \cup (IF f = e THEN {a} ELSE {})
    <2>1. ASSUME NEW b \in Arrivals
          PROVE  Holds(b)' /\ Edid(b)' = f <=> (Holds(b) /\ Edid(b) = f) \/ (b = a /\ f = e)
      <3>1. CASE b = a
        <4>1. Holds(b)' /\ Edid(b)' = e /\ ~Holds(b)
          BY <1>1, <3>1
        <4> QED
          BY <3>1, <4>1
      <3>2. CASE b # a
        BY <3>2, OthersHold
      <3> QED
        BY <3>1, <3>2
    <2> QED
      BY <2>1 DEF Holders, Holds
  <1>3. a \notin Holders(e)
    BY DEF Holders, Holds
  <1>4. Cardinality(Holders(e)') = entries[e].references + 1
    <2>1. IsFiniteSet(Holders(e)) /\ Cardinality(Holders(e)) = entries[e].references
      BY HoldersFinite DEF ModesInv, ReferencesExact
    <2> QED
      BY <1>2, <1>3, <2>1, FS_AddElement
  <1>5. /\ \A f \in DOMAIN TimingOf \ {e} : entries'[f] = entries[f]
        /\ entries'[e] = [references |-> entries[e].references + 1,
                          mode |-> arrivals[a].descriptor.mode,
                          restricted |-> arrivals[a].descriptor.restricted]
    BY DEF ModesInv, ModeTypes, Registered
  <1>6. ReferencesExact'
    <2>1. ASSUME NEW f \in DOMAIN TimingOf
          PROVE  entries'[f].references = Cardinality(Holders(f)')
      <3>1. CASE f = e
        BY <1>4, <1>5, <3>1
      <3>2. CASE f # e
        <4>1. Holders(f)' = Holders(f)
          BY <1>2, <3>2
        <4>2. entries[f].references = Cardinality(Holders(f))
          BY DEF ModesInv, ReferencesExact
        <4> QED
          BY <1>5, <3>2, <4>1, <4>2
      <3> QED
        BY <3>1, <3>2
    <2> QED
      BY <2>1 DEF ReferencesExact
  <1>7. HoldersAgree'
    <2>1. ASSUME NEW f \in DOMAIN TimingOf, NEW b \in Holders(f)'
          PROVE  /\ entries'[f].mode = arrivals'[b].descriptor.mode
                 /\ entries'[f].restricted = arrivals'[b].descriptor.restricted
      <3>1. CASE b = a
        <4>1. f = e
          BY <1>1, <2>1, <3>1 DEF Holders
        <4> QED
          BY <1>5, <3>1, <4>1
      <3>2. CASE b # a
        <4>1. b \in Holders(f) /\ b \in Arrivals \ {a}
          BY <1>2, <2>1, <3>2, HoldersFinite
        <4>2. arrivals'[b] = arrivals[b]
          BY <4>1 DEF OthersSame
        <4>3. CASE f # e
          BY <1>5, <4>1, <4>2, <4>3 DEF ModesInv, HoldersAgree
        <4>4. CASE f = e
          <5>1. entries[e].references # 0
            <6>1. Holders(e) # {} /\ IsFiniteSet(Holders(e))
              BY <4>1, <4>4, HoldersFinite
            <6> QED
              BY <6>1, FS_EmptySet DEF ModesInv, ReferencesExact
          <5>2. /\ entries[e].mode = arrivals[a].descriptor.mode
                /\ entries[e].restricted = arrivals[a].descriptor.restricted
            BY <5>1 DEF Registrable
          <5>3. /\ entries[e].mode = arrivals[b].descriptor.mode
                /\ entries[e].restricted = arrivals[b].descriptor.restricted
            BY <4>1, <4>4 DEF ModesInv, HoldersAgree
          <5> QED
            BY <1>5, <4>2, <4>4, <5>2, <5>3
        <4> QED
          BY <4>3, <4>4
      <3> QED
        BY <3>1, <3>2
    <2> QED
      BY <2>1 DEF HoldersAgree
  <1> QED
    BY <1>6, <1>7

\* One that lets go of a mode: the last one has it forgotten.
LEMMA Leaves ==
  ASSUME ModesInv, NEW a \in Arrivals, OthersSame(a),
         Holds(a), ~Holds(a)',
         NEW e \in DOMAIN TimingOf, e = Edid(a),
         entries' = [entries EXCEPT ![e] = Unregistered(@)]
  PROVE  ReferencesExact' /\ HoldersAgree'
  <1>1. ASSUME NEW f \in DOMAIN TimingOf
        PROVE  Holders(f)' = Holders(f) \ (IF f = e THEN {a} ELSE {})
    <2>1. ASSUME NEW b \in Arrivals
          PROVE  Holds(b)' /\ Edid(b)' = f <=> (Holds(b) /\ Edid(b) = f) /\ ~(b = a /\ f = e)
      <3>1. CASE b = a
        BY <3>1
      <3>2. CASE b # a
        BY <3>2, OthersHold
      <3> QED
        BY <3>1, <3>2
    <2> QED
      BY <2>1 DEF Holders, Holds
  <1>2. a \in Holders(e)
    BY DEF Holders, Holds
  <1>3. IsFiniteSet(Holders(e)) /\ Cardinality(Holders(e)) = entries[e].references
    BY HoldersFinite DEF ModesInv, ReferencesExact
  <1>4. /\ entries[e].references \in Nat \ {0}
        /\ Cardinality(Holders(e)') = entries[e].references - 1
        /\ IsFiniteSet(Holders(e)')
    <2>1. Cardinality(Holders(e) \ {a}) = Cardinality(Holders(e)) - 1 /\ IsFiniteSet(Holders(e) \ {a})
      BY <1>2, <1>3, FS_RemoveElement
    <2>2. Cardinality(Holders(e) \ {a}) \in Nat
      BY <2>1, FS_CardinalityType
    <2>3. Holders(e)' = Holders(e) \ {a}
      BY <1>1
    <2>4. entries[e].references \in Nat
      BY DEF ModesInv, ModeTypes, Entry
    <2> QED
      BY <1>3, <2>1, <2>2, <2>3, <2>4
  <1>5. \A f \in DOMAIN TimingOf \ {e} : entries'[f] = entries[f]
    BY DEF ModesInv, ModeTypes
  <1>6. entries'[e] = Unregistered(entries[e])
    BY DEF ModesInv, ModeTypes
  <1>7. CASE entries[e].references <= 1
    <2>1. Holders(e)' = {}
      BY <1>4, <1>7, FS_EmptySet
    <2>2. entries'[e].references = 0
      BY <1>6, <1>7 DEF Unregistered, NoEntry
    <2>3. ReferencesExact'
      <3>1. entries'[e].references = Cardinality(Holders(e)')
        BY <1>4, <1>7, <2>2
      <3>2. ASSUME NEW f \in DOMAIN TimingOf, f # e
            PROVE  entries'[f].references = Cardinality(Holders(f)')
        <4>1. Holders(f)' = Holders(f)
          BY <1>1, <3>2
        <4>2. entries[f].references = Cardinality(Holders(f))
          BY DEF ModesInv, ReferencesExact
        <4> QED
          BY <1>5, <3>2, <4>1, <4>2
      <3> QED
        BY <3>1, <3>2 DEF ReferencesExact
    <2>4. HoldersAgree'
      <3>1. ASSUME NEW f \in DOMAIN TimingOf, NEW b \in Holders(f)'
            PROVE  /\ entries'[f].mode = arrivals'[b].descriptor.mode
                   /\ entries'[f].restricted = arrivals'[b].descriptor.restricted
        <4>1. f # e
          BY <2>1, <3>1
        <4>2. b \in Holders(f) /\ b # a /\ b \in Arrivals
          BY <1>1, <3>1, <4>1, HoldersFinite DEF Holders
        <4> QED
          BY <1>5, <4>1, <4>2 DEF ModesInv, HoldersAgree, OthersSame
      <3> QED
        BY <3>1 DEF HoldersAgree
    <2> QED
      BY <2>3, <2>4
  <1>8. CASE ~(entries[e].references <= 1)
    <2>1. /\ entries'[e].references = entries[e].references - 1
          /\ entries'[e].mode = entries[e].mode
          /\ entries'[e].restricted = entries[e].restricted
      BY <1>6, <1>8 DEF Unregistered, ModesInv, ModeTypes, Entry
    <2>2. ReferencesExact'
      <3>1. entries'[e].references = Cardinality(Holders(e)')
        BY <1>4, <2>1
      <3>2. ASSUME NEW f \in DOMAIN TimingOf, f # e
            PROVE  entries'[f].references = Cardinality(Holders(f)')
        <4>1. Holders(f)' = Holders(f)
          BY <1>1, <3>2
        <4>2. entries[f].references = Cardinality(Holders(f))
          BY DEF ModesInv, ReferencesExact
        <4> QED
          BY <1>5, <3>2, <4>1, <4>2
      <3> QED
        BY <3>1, <3>2 DEF ReferencesExact
    <2>3. HoldersAgree'
      <3>1. ASSUME NEW f \in DOMAIN TimingOf, NEW b \in Holders(f)'
            PROVE  /\ entries'[f].mode = arrivals'[b].descriptor.mode
                   /\ entries'[f].restricted = arrivals'[b].descriptor.restricted
        <4>1. b \in Holders(f) /\ b \in Arrivals
          BY <1>1, <3>1, HoldersFinite
        <4>2. arrivals'[b].descriptor = arrivals[b].descriptor
          <5>1. b # a
            BY <3>1, <4>1 DEF Holders, Holds
          <5> QED
            BY <4>1, <5>1 DEF OthersSame
        <4> QED
          BY <1>5, <2>1, <4>1, <4>2 DEF ModesInv, HoldersAgree
      <3> QED
        BY <3>1 DEF HoldersAgree
    <2> QED
      BY <2>2, <2>3
  <1> QED
    BY <1>7, <1>8

-----------------------------------------------------------------------------
(* The scaling written last.                                               *)

\* The order of ages.
AgeLess == {ss \in Nat \X Nat : ss[1] < ss[2]}

\* Of some ages one is the least.
LEMMA AgeLessWellFounded ==
  IsWellFoundedOn(AgeLess, Nat)
  <1>1. OpToRel(<, Nat) = AgeLess
    BY Zenon DEF OpToRel, AgeLess
  <1> QED
    BY <1>1, NatLessThanWellFounded, Zenon

\* Of some places one was written to last.
LEMMA YoungestExists ==
  ASSUME age \in [Places -> Nat], NEW S, S \subseteq Places, S # {}
  PROVE  \E p \in S : \A q \in S : age[p] <= age[q]
  <1> DEFINE ages == {age[q] : q \in S}
  <1>1. ages \subseteq Nat /\ ages # {}
    OBVIOUS
  <1> HIDE DEF ages
  <1>2. PICK x \in ages : \A y \in ages : ~(<<y, x>> \in AgeLess)
    BY <1>1, WFMin, AgeLessWellFounded
  <1>3. ASSUME NEW y \in ages
        PROVE  x <= y
    <2>1. <<y, x>> \in Nat \X Nat
      BY <1>1
    <2>2. ~(<<y, x>>[1] < <<y, x>>[2])
      BY <1>2, <2>1, Zenon DEF AgeLess
    <2> QED
      BY <1>1, <2>2
  <1>4. PICK p \in S : age[p] = x
    BY DEF ages
  <1> QED
    BY <1>3, <1>4 DEF ages

\* What was written last is what one of the places has.
LEMMA LastWrittenIsOfOne ==
  ASSUME age \in [Places -> Nat], NEW S, S \subseteq Places, S # {}
  PROVE  \E p \in S : LastWritten(S) = places[p].scaling
  <1>1. (CHOOSE p \in S : \A q \in S : age[p] <= age[q]) \in S
    BY YoungestExists
  <1> QED
    BY <1>1 DEF LastWritten

\* What is read from the registry is a scaling, or nothing.
LEMMA ReadIsScaling ==
  ASSUME SettingTypes, NEW d
  PROVE  ReadRetained(d) \in Scalings \cup {NoScaling}
  <1> DEFINE S == {p \in Matching(d.display) : places[p].scaling # 0}
  <1>1. S \subseteq Places
    BY DEF Matching
  <1>2. Newest(d.display) = LastWritten(S)
    BY DEF Newest
  <1> HIDE DEF S
  <1>3. CASE S = {}
    BY <1>2, <1>3 DEF LastWritten, ReadRetained
  <1>4. CASE S # {}
    <2>1. PICK p \in S : LastWritten(S) = places[p].scaling
      BY <1>1, <1>4, LastWrittenIsOfOne DEF SettingTypes
    <2>2. places[p].scaling \in Scalings
      BY <1>1, <2>1 DEF SettingTypes, Place
    <2> QED
      BY <1>2, <2>1, <2>2 DEF ReadRetained
  <1> QED
    BY <1>3, <1>4

-----------------------------------------------------------------------------
(* What the steps of an arrival do to its state.                           *)

\* Where an arrival is.
Ats == {"idle", "reserve", "check", "register", "create", "arrive", "schedule", "unregister", "failed",
        "ended"}

\* Only the arrival a changes, and of it neither its place nor what the user has done to it.
Becomes(a, at) ==
    /\ arrivals' \in [Arrivals -> Arrival]
    /\ \A b \in Arrivals \ {a} : arrivals'[b] = arrivals[b]
    /\ arrivals'[a].at = at
    /\ arrivals'[a].place = arrivals[a].place
    /\ arrivals'[a].untouched = arrivals[a].untouched

\* Its request stays, ...
SameRequest(a) == arrivals'[a].descriptor = arrivals[a].descriptor

\* ... and its marks do.
SameMarks(a) ==
    /\ arrivals'[a].arriving = arrivals[a].arriving
    /\ arrivals'[a].departing = arrivals[a].departing

\* An arrival that goes somewhere stays what it is otherwise.
LEMMA GoesThere ==
  ASSUME ModeTypes, NEW a \in Arrivals, NEW at \in Ats, Goes(a, at)
  PROVE  Becomes(a, at) /\ SameRequest(a) /\ SameMarks(a) /\ arrivals'[a].read = arrivals[a].read
  <1>1. arrivals' \in [Arrivals -> Arrival]
    BY DEF Goes, ModeTypes, Arrival, Ats
  <1>2. arrivals'[a] = [arrivals[a] EXCEPT !.at = at]
    BY DEF Goes, ModeTypes
  <1>3. \A b \in Arrivals \ {a} : arrivals'[b] = arrivals[b]
    BY DEF Goes, ModeTypes
  <1>4. arrivals[a] \in Arrival
    BY DEF ModeTypes
  <1> QED
    BY <1>1, <1>2, <1>3, <1>4 DEF Becomes, SameRequest, SameMarks, Arrival

\* A reservation begins with what it reads.
LEMMA ReserveReadsDoes ==
  ASSUME ModeTypes, SettingTypes, NEW a \in Arrivals, NEW d \in Descriptors, ReserveReads(a, d)
  PROVE  /\ arrivals[a].at = "idle" /\ Becomes(a, "reserve") /\ SameMarks(a)
         /\ arrivals'[a].descriptor = d /\ arrivals'[a].read = ReadRetained(d)
         /\ UNCHANGED <<entries, monitors, departures, retained, items, hive, console, chosen>>
  <1>1. PICK new : new = [arrivals[a] EXCEPT !.at = "reserve", !.descriptor = d, !.read = ReadRetained(d)]
    OBVIOUS
  <1>2. arrivals' = [arrivals EXCEPT ![a] = new]
    BY <1>1 DEF ReserveReads, ModeTypes
  <1>3. /\ new \in Arrival /\ new.at = "reserve" /\ new.descriptor = d /\ new.read = ReadRetained(d)
        /\ new.place = arrivals[a].place /\ new.untouched = arrivals[a].untouched
        /\ new.arriving = arrivals[a].arriving /\ new.departing = arrivals[a].departing
    <2>1. arrivals[a] \in Arrival
      BY DEF ModeTypes
    <2> QED
      BY <1>1, <2>1, ReadIsScaling DEF Arrival
  <1>4. arrivals'[a] = new /\ arrivals' \in [Arrivals -> Arrival]
        /\ \A b \in Arrivals \ {a} : arrivals'[b] = arrivals[b]
    BY <1>2, <1>3 DEF ModeTypes
  <1> QED
    BY <1>3, <1>4 DEF ReserveReads, ModeStep, Becomes, SameMarks

\* A reservation ends, and the driver keeps what it read, or nothing, or what it had.
LEMMA ReserveKeepsDoes ==
  ASSUME ModeTypes, NEW a \in Arrivals, NEW stored \in BOOLEAN, ReserveKeeps(a, stored)
  PROVE  /\ arrivals[a].at = "reserve" /\ Becomes(a, IF stored THEN "check" ELSE "failed")
         /\ SameRequest(a) /\ SameMarks(a)
         /\ UNCHANGED <<entries, monitors, departures, items, hive, console, chosen>>
  <1>1. PICK at \in Ats : at = IF stored THEN "check" ELSE "failed"
    BY DEF Ats
  <1>2. PICK new : new = [arrivals[a] EXCEPT !.at = at, !.read = NoScaling]
    OBVIOUS
  <1>3. arrivals' = [arrivals EXCEPT ![a] = new]
    BY <1>1, <1>2 DEF ReserveKeeps, ModeTypes
  <1>4. /\ new \in Arrival /\ new.at = at /\ new.descriptor = arrivals[a].descriptor
        /\ new.place = arrivals[a].place /\ new.untouched = arrivals[a].untouched
        /\ new.arriving = arrivals[a].arriving /\ new.departing = arrivals[a].departing
    <2>1. arrivals[a] \in Arrival
      BY DEF ModeTypes
    <2> QED
      BY <1>2, <2>1 DEF Arrival, Ats
  <1>5. arrivals'[a] = new /\ arrivals' \in [Arrivals -> Arrival]
        /\ \A b \in Arrivals \ {a} : arrivals'[b] = arrivals[b]
    BY <1>3, <1>4 DEF ModeTypes
  <1> QED
    BY <1>1, <1>4, <1>5 DEF ReserveKeeps, ModeStep, Becomes, SameMarks, SameRequest

\* Marks of an arrival that change with its place.
LEMMA MarkedDoes ==
  ASSUME ModeTypes, NEW a \in Arrivals, NEW at \in Ats, NEW x \in BOOLEAN, NEW y \in BOOLEAN,
         NEW new, new = [arrivals[a] EXCEPT !.at = at, !.arriving = x, !.departing = y],
         arrivals' = [arrivals EXCEPT ![a] = new]
  PROVE  /\ Becomes(a, at) /\ SameRequest(a) /\ arrivals'[a].read = arrivals[a].read
         /\ arrivals'[a].arriving = x /\ arrivals'[a].departing = y
  <1>1. /\ new \in Arrival /\ new.at = at /\ new.descriptor = arrivals[a].descriptor
        /\ new.place = arrivals[a].place /\ new.untouched = arrivals[a].untouched
        /\ new.arriving = x /\ new.departing = y /\ new.read = arrivals[a].read
    <2>1. arrivals[a] \in Arrival
      BY DEF ModeTypes
    <2> QED
      BY <2>1 DEF Arrival, Ats
  <1>2. arrivals'[a] = new /\ arrivals' \in [Arrivals -> Arrival]
        /\ \A b \in Arrivals \ {a} : arrivals'[b] = arrivals[b]
    BY <1>1 DEF ModeTypes
  <1> QED
    BY <1>1, <1>2 DEF Becomes, SameRequest

\* The record is inserted with the arrival under way, or there is one already.
LEMMA InsertsDoes ==
  ASSUME ModeTypes, NEW a \in Arrivals, ArrivalInserts(a)
  PROVE  /\ arrivals[a].at = "create" /\ SameRequest(a)
         /\ UNCHANGED <<entries, departures, retained, items, hive, console, chosen>>
         /\ arrivals'[a].departing = arrivals[a].departing
         /\ \/ /\ Becomes(a, "arrive") /\ arrivals'[a].arriving
               /\ monitors[Display(a)] = 0 /\ monitors' = [monitors EXCEPT ![Display(a)] = a]
            \/ /\ Becomes(a, "unregister") /\ SameMarks(a) /\ UNCHANGED monitors
  <1>1. CASE monitors[Display(a)] = 0
    <2>1. PICK new : new = [arrivals[a] EXCEPT !.at = "arrive", !.arriving = TRUE,
                                               !.departing = arrivals[a].departing]
      OBVIOUS
    <2>2. arrivals[a] \in Arrival
      BY DEF ModeTypes
    <2>3. new = [arrivals[a] EXCEPT !.at = "arrive", !.arriving = TRUE]
      BY <2>1, <2>2 DEF Arrival
    <2>4. arrivals' = [arrivals EXCEPT ![a] = new]
      BY <1>1, <2>3 DEF ArrivalInserts, ModeTypes
    <2>5. PICK y \in BOOLEAN : y = arrivals[a].departing
      BY <2>2 DEF Arrival
    <2>6. /\ Becomes(a, "arrive") /\ SameRequest(a)
          /\ arrivals'[a].arriving /\ arrivals'[a].departing = y
      BY <2>1, <2>4, <2>5, MarkedDoes DEF Ats
    <2> QED
      BY <1>1, <2>5, <2>6 DEF ArrivalInserts, ModeStep
  <1>2. CASE monitors[Display(a)] # 0
    <2>1. Goes(a, "unregister") /\ UNCHANGED monitors
      BY <1>2 DEF ArrivalInserts
    <2> QED
      BY <2>1, GoesThere DEF ArrivalInserts, ModeStep, Ats, SameMarks
  <1> QED
    BY <1>1, <1>2

\* The arrival has returned: the record stays, or goes.
LEMMA ReturnsDoes ==
  ASSUME ModeTypes, NEW a \in Arrivals, NEW arrived \in BOOLEAN, ArrivalReturns(a, arrived)
  PROVE  /\ arrivals[a].at = "arrive" /\ SameRequest(a)
         /\ Becomes(a, IF arrived THEN "schedule" ELSE "unregister")
         /\ UNCHANGED <<entries, departures, retained, items, hive, console, chosen>>
         /\ ~arrivals'[a].arriving /\ arrivals'[a].departing = arrivals[a].departing
         /\ monitors' = IF arrived THEN monitors ELSE [monitors EXCEPT ![Display(a)] = 0]
  <1>1. PICK at \in Ats : at = IF arrived THEN "schedule" ELSE "unregister"
    BY DEF Ats
  <1>2. PICK new : new = [arrivals[a] EXCEPT !.at = at, !.arriving = FALSE,
                                             !.departing = arrivals[a].departing]
    OBVIOUS
  <1>3. arrivals[a] \in Arrival
    BY DEF ModeTypes
  <1>4. new = [arrivals[a] EXCEPT !.at = at, !.arriving = FALSE]
    BY <1>2, <1>3 DEF Arrival
  <1>5. arrivals' = [arrivals EXCEPT ![a] = new]
    BY <1>1, <1>4 DEF ArrivalReturns, ModeTypes
  <1>6. PICK y \in BOOLEAN : y = arrivals[a].departing
    BY <1>3 DEF Arrival
  <1>7. /\ Becomes(a, at) /\ SameRequest(a)
        /\ ~arrivals'[a].arriving /\ arrivals'[a].departing = y
    BY <1>2, <1>5, <1>6, MarkedDoes
  <1> QED
    BY <1>1, <1>6, <1>7 DEF ArrivalReturns, ModeStep

\* A departure marks an arrival, and stays where it is.
Marked(a, y) ==
    /\ Becomes(a, arrivals[a].at) /\ SameRequest(a)
    /\ arrivals'[a].read = arrivals[a].read
    /\ arrivals'[a].arriving = arrivals[a].arriving /\ arrivals'[a].departing = y

\* The mark of a departure.
LEMMA DepartingDoes ==
  ASSUME ModeTypes, NEW a \in Arrivals, NEW y \in BOOLEAN,
         arrivals' = [arrivals EXCEPT ![a].departing = y]
  PROVE  Marked(a, y)
  <1>1. arrivals[a] \in Arrival
    BY DEF ModeTypes
  <1>2. PICK new : new = [arrivals[a] EXCEPT !.departing = y]
    OBVIOUS
  <1>3. /\ new \in Arrival /\ new.at = arrivals[a].at /\ new.descriptor = arrivals[a].descriptor
        /\ new.place = arrivals[a].place /\ new.untouched = arrivals[a].untouched
        /\ new.arriving = arrivals[a].arriving /\ new.departing = y /\ new.read = arrivals[a].read
    BY <1>1, <1>2 DEF Arrival
  <1>4. arrivals'[a] = new /\ arrivals' \in [Arrivals -> Arrival]
        /\ \A b \in Arrivals \ {a} : arrivals'[b] = arrivals[b]
    BY <1>2, <1>3 DEF ModeTypes
  <1> QED
    BY <1>3, <1>4 DEF Marked, Becomes, SameRequest

-----------------------------------------------------------------------------
(* Each step keeps the modes.                                              *)

\* An arrival without its record is no monitor of any display.
LEMMA MonitorNotOf ==
  ASSUME ModesInv, NEW a \in Arrivals, NEW d \in Displays, monitors[d] = a
  PROVE  /\ arrivals[a].at \in {"arrive", "schedule", "ended"} /\ Display(a) = d
  BY NoneIsNoArrival DEF ModesInv, Records

\* A step of an arrival that holds no mode, before it has one or after it failed.
LEMMA QuietKeeps ==
  ASSUME ModesInv, NEW a \in Arrivals, NEW at \in {"reserve", "check", "register", "failed", "ended"},
         arrivals[a].at \in {"idle", "reserve", "check", "register", "failed"},
         Becomes(a, at), SameMarks(a),
         arrivals'[a].descriptor \in Descriptors,
         UNCHANGED <<entries, monitors, departures>>
  PROVE  ModesInv'
  <1>1. OthersSame(a)
    BY DEF Becomes, OthersSame
  <1>2. ModeTypes'
    BY DEF ModesInv, ModeTypes, Becomes
  <1>3. \A d \in Displays : monitors[d] # a
    BY MonitorNotOf
  <1>4. departures[a] = "none" /\ ~arrivals[a].departing /\ ~arrivals[a].arriving
    BY DEF ModesInv, Records, RecordOf
  <1>5. ~Holds(a)
    <2>1. arrivals[a].at # "idle" => Display(a) \in Displays
      BY EdidOfArrival DEF ModesInv
    <2> QED
      BY <1>3, <1>4, <2>1 DEF Holds
  <1>6. Display(a)' \in Displays
    BY MonitorArrivalAssumption DEF Display
  <1>7. ~Holds(a)'
    BY <1>3, <1>4, <1>6 DEF Holds, Becomes
  <1>8. RecordOf(a)'
    BY <1>4 DEF RecordOf, Becomes, SameMarks
  <1>9. Records'
    BY <1>1, <1>2, <1>3, <1>8, RecordsKept
  <1>10. ReferencesExact' /\ HoldersAgree'
    BY <1>1, <1>5, <1>7, KeepsHolding
  <1> QED
    BY <1>2, <1>9, <1>10 DEF ModesInv

\* A reservation begins.
LEMMA ReserveReadsModes ==
  ASSUME ModesInv, SettingTypes, NEW a \in Arrivals, NEW d \in Descriptors, ReserveReads(a, d)
  PROVE  ModesInv'
  <1>1. /\ arrivals[a].at = "idle" /\ Becomes(a, "reserve") /\ SameMarks(a)
        /\ arrivals'[a].descriptor = d
        /\ UNCHANGED <<entries, monitors, departures>>
    BY ReserveReadsDoes DEF ModesInv
  <1> QED
    BY <1>1, QuietKeeps

\* A reservation ends.
LEMMA ReserveKeepsModes ==
  ASSUME ModesInv, NEW a \in Arrivals, NEW stored \in BOOLEAN, ReserveKeeps(a, stored)
  PROVE  ModesInv'
  <1>1. /\ arrivals[a].at = "reserve" /\ Becomes(a, IF stored THEN "check" ELSE "failed")
        /\ SameRequest(a) /\ SameMarks(a)
        /\ UNCHANGED <<entries, monitors, departures>>
    BY ReserveKeepsDoes DEF ModesInv
  <1>2. arrivals'[a].descriptor \in Descriptors
    BY <1>1 DEF SameRequest, ModesInv, ModeTypes
  <1>3. CASE stored
    BY <1>1, <1>2, <1>3, QuietKeeps
  <1>4. CASE ~stored
    BY <1>1, <1>2, <1>4, QuietKeeps
  <1> QED
    BY <1>3, <1>4

\* An arrival without a mode goes on, or ends.
LEMMA QuietGoes ==
  ASSUME ModesInv, NEW a \in Arrivals, NEW at \in {"check", "register", "failed", "ended"},
         arrivals[a].at \in {"check", "register", "failed"}, Goes(a, at),
         UNCHANGED <<entries, monitors, departures>>
  PROVE  ModesInv'
  <1>1. Becomes(a, at) /\ SameRequest(a) /\ SameMarks(a)
    BY GoesThere DEF ModesInv, Ats
  <1>2. arrivals'[a].descriptor \in Descriptors
    BY <1>1 DEF SameRequest, ModesInv, ModeTypes
  <1> QED
    BY <1>1, <1>2, QuietKeeps

\* The look for another monitor.
LEMMA ChecksModes ==
  ASSUME ModesInv, NEW a \in Arrivals, ArrivalChecks(a)
  PROVE  ModesInv'
  <1>1. /\ arrivals[a].at = "check" /\ UNCHANGED <<entries, monitors, departures>>
        /\ Goes(a, "register") \/ Goes(a, "failed")
    BY DEF ArrivalChecks
  <1> QED
    BY <1>1, QuietGoes

\* The end of an arrival that failed.
LEMMA RollsBackModes ==
  ASSUME ModesInv, NEW a \in Arrivals, ArrivalRollsBack(a)
  PROVE  ModesInv'
  <1>1. /\ arrivals[a].at = "failed" /\ UNCHANGED <<entries, monitors, departures>>
        /\ Goes(a, "ended")
    BY DEF ArrivalRollsBack
  <1> QED
    BY <1>1, QuietGoes

\* The mode is registered, or refused because another one is.
LEMMA RegistersModes ==
  ASSUME ModesInv, NEW a \in Arrivals, ArrivalRegisters(a)
  PROVE  ModesInv'
  <1>1. arrivals[a].at = "register" /\ UNCHANGED <<monitors, departures>>
    BY DEF ArrivalRegisters
  <1>2. PICK e \in DOMAIN TimingOf : e = Edid(a)
    BY <1>1, EdidOfArrival DEF ModesInv
  <1>3. PICK d \in Descriptors : d = arrivals[a].descriptor
    BY <1>1 DEF ModesInv, ModeTypes
  <1>4. CASE Registrable(entries[e], d.mode, d.restricted)
    <2>1. /\ entries' = [entries EXCEPT ![e] = Registered(@, d.mode, d.restricted)]
          /\ Goes(a, "create")
      BY <1>2, <1>3, <1>4 DEF ArrivalRegisters
    <2>2. Becomes(a, "create") /\ SameRequest(a) /\ SameMarks(a)
      BY <2>1, GoesThere DEF ModesInv, Ats
    <2>3. OthersSame(a)
      BY <1>1, <2>2 DEF Becomes, OthersSame
    <2>4. ModeTypes'
      <3>1. entries' \in [DOMAIN TimingOf -> Entry]
        <4>1. d.mode \in Modes /\ d.restricted \in BOOLEAN
          BY MonitorArrivalAssumption DEF Modes
        <4>2. Registered(entries[e], d.mode, d.restricted) \in Entry
          BY <4>1 DEF ModesInv, ModeTypes, Entry, Registered
        <4> QED
          BY <2>1, <4>2 DEF ModesInv, ModeTypes
      <3> QED
        BY <1>1, <1>3, <2>2, <3>1 DEF ModesInv, ModeTypes, Becomes, SameRequest
    <2>5. \A f \in Displays : monitors[f] # a
      BY <1>1, MonitorNotOf
    <2>6. departures[a] = "none" /\ ~arrivals[a].departing /\ ~arrivals[a].arriving
      BY <1>1 DEF ModesInv, Records, RecordOf
    <2>7. ~Holds(a) /\ Holds(a)'
      BY <1>1, <2>2, <2>5, <2>6, EdidOfArrival DEF Holds, Becomes, ModesInv
    <2>8. RecordOf(a)'
      BY <1>1, <2>2, <2>6 DEF RecordOf, Becomes, SameMarks
    <2>9. Records'
      BY <1>1, <2>3, <2>4, <2>5, <2>8, RecordsKept
    <2>10. ReferencesExact' /\ HoldersAgree'
      BY <1>1, <1>2, <1>3, <1>4, <2>1, <2>2, <2>3, <2>7, Joins DEF SameRequest
    <2> QED
      BY <2>4, <2>9, <2>10 DEF ModesInv
  <1>5. CASE ~Registrable(entries[e], d.mode, d.restricted)
    <2>1. Goes(a, "failed") /\ UNCHANGED <<entries, monitors, departures>>
      BY <1>1, <1>2, <1>3, <1>5 DEF ArrivalRegisters
    <2> QED
      BY <1>1, <2>1, QuietGoes
  <1> QED
    BY <1>4, <1>5

\* An arrival that holds its mode before and after a step.
LEMMA HolderMoves ==
  ASSUME ModesInv, NEW a \in Arrivals, NEW at \in Ats, Becomes(a, at), SameRequest(a),
         arrivals[a].at # "idle", at # "idle",
         OthersSame(a), UNCHANGED entries, Holds(a)' <=> Holds(a), RecordOf(a)',
         monitors' \in [Displays -> {0} \cup Arrivals],
         departures' \in [Arrivals -> {"none", "calling", "unregister", "answer"}],
         \A d \in Displays : monitors'[d] = a => at \in {"arrive", "schedule", "ended"} /\ Display(a)' = d
  PROVE  ModesInv'
  <1>1. ModeTypes'
    BY DEF ModesInv, ModeTypes, Becomes, SameRequest
  <1>2. Records'
    BY <1>1, RecordsKept DEF Becomes
  <1>3. ReferencesExact' /\ HoldersAgree'
    BY KeepsHolding DEF SameRequest
  <1> QED
    BY <1>1, <1>2, <1>3 DEF ModesInv

\* No monitor is made: the mode is held until it is let go of.
LEMMA CreationFailedModes ==
  ASSUME ModesInv, NEW a \in Arrivals, arrivals[a].at = "create", Goes(a, "unregister"),
         UNCHANGED <<entries, monitors, departures>>
  PROVE  ModesInv'
  <1>1. Becomes(a, "unregister") /\ SameRequest(a) /\ SameMarks(a)
    BY GoesThere DEF ModesInv, Ats
  <1>2. OthersSame(a)
    BY <1>1 DEF Becomes, OthersSame
  <1>3. \A d \in Displays : monitors[d] # a
    BY MonitorNotOf
  <1>4. departures[a] = "none" /\ ~arrivals[a].departing /\ ~arrivals[a].arriving
    BY DEF ModesInv, Records, RecordOf
  <1>5. Holds(a) /\ Holds(a)'
    BY <1>1 DEF Holds, Becomes
  <1>6. RecordOf(a)'
    BY <1>1, <1>4 DEF RecordOf, Becomes, SameMarks
  <1>7. /\ monitors' \in [Displays -> {0} \cup Arrivals]
        /\ departures' \in [Arrivals -> {"none", "calling", "unregister", "answer"}]
    BY DEF ModesInv, ModeTypes
  <1>8. "unregister" \in Ats /\ "unregister" # "idle"
    BY DEF Ats
  <1> QED
    BY <1>1, <1>2, <1>3, <1>5, <1>6, <1>7, <1>8, HolderMoves

\* The record of the monitor is inserted, unless there is one by now.
LEMMA InsertsModes ==
  ASSUME ModesInv, NEW a \in Arrivals, ArrivalInserts(a)
  PROVE  ModesInv'
  <1>1. /\ arrivals[a].at = "create" /\ UNCHANGED <<entries, departures>> /\ SameRequest(a)
        /\ arrivals'[a].departing = arrivals[a].departing
    BY InsertsDoes DEF ModesInv
  <1>2. CASE Goes(a, "unregister") /\ UNCHANGED monitors
    BY <1>1, <1>2, CreationFailedModes
  <1>3. CASE /\ Becomes(a, "arrive") /\ arrivals'[a].arriving
             /\ monitors[Display(a)] = 0 /\ monitors' = [monitors EXCEPT ![Display(a)] = a]
    <2>1. PICK d \in Displays : d = Display(a)
      BY <1>1, EdidOfArrival DEF ModesInv
    <2>2. Display(a)' = d
      BY <1>1, <2>1 DEF SameRequest, Display
    <2>3. /\ monitors' \in [Displays -> {0} \cup Arrivals] /\ monitors'[d] = a
          /\ monitors[d] = 0
          /\ \A f \in Displays \ {d} : monitors'[f] = monitors[f]
      BY <1>3, <2>1 DEF ModesInv, ModeTypes
    <2>4. \A f \in Displays : monitors[f] # a
      BY <1>1, MonitorNotOf
    <2>5. OthersSame(a)
      BY <1>1, <1>3, <2>3 DEF Becomes, OthersSame
    <2>6. departures[a] = "none" /\ ~arrivals[a].departing
      BY <1>1 DEF ModesInv, Records, RecordOf
    <2>7. Holds(a) /\ Holds(a)'
      BY <1>1, <1>3 DEF Holds, Becomes
    <2>8. RecordOf(a)'
      BY <1>1, <1>3, <2>2, <2>3, <2>6 DEF RecordOf, Becomes
    <2>9. departures' \in [Arrivals -> {"none", "calling", "unregister", "answer"}]
      BY <1>1 DEF ModesInv, ModeTypes
    <2>10. \A f \in Displays : monitors'[f] = a => f = d
      BY <2>3, <2>4
    <2> QED
      BY <1>1, <1>3, <2>2, <2>3, <2>5, <2>7, <2>8, <2>9, <2>10, HolderMoves DEF Ats
  <1>4. \/ Goes(a, "unregister") /\ UNCHANGED monitors
        \/ /\ Becomes(a, "arrive") /\ arrivals'[a].arriving
           /\ monitors[Display(a)] = 0 /\ monitors' = [monitors EXCEPT ![Display(a)] = a]
    <2>1. CASE monitors[Display(a)] # 0
      BY <2>1 DEF ArrivalInserts
    <2>2. CASE monitors[Display(a)] = 0
      <3>1. arrivals'[a].at = "arrive"
        BY <2>2 DEF ArrivalInserts, ModesInv, ModeTypes, Arrival
      <3>2. ~Becomes(a, "unregister")
        BY <3>1 DEF Becomes
      <3> QED
        BY <3>2, InsertsDoes DEF ModesInv
    <2> QED
      BY <2>1, <2>2
  <1> QED
    BY <1>2, <1>3, <1>4

\* No monitor is made.
LEMMA CreateFailsModes ==
  ASSUME ModesInv, NEW a \in Arrivals, ArrivalCreateFails(a)
  PROVE  ModesInv'
  BY CreationFailedModes DEF ArrivalCreateFails

\* The monitor has arrived, or its record is removed again.
LEMMA ReturnsModes ==
  ASSUME ModesInv, NEW a \in Arrivals, NEW arrived \in BOOLEAN, ArrivalReturns(a, arrived)
  PROVE  ModesInv'
  <1>1. /\ arrivals[a].at = "arrive" /\ SameRequest(a)
        /\ Becomes(a, IF arrived THEN "schedule" ELSE "unregister")
        /\ UNCHANGED <<entries, departures>>
        /\ ~arrivals'[a].arriving /\ arrivals'[a].departing = arrivals[a].departing
        /\ monitors' = IF arrived THEN monitors ELSE [monitors EXCEPT ![Display(a)] = 0]
    BY ReturnsDoes DEF ModesInv
  <1>2. PICK d \in Displays : d = Display(a)
    BY <1>1, EdidOfArrival DEF ModesInv
  <1>3. Display(a)' = d /\ monitors[d] = a
    BY <1>1, <1>2 DEF SameRequest, Display, ModesInv, Records, RecordOf
  <1>4. /\ monitors' \in [Displays -> {0} \cup Arrivals]
        /\ \A f \in Displays \ {d} : monitors'[f] = monitors[f]
        /\ monitors'[d] = IF arrived THEN a ELSE 0
    BY <1>1, <1>2, <1>3 DEF ModesInv, ModeTypes
  <1>5. \A f \in Displays : monitors[f] = a => f = d
    BY <1>2, MonitorNotOf
  <1>6. OthersSame(a)
    BY <1>1, <1>3, <1>4 DEF Becomes, OthersSame
  <1>7. departures[a] = "none" /\ ~arrivals[a].departing
    BY <1>1 DEF ModesInv, Records, RecordOf
  <1>8. Holds(a) /\ Holds(a)'
    BY <1>1, <1>3, <1>4 DEF Holds, Becomes
  <1>9. RecordOf(a)'
    BY <1>1, <1>7 DEF RecordOf, Becomes
  <1>10. departures' \in [Arrivals -> {"none", "calling", "unregister", "answer"}]
    BY <1>1 DEF ModesInv, ModeTypes
  <1>11. ~arrived => \A f \in Displays : monitors'[f] # a
    BY <1>4, <1>5, NoneIsNoArrival
  <1>12. arrived => \A f \in Displays : monitors'[f] = a => f = d
    BY <1>4, <1>5
  <1>13. CASE arrived
    BY <1>1, <1>3, <1>4, <1>6, <1>8, <1>9, <1>10, <1>12, <1>13, HolderMoves DEF Ats
  <1>14. CASE ~arrived
    BY <1>1, <1>3, <1>4, <1>6, <1>8, <1>9, <1>10, <1>11, <1>14, HolderMoves DEF Ats
  <1> QED
    BY <1>13, <1>14

\* The arrival ends; its monitor stays, if it has not departed yet.
LEMMA SchedulesModes ==
  ASSUME ModesInv, NEW a \in Arrivals, NEW made \in BOOLEAN, ArrivalSchedules(a, made)
  PROVE  ModesInv'
  <1>1. /\ arrivals[a].at = "schedule" /\ Goes(a, "ended") /\ UNCHANGED <<entries, monitors, departures>>
    BY DEF ArrivalSchedules
  <1>2. Becomes(a, "ended") /\ SameRequest(a) /\ SameMarks(a)
    BY <1>1, GoesThere DEF ModesInv, Ats
  <1>3. OthersSame(a)
    BY <1>1, <1>2 DEF Becomes, OthersSame
  <1>4. Display(a)' = Display(a)
    BY <1>2 DEF SameRequest, Display
  <1>5. Holds(a)' <=> Holds(a)
    BY <1>1, <1>2, <1>4 DEF Holds, Becomes
  <1>6. RecordOf(a)'
    BY <1>1, <1>2, <1>4 DEF ModesInv, Records, RecordOf, Becomes, SameMarks
  <1>7. /\ monitors' \in [Displays -> {0} \cup Arrivals]
        /\ departures' \in [Arrivals -> {"none", "calling", "unregister", "answer"}]
    BY <1>1 DEF ModesInv, ModeTypes
  <1>8. \A d \in Displays : monitors'[d] = a => Display(a)' = d
    BY <1>1, <1>4, MonitorNotOf
  <1> QED
    BY <1>1, <1>2, <1>3, <1>5, <1>6, <1>7, <1>8, HolderMoves DEF Ats

\* What is left of an entry is an entry.
LEMMA EntriesTyped ==
  ASSUME ModeTypes, NEW e \in DOMAIN TimingOf, entries' = [entries EXCEPT ![e] = Unregistered(@)]
  PROVE  entries' \in [DOMAIN TimingOf -> Entry]
  <1>1. entries[e] \in Entry
    BY DEF ModeTypes
  <1>2. Unregistered(entries[e]) \in Entry
    <2>1. CASE entries[e].references <= 1
      BY <2>1 DEF Unregistered, NoEntry, Entry, Modes
    <2>2. CASE ~(entries[e].references <= 1)
      <3>1. entries[e].references - 1 \in Nat
        BY <1>1, <2>2 DEF Entry
      <3> QED
        BY <1>1, <2>2, <3>1 DEF Unregistered, Entry
    <2> QED
      BY <2>1, <2>2
  <1> QED
    BY <1>2 DEF ModeTypes

\* An arrival that failed lets go of its mode.
LEMMA UnregistersModes ==
  ASSUME ModesInv, NEW a \in Arrivals, ArrivalUnregisters(a)
  PROVE  ModesInv'
  <1>1. /\ arrivals[a].at = "unregister" /\ Goes(a, "failed") /\ UNCHANGED <<monitors, departures>>
        /\ entries' = [entries EXCEPT ![Edid(a)] = Unregistered(@)]
    BY DEF ArrivalUnregisters
  <1>2. PICK e \in DOMAIN TimingOf : e = Edid(a)
    BY <1>1, EdidOfArrival DEF ModesInv
  <1>3. entries' = [entries EXCEPT ![e] = Unregistered(@)]
    BY <1>1, <1>2
  <1>4. Becomes(a, "failed") /\ SameRequest(a) /\ SameMarks(a)
    BY <1>1, GoesThere DEF ModesInv, Ats
  <1>5. OthersSame(a)
    BY <1>1, <1>4 DEF Becomes, OthersSame
  <1>6. \A d \in Displays : monitors[d] # a
    BY <1>1, MonitorNotOf
  <1>7. departures[a] = "none" /\ ~arrivals[a].departing /\ ~arrivals[a].arriving
    BY <1>1 DEF ModesInv, Records, RecordOf
  <1>8. Display(a)' = Display(a) /\ Display(a) \in Displays
    BY <1>1, <1>4, EdidOfArrival DEF SameRequest, Display, ModesInv
  <1>9. Holds(a) /\ ~Holds(a)'
    BY <1>1, <1>4, <1>6, <1>7, <1>8 DEF Holds, Becomes
  <1>10. RecordOf(a)'
    BY <1>1, <1>4, <1>7 DEF RecordOf, Becomes, SameMarks
  <1>11. ModeTypes'
    BY <1>1, <1>3, <1>4, EntriesTyped DEF ModesInv, ModeTypes, Becomes, SameRequest
  <1>12. Records'
    BY <1>1, <1>5, <1>6, <1>10, <1>11, RecordsKept
  <1>13. ReferencesExact' /\ HoldersAgree'
    BY <1>2, <1>3, <1>5, <1>9, Leaves
  <1> QED
    BY <1>11, <1>12, <1>13 DEF ModesInv

\* A monitor on record is under its display only.
LEMMA OneRecordOnly ==
  ASSUME ModesInv, NEW a \in Arrivals, \E d \in Displays : monitors[d] = a
  PROVE  /\ monitors[Display(a)] = a /\ Display(a) \in Displays
         /\ arrivals[a].at \in {"arrive", "schedule", "ended"}
         /\ \A d \in Displays : monitors[d] = a => d = Display(a)
  BY MonitorNotOf

\* A departure calls for a monitor that is up.
LEMMA CallsModes ==
  ASSUME ModesInv, NEW a \in Arrivals, DepartureCalls(a)
  PROVE  ModesInv'
  <1>1. /\ \E d \in Displays : monitors[d] = a
        /\ ~arrivals[a].arriving /\ ~arrivals[a].departing
        /\ arrivals' = [arrivals EXCEPT ![a].departing = TRUE]
        /\ departures' = [departures EXCEPT ![a] = "calling"]
        /\ UNCHANGED <<entries, monitors>>
    BY DEF DepartureCalls, Departs
  <1>2. Marked(a, TRUE)
    BY <1>1, DepartingDoes DEF ModesInv
  <1>3. /\ monitors[Display(a)] = a /\ arrivals[a].at \in {"schedule", "ended"}
        /\ \A d \in Displays : monitors[d] = a => d = Display(a)
    BY <1>1, OneRecordOnly DEF ModesInv, Records, RecordOf
  <1>4. /\ departures' \in [Arrivals -> {"none", "calling", "unregister", "answer"}]
        /\ departures'[a] = "calling"
        /\ \A b \in Arrivals \ {a} : departures'[b] = departures[b]
    BY <1>1 DEF ModesInv, ModeTypes
  <1>5. OthersSame(a)
    BY <1>1, <1>2, <1>4 DEF Marked, Becomes, OthersSame
  <1>6. Display(a)' = Display(a)
    BY <1>2 DEF Marked, SameRequest, Display
  <1>7. Holds(a) /\ Holds(a)'
    BY <1>1, <1>2, <1>3, <1>6 DEF Holds, Marked, Becomes
  <1>8. RecordOf(a)'
    BY <1>1, <1>2, <1>3, <1>4, <1>6 DEF RecordOf, Marked, Becomes
  <1>9. monitors' \in [Displays -> {0} \cup Arrivals]
    BY <1>1 DEF ModesInv, ModeTypes
  <1>10. \A d \in Displays : monitors'[d] = a => Display(a)' = d
    BY <1>1, <1>3, <1>6
  <1>11. PICK at \in {"schedule", "ended"} : at = arrivals[a].at /\ Becomes(a, at) /\ SameRequest(a)
    BY <1>2, <1>3 DEF Marked
  <1> QED
    BY <1>1, <1>4, <1>5, <1>7, <1>8, <1>9, <1>10, <1>11, HolderMoves DEF Ats

\* The record goes, or the departure has failed.
LEMMA DepartureReturnsModes ==
  ASSUME ModesInv, NEW a \in Arrivals, NEW departed \in BOOLEAN, DepartureReturns(a, departed)
  PROVE  ModesInv'
  <1>1. /\ departures[a] = "calling" /\ UNCHANGED entries
        /\ departures' = [departures EXCEPT ![a] = IF departed THEN "unregister" ELSE "none"]
    BY DEF DepartureReturns, Departs
  <1>2. /\ departures' \in [Arrivals -> {"none", "calling", "unregister", "answer"}]
        /\ departures'[a] = IF departed THEN "unregister" ELSE "none"
        /\ \A b \in Arrivals \ {a} : departures'[b] = departures[b]
    BY <1>1 DEF ModesInv, ModeTypes
  <1>3. /\ arrivals[a].departing /\ monitors[Display(a)] = a /\ arrivals[a].at \in {"schedule", "ended"}
        /\ ~arrivals[a].arriving
    BY <1>1 DEF ModesInv, Records, RecordOf
  <1>4. PICK d \in Displays : d = Display(a)
    BY <1>3, EdidOfArrival DEF ModesInv
  <1>5. \A f \in Displays : monitors[f] = a => f = d
    BY <1>4, MonitorNotOf
  <1>6. PICK at \in {"schedule", "ended"} : at = arrivals[a].at
    BY <1>3
  <1>7. /\ Becomes(a, at) /\ SameRequest(a) /\ ~arrivals'[a].arriving
        /\ ~departed => ~arrivals'[a].departing
        /\ departed => arrivals'[a].departing
    <2>1. CASE departed
      BY <1>3, <1>6, <2>1 DEF DepartureReturns, ModesInv, ModeTypes, Becomes, SameRequest
    <2>2. CASE ~departed
      <3>1. Marked(a, FALSE)
        BY <2>2, DepartingDoes DEF DepartureReturns, ModesInv
      <3> QED
        BY <1>3, <1>6, <2>2, <3>1 DEF Marked
    <2> QED
      BY <2>1, <2>2
  <1>8. Display(a)' = d
    BY <1>4, <1>7 DEF SameRequest, Display
  <1>9. /\ monitors' \in [Displays -> {0} \cup Arrivals]
        /\ monitors'[d] = IF departed THEN 0 ELSE a
        /\ \A f \in Displays \ {d} : monitors'[f] = monitors[f]
    <2>1. monitors' = IF departed THEN [monitors EXCEPT ![d] = 0] ELSE monitors
      BY <1>4 DEF DepartureReturns
    <2> QED
      BY <1>3, <1>4, <2>1 DEF ModesInv, ModeTypes
  <1>10. OthersSame(a)
    BY <1>2, <1>3, <1>4, <1>7, <1>9 DEF Becomes, OthersSame
  <1>11. Holds(a) /\ Holds(a)'
    BY <1>2, <1>3, <1>6, <1>7, <1>8, <1>9 DEF Holds, Becomes
  <1>12. a # 0
    BY NoneIsNoArrival
  <1>13. RecordOf(a)'
    BY <1>2, <1>6, <1>7, <1>8, <1>9, <1>12 DEF RecordOf, Becomes
  <1>14. \A f \in Displays : monitors'[f] = a => Display(a)' = f
    BY <1>5, <1>8, <1>9, <1>12
  <1> QED
    BY <1>1, <1>2, <1>3, <1>6, <1>7, <1>9, <1>10, <1>11, <1>13, <1>14, HolderMoves DEF Ats

\* A monitor that is gone lets go of its mode.
LEMMA DepartureUnregistersModes ==
  ASSUME ModesInv, NEW a \in Arrivals, DepartureUnregisters(a)
  PROVE  ModesInv'
  <1>1. /\ departures[a] = "unregister" /\ UNCHANGED <<monitors, arrivals>>
        /\ departures' = [departures EXCEPT ![a] = "answer"]
        /\ entries' = [entries EXCEPT ![Edid(a)] = Unregistered(@)]
    BY DEF DepartureUnregisters, Departs
  <1>2. /\ arrivals[a].at \in {"schedule", "ended"} /\ arrivals[a].departing
        /\ monitors[Display(a)] # a
    BY <1>1 DEF ModesInv, Records, RecordOf
  <1>3. PICK e \in DOMAIN TimingOf : e = Edid(a)
    BY <1>2, EdidOfArrival DEF ModesInv
  <1>4. entries' = [entries EXCEPT ![e] = Unregistered(@)]
    BY <1>1, <1>3
  <1>5. /\ departures' \in [Arrivals -> {"none", "calling", "unregister", "answer"}]
        /\ departures'[a] = "answer"
        /\ \A b \in Arrivals \ {a} : departures'[b] = departures[b]
    BY <1>1 DEF ModesInv, ModeTypes
  <1>6. OthersSame(a)
    BY <1>1, <1>5 DEF OthersSame
  <1>7. Display(a)' = Display(a)
    BY <1>1 DEF Display
  <1>8. Holds(a) /\ ~Holds(a)'
    BY <1>1, <1>2, <1>5, <1>7 DEF Holds
  <1>9. RecordOf(a)'
    BY <1>1, <1>2, <1>5, <1>7 DEF RecordOf, ModesInv, Records
  <1>10. ModeTypes'
    BY <1>1, <1>4, <1>5, EntriesTyped DEF ModesInv, ModeTypes
  <1>11. \A d \in Displays : monitors'[d] # a
    BY <1>1, <1>2, MonitorNotOf
  <1>12. Records'
    BY <1>6, <1>9, <1>10, <1>11, RecordsKept
  <1>13. ReferencesExact' /\ HoldersAgree'
    BY <1>3, <1>4, <1>6, <1>8, Leaves
  <1> QED
    BY <1>10, <1>12, <1>13 DEF ModesInv

\* The caller is told, if it still waits.
LEMMA DepartureAnswersModes ==
  ASSUME ModesInv, NEW a \in Arrivals, NEW awaited \in BOOLEAN, DepartureAnswers(a, awaited)
  PROVE  ModesInv'
  <1>1. /\ departures[a] = "answer" /\ UNCHANGED <<entries, monitors, arrivals>>
        /\ departures' = [departures EXCEPT ![a] = "none"]
    BY DEF DepartureAnswers, Departs
  <1>2. /\ arrivals[a].at \in {"schedule", "ended"} /\ arrivals[a].departing
        /\ monitors[Display(a)] # a
    BY <1>1 DEF ModesInv, Records, RecordOf
  <1>3. /\ departures' \in [Arrivals -> {"none", "calling", "unregister", "answer"}]
        /\ departures'[a] = "none"
        /\ \A b \in Arrivals \ {a} : departures'[b] = departures[b]
    BY <1>1 DEF ModesInv, ModeTypes
  <1>4. OthersSame(a)
    BY <1>1, <1>3 DEF OthersSame
  <1>5. Display(a)' = Display(a)
    BY <1>1 DEF Display
  <1>6. ~Holds(a) /\ ~Holds(a)'
    BY <1>1, <1>2, <1>3, <1>5 DEF Holds
  <1>7. RecordOf(a)'
    BY <1>1, <1>2, <1>3, <1>5 DEF RecordOf, ModesInv, Records
  <1>8. ModeTypes'
    BY <1>1, <1>3 DEF ModesInv, ModeTypes
  <1>9. \A d \in Displays : monitors'[d] # a
    BY <1>1, <1>2, MonitorNotOf
  <1>10. Records'
    BY <1>4, <1>7, <1>8, <1>9, RecordsKept
  <1>11. ReferencesExact' /\ HoldersAgree'
    BY <1>1, <1>4, <1>6, KeepsHolding
  <1> QED
    BY <1>8, <1>10, <1>11 DEF ModesInv

-----------------------------------------------------------------------------
(* What the steps of a work item do to it.                                 *)

\* Only the work item of a changes.
OtherItems(a) ==
    /\ items' \in [Arrivals -> WorkItem]
    /\ \A b \in Arrivals \ {a} : items'[b] = items[b]

\* What the work item of a has in its hands stays.
SameItem(a) ==
    /\ items'[a].scaling = items[a].scaling /\ items'[a].value = items[a].value
    /\ items'[a].left = items[a].left


\* No item is one with nothing in it.
LEMMA NoItemIsItem ==
  /\ NoItem \in WorkItem /\ NoItem.at = "none" /\ NoItem.scaling = NoScaling /\ NoItem.value = NoScaling
  /\ NoItem.todo = {} /\ NoItem.left = 0
  /\ [NoItem EXCEPT !.at = "ended"] \in WorkItem
  BY DEF NoItem, WorkItem

\* A work item is made with what is kept for the display, or none.
LEMMA SchedulesDoes ==
  ASSUME ModeTypes, SettingTypes, NEW a \in Arrivals, NEW made \in BOOLEAN, ArrivalSchedules(a, made),
         Display(a) \in Displays
  PROVE  /\ arrivals[a].at = "schedule" /\ Goes(a, "ended")
         /\ UNCHANGED <<entries, monitors, departures, retained, hive, console, chosen>>
         /\ OtherItems(a)
         /\ \/ items'[a] = items[a]
            \/ /\ arrivals[a].descriptor.retain
               /\ items'[a].at = "attempt" /\ items'[a].todo = {} /\ items'[a].value = NoScaling
               /\ items'[a].scaling = retained[Display(a)]
  <1>1. PICK new : new = [NoItem EXCEPT !.at = "attempt", !.left = MaxAttempts,
                                        !.scaling = retained[Display(a)]]
    OBVIOUS
  <1>2. /\ new \in WorkItem /\ new.at = "attempt" /\ new.todo = {} /\ new.value = NoScaling
        /\ new.scaling = retained[Display(a)]
    <2>1. MaxAttempts \in Nat /\ retained[Display(a)] \in Scalings \cup {NoScaling}
      BY MonitorArrivalAssumption DEF SettingTypes
    <2> QED
      BY <1>1, <2>1 DEF NoItem, WorkItem
  <1>3. items' = IF made /\ arrivals[a].descriptor.retain THEN [items EXCEPT ![a] = new] ELSE items
    BY <1>1 DEF ArrivalSchedules
  <1>4. CASE made /\ arrivals[a].descriptor.retain
    BY <1>2, <1>3, <1>4 DEF ArrivalSchedules, SettingTypes, OtherItems
  <1>5. CASE ~(made /\ arrivals[a].descriptor.retain)
    BY <1>3, <1>5 DEF ArrivalSchedules, SettingTypes, OtherItems
  <1> QED
    BY <1>4, <1>5

\* An attempt begins with the value kept, or the one to be read.
LEMMA BeginsDoes ==
  ASSUME ModeTypes, SettingTypes, NEW a \in Arrivals, AttemptBegins(a)
  PROVE  /\ items[a].at = "attempt" /\ items[a].left > 0 /\ PlacedInTime(a)
         /\ OtherItems(a) /\ UNCHANGED hive /\ ItemStep
         /\ items'[a].at = "apply" /\ items'[a].scaling = items[a].scaling
         /\ items'[a].left = items[a].left - 1
         /\ items'[a].value = IF items[a].scaling # NoScaling THEN items[a].scaling
                              ELSE ReadRetained(arrivals[a].descriptor)
         /\ items'[a].todo = IF items'[a].value # NoScaling /\ console THEN Matching(Display(a)) ELSE {}
  <1> DEFINE read == IF items[a].scaling # NoScaling THEN items[a].scaling
                     ELSE ReadRetained(arrivals[a].descriptor)
             list == IF read # NoScaling /\ console THEN Matching(Display(a)) ELSE {}
  <1>1. items[a] \in WorkItem
    BY DEF SettingTypes
  <1>2. PICK value \in Scalings \cup {NoScaling} : value = read
    BY <1>1, ReadIsScaling DEF WorkItem
  <1>3. PICK todo \in SUBSET Places : todo = list
    BY DEF Matching
  <1>4. PICK left : left = items[a].left - 1
    OBVIOUS
  <1>5. items[a].left > 0 /\ left \in Nat
    BY <1>1, <1>4 DEF AttemptBegins, WorkItem
  <1>6. PICK new : new = [items[a] EXCEPT !.at = "apply", !.value = value, !.left = left, !.todo = todo]
    OBVIOUS
  <1>7. items' = [items EXCEPT ![a] = new]
    BY <1>1, <1>2, <1>3, <1>4, <1>6 DEF AttemptBegins, SettingTypes, UserAtConsole, Display
  <1>8. /\ new \in WorkItem /\ new.at = "apply" /\ new.scaling = items[a].scaling /\ new.left = left
        /\ new.value = value /\ new.todo = todo
    BY <1>1, <1>5, <1>6 DEF WorkItem
  <1>9. items'[a] = new /\ OtherItems(a)
    BY <1>7, <1>8 DEF SettingTypes, OtherItems
  <1> QED
    BY <1>2, <1>3, <1>4, <1>5, <1>8, <1>9 DEF AttemptBegins

\* A place looked at is done with, or written to next.
LEMMA LooksDoes ==
  ASSUME ModeTypes, SettingTypes, NEW a \in Arrivals, NEW p \in Places, AttemptLooks(a, p)
  PROVE  /\ items[a].at = "apply" /\ p \in items[a].todo
         /\ OtherItems(a) /\ UNCHANGED hive /\ ItemStep
         /\ SameItem(a) /\ items'[a].todo = items[a].todo \ {p}
         /\ \/ /\ items'[a].at = "write" /\ items'[a].place = p
               /\ places[p].scaling \in {0, items[a].value}
            \/ /\ items'[a].at = "apply"
               /\ places[p].scaling \notin {0, items[a].value}
  <1>1. items[a] \in WorkItem
    BY DEF SettingTypes
  <1>2. PICK left : left = [items[a] EXCEPT !.todo = @ \ {p}]
    OBVIOUS
  <1>3. /\ left \in WorkItem /\ left.at = items[a].at /\ left.scaling = items[a].scaling
        /\ left.value = items[a].value /\ left.left = items[a].left /\ left.todo = items[a].todo \ {p}
    BY <1>1, <1>2 DEF WorkItem
  <1>4. CASE places[p].scaling \in {0, items[a].value}
    <2>1. PICK new : new = [left EXCEPT !.at = "write", !.place = p]
      OBVIOUS
    <2>2. items' = [items EXCEPT ![a] = new]
      BY <1>2, <1>4, <2>1 DEF AttemptLooks
    <2>3. /\ new \in WorkItem /\ new.at = "write" /\ new.place = p /\ new.scaling = items[a].scaling
          /\ new.value = items[a].value /\ new.left = items[a].left /\ new.todo = items[a].todo \ {p}
      BY <1>3, <2>1 DEF WorkItem
    <2>4. items'[a] = new /\ OtherItems(a)
      BY <2>2, <2>3 DEF SettingTypes, OtherItems
    <2> QED
      BY <1>4, <2>3, <2>4 DEF AttemptLooks, SameItem
  <1>5. CASE places[p].scaling \notin {0, items[a].value}
    <2>1. items' = [items EXCEPT ![a] = left]
      BY <1>2, <1>5 DEF AttemptLooks
    <2>2. items'[a] = left /\ OtherItems(a)
      BY <1>3, <2>1 DEF SettingTypes, OtherItems
    <2> QED
      BY <1>3, <1>5, <2>2 DEF AttemptLooks, SameItem
  <1> QED
    BY <1>4, <1>5

\* A place written to is the one that changes.
LEMMA WriteDoes ==
  ASSUME SettingTypes, NEW p \in Places, NEW place \in Place, Write(p, place)
  PROVE  /\ places' \in [Places -> Place] /\ age' \in [Places -> Nat]
         /\ places'[p] = place /\ \A q \in Places \ {p} : places'[q] = places[q]
  <1>1. places' = [places EXCEPT ![p] = place]
    BY DEF Write
  <1>2. age' \in [Places -> Nat]
    <2>1. \A q \in Places : (IF q = p THEN 0 ELSE IF age[q] < age[p] THEN age[q] + 1 ELSE age[q]) \in Nat
      BY DEF SettingTypes
    <2> QED
      BY <2>1 DEF Write
  <1> QED
    BY <1>1, <1>2 DEF SettingTypes

\* The value is written to the place looked at.
LEMMA WritesDoes ==
  ASSUME ModeTypes, SettingTypes, ItemsReady, NEW a \in Arrivals, AttemptWrites(a),
         NEW p \in Places, p = items[a].place
  PROVE  /\ items[a].at = "write" /\ OtherItems(a) /\ ItemStep
         /\ SameItem(a) /\ items'[a].at = "apply" /\ items'[a].todo = items[a].todo
         /\ places' \in [Places -> Place] /\ age' \in [Places -> Nat]
         /\ items[a].value # NoScaling
         /\ places'[p].scaling = items[a].value /\ places'[p].display = places[p].display
         /\ places'[p].profile = places[p].profile
         /\ \A q \in Places \ {p} : places'[q] = places[q]
  <1>1. items[a] \in WorkItem /\ places[p] \in Place
    BY DEF SettingTypes
  <1>2. items[a].value \in Scalings /\ items[a].value # NoScaling
    BY <1>1 DEF AttemptWrites, ItemsReady, WorkItem
  <1>3. PICK place : place = [places[p] EXCEPT !.scaling = items[a].value]
    OBVIOUS
  <1>4. /\ place \in Place /\ place.scaling = items[a].value /\ place.display = places[p].display
        /\ place.profile = places[p].profile
    BY <1>1, <1>2, <1>3 DEF Place
  <1>5. Write(p, place)
    BY <1>3 DEF AttemptWrites
  <1>6. /\ places' \in [Places -> Place] /\ age' \in [Places -> Nat]
        /\ places'[p] = place /\ \A q \in Places \ {p} : places'[q] = places[q]
    BY <1>4, <1>5, WriteDoes
  <1>7. PICK new : new = [items[a] EXCEPT !.at = "apply", !.place = NoPlace]
    OBVIOUS
  <1>8. /\ new \in WorkItem /\ new.at = "apply" /\ new.scaling = items[a].scaling
        /\ new.value = items[a].value /\ new.left = items[a].left /\ new.todo = items[a].todo
    BY <1>1, <1>7 DEF WorkItem
  <1>9. items' = [items EXCEPT ![a] = new]
    BY <1>7 DEF AttemptWrites, SettingTypes
  <1>10. items'[a] = new /\ OtherItems(a)
    BY <1>8, <1>9 DEF SettingTypes, OtherItems
  <1> QED
    BY <1>2, <1>4, <1>6, <1>8, <1>10 DEF AttemptWrites, SameItem

\* An attempt is over: the next one follows, or the work item ends.
Finishes(a) ==
    /\ items'[a].todo = {} \/ items'[a].todo = items[a].todo
    /\ items'[a].value = NoScaling
    /\ items'[a].scaling \in {NoScaling, items[a].scaling}
    /\ IF items[a].left = 0 THEN items'[a].at = "ended" /\ items'[a].left = 0
       ELSE items'[a].at = "attempt"

\* An attempt is over, or gives a place a profile first.
LEMMA MigratesDoes ==
  ASSUME ModeTypes, SettingTypes, NEW a \in Arrivals, CurrentPlaces(a) \subseteq Places, AttemptMigrates(a)
  PROVE  LET calibrated == {q \in PlacesOf(Display(a)) : places[q].profile # "none"} IN
         /\ items[a].at = "apply" /\ items[a].todo = {}
         /\ OtherItems(a) /\ UNCHANGED hive /\ ItemStep /\ items'[a].todo = {}
         /\ \/ /\ Finishes(a)
               /\ ~console \/ calibrated = {} \/ CurrentPlaces(a) = {}
                                          \/ CurrentPlaces(a) \cap calibrated # {}
            \/ /\ SameItem(a) /\ items'[a].at = "migrate" /\ calibrated # {}
               /\ items'[a].place \in CurrentPlaces(a)
  <1> DEFINE calibrated == {q \in PlacesOf(Display(a)) : places[q].profile # "none"}
             done == IF items[a].left = 0 THEN [NoItem EXCEPT !.at = "ended"]
                     ELSE [items[a] EXCEPT !.at = "attempt", !.value = NoScaling]
  <1>1. items[a] \in WorkItem
    BY DEF SettingTypes
  <1>2. PICK new : new = done
    OBVIOUS
  <1>3. /\ new \in WorkItem
        /\ new.todo = {} \/ new.todo = items[a].todo
        /\ new.value = NoScaling /\ new.scaling \in {NoScaling, items[a].scaling}
        /\ IF items[a].left = 0 THEN new.at = "ended" /\ new.left = 0 ELSE new.at = "attempt"
    <2>1. CASE items[a].left = 0
      BY <1>2, <2>1 DEF NoItem, WorkItem
    <2>2. CASE items[a].left # 0
      BY <1>1, <1>2, <2>2 DEF WorkItem
    <2> QED
      BY <2>1, <2>2
  <1> HIDE DEF calibrated, done
  <1>4. /\ items[a].at = "apply" /\ items[a].todo = {} /\ UNCHANGED hive /\ ItemStep
        /\ \/ /\ ~console \/ calibrated = {} \/ CurrentPlaces(a) = {} \/ CurrentPlaces(a) \cap calibrated # {}
              /\ items' = [items EXCEPT ![a] = new]
           \/ /\ console /\ calibrated # {}
              /\ \E p \in CurrentPlaces(a) \ calibrated :
                    items' = [items EXCEPT ![a].at = "migrate", ![a].place = p]
    BY <1>2 DEF AttemptMigrates, UserAtConsole, calibrated, done
  <1>5. ASSUME items' = [items EXCEPT ![a] = new]
        PROVE  OtherItems(a) /\ items'[a].todo = {} /\ Finishes(a)
    <2>1. items'[a] = new /\ OtherItems(a)
      BY <1>3, <1>5 DEF SettingTypes, OtherItems
    <2> QED
      BY <1>3, <1>4, <2>1 DEF Finishes
  <1>6. ASSUME NEW p \in CurrentPlaces(a), items' = [items EXCEPT ![a].at = "migrate", ![a].place = p]
        PROVE  OtherItems(a) /\ items'[a].todo = {} /\ SameItem(a) /\ items'[a].at = "migrate"
               /\ items'[a].place = p
    <2>1. PICK moved : moved = [items[a] EXCEPT !.at = "migrate", !.place = p]
      OBVIOUS
    <2>2. items' = [items EXCEPT ![a] = moved]
      BY <1>6, <2>1 DEF SettingTypes
    <2>3. /\ moved \in WorkItem /\ moved.at = "migrate" /\ moved.place = p
          /\ moved.scaling = items[a].scaling
          /\ moved.value = items[a].value /\ moved.left = items[a].left /\ moved.todo = items[a].todo
      BY <1>1, <2>1 DEF WorkItem
    <2>4. items'[a] = moved /\ OtherItems(a)
      BY <2>2, <2>3 DEF SettingTypes, OtherItems
    <2> QED
      BY <1>4, <2>3, <2>4 DEF SameItem
  <1>7. CASE items' = [items EXCEPT ![a] = new]
             /\ (~console \/ calibrated = {} \/ CurrentPlaces(a) = {}
                                         \/ CurrentPlaces(a) \cap calibrated # {})
    BY <1>4, <1>5, <1>7 DEF calibrated
  <1>8. CASE calibrated # {}
             /\ \E p \in CurrentPlaces(a) : items' = [items EXCEPT ![a].at = "migrate", ![a].place = p]
    BY <1>4, <1>6, <1>8 DEF calibrated
  <1> QED
    BY <1>4, <1>7, <1>8

\* A place gets the profile of another one.
LEMMA MigratedDoes ==
  ASSUME ModeTypes, SettingTypes, NEW a \in Arrivals, AttemptMigrated(a),
         NEW p \in Places, p = items[a].place
  PROVE  /\ items[a].at = "migrate" /\ OtherItems(a) /\ ItemStep /\ UNCHANGED age /\ Finishes(a)
         /\ places' \in [Places -> Place]
         /\ places'[p].scaling = places[p].scaling /\ places'[p].display = places[p].display
         /\ places'[p].profile = "calibrated"
         /\ \A q \in Places \ {p} : places'[q] = places[q]
  <1>1. items[a] \in WorkItem /\ places[p] \in Place
    BY DEF SettingTypes
  <1>2. PICK place : place = [places[p] EXCEPT !.profile = "calibrated"]
    OBVIOUS
  <1>3. /\ place \in Place /\ place.scaling = places[p].scaling /\ place.display = places[p].display
        /\ place.profile = "calibrated"
    BY <1>1, <1>2 DEF Place, Profiles
  <1>4. places' = [places EXCEPT ![p] = place]
    BY <1>2 DEF AttemptMigrated, SettingTypes
  <1>5. /\ places' \in [Places -> Place]
        /\ places'[p] = place /\ \A q \in Places \ {p} : places'[q] = places[q]
    BY <1>3, <1>4 DEF SettingTypes
  <1>6. PICK new : new = IF items[a].left = 0 THEN [NoItem EXCEPT !.at = "ended"]
                         ELSE [items[a] EXCEPT !.at = "attempt", !.value = NoScaling, !.place = NoPlace]
    OBVIOUS
  <1>7. /\ new \in WorkItem
        /\ new.todo = {} \/ new.todo = items[a].todo
        /\ new.value = NoScaling /\ new.scaling \in {NoScaling, items[a].scaling}
        /\ IF items[a].left = 0 THEN new.at = "ended" /\ new.left = 0 ELSE new.at = "attempt"
    <2>1. CASE items[a].left = 0
      BY <1>6, <2>1 DEF NoItem, WorkItem
    <2>2. CASE items[a].left # 0
      BY <1>1, <1>6, <2>2 DEF WorkItem
    <2> QED
      BY <2>1, <2>2
  <1>8. items' = [items EXCEPT ![a] = new]
    BY <1>6 DEF AttemptMigrated, SettingTypes
  <1>9. items'[a] = new /\ OtherItems(a)
    BY <1>7, <1>8 DEF SettingTypes, OtherItems
  <1> QED
    BY <1>3, <1>5, <1>7, <1>9 DEF AttemptMigrated, Finishes

-----------------------------------------------------------------------------
(* What Windows and its user do.                                           *)

\* The place or the mark of one arrival, and nothing of the modes.
LEMMA PlaceChanges ==
  ASSUME ModeTypes, NEW a \in Arrivals, NEW place \in Places \cup {NoPlace}, NEW y \in BOOLEAN,
         NEW new, new = [arrivals[a] EXCEPT !.place = place, !.untouched = y],
         arrivals' = [arrivals EXCEPT ![a] = new],
         UNCHANGED <<entries, monitors, departures>>
  PROVE  /\ ModesAsBefore /\ arrivals' \in [Arrivals -> Arrival]
         /\ \A b \in Arrivals \ {a} : arrivals'[b] = arrivals[b]
         /\ \A b \in Arrivals : arrivals'[b].read = arrivals[b].read
         /\ arrivals'[a].place = place /\ arrivals'[a].untouched = y
  <1>1. arrivals[a] \in Arrival
    BY DEF ModeTypes
  <1>2. /\ new \in Arrival /\ new.at = arrivals[a].at /\ new.descriptor = arrivals[a].descriptor
        /\ new.read = arrivals[a].read /\ new.place = place /\ new.untouched = y
        /\ new.arriving = arrivals[a].arriving /\ new.departing = arrivals[a].departing
    BY <1>1 DEF Arrival
  <1>3. arrivals'[a] = new /\ arrivals' \in [Arrivals -> Arrival]
        /\ \A b \in Arrivals \ {a} : arrivals'[b] = arrivals[b]
    BY <1>2 DEF ModeTypes
  <1> QED
    BY <1>2, <1>3 DEF ModesAsBefore

\* A monitor gets a place of its display, or a new one with nothing in it.
LEMMA AssignsDoes ==
  ASSUME ModeTypes, SettingTypes, NEW a \in Arrivals, NEW p \in Places, WindowsAssigns(a, p),
         Display(a) \in Displays
  PROVE  /\ arrivals[a].at # "idle" /\ Up(a) /\ arrivals[a].place = NoPlace
         /\ ModesAsBefore /\ arrivals' \in [Arrivals -> Arrival]
         /\ \A b \in Arrivals \ {a} : arrivals'[b] = arrivals[b]
         /\ \A b \in Arrivals : arrivals'[b].read = arrivals[b].read
         /\ arrivals'[a].place = p /\ arrivals'[a].untouched = console
         /\ places' \in [Places -> Place] /\ age' \in [Places -> Nat]
         /\ \A q \in Places \ {p} : places'[q] = places[q]
         /\ \/ places[p].display = Display(a) /\ places'[p] = places[p]
            \/ /\ places[p].display = NoDisplay /\ places'[p].display = Display(a)
               /\ places'[p].scaling = 0 /\ places'[p].profile = "none"
         /\ UNCHANGED <<retained, items, console, chosen>>
  <1>1. PICK y \in BOOLEAN : y = console
    BY DEF SettingTypes
  <1>2. PICK new : new = [arrivals[a] EXCEPT !.place = p, !.untouched = y]
    OBVIOUS
  <1>3. arrivals' = [arrivals EXCEPT ![a] = new]
    BY <1>1, <1>2 DEF WindowsAssigns, ModeTypes
  <1>4. UNCHANGED <<entries, monitors, departures, retained, items, console, chosen>>
    BY DEF WindowsAssigns, Environment
  <1>5. /\ ModesAsBefore /\ arrivals' \in [Arrivals -> Arrival]
        /\ \A b \in Arrivals \ {a} : arrivals'[b] = arrivals[b]
        /\ \A b \in Arrivals : arrivals'[b].read = arrivals[b].read
        /\ arrivals'[a].place = p /\ arrivals'[a].untouched = y
    BY <1>2, <1>3, <1>4, PlaceChanges
  <1>6. /\ places' \in [Places -> Place] /\ age' \in [Places -> Nat]
        /\ \A q \in Places \ {p} : places'[q] = places[q]
        /\ \/ places[p].display = Display(a) /\ places'[p] = places[p]
           \/ /\ places[p].display = NoDisplay /\ places'[p].display = Display(a)
              /\ places'[p].scaling = 0 /\ places'[p].profile = "none"
    <2>1. CASE places[p].display = NoDisplay
      <3>1. PICK place : place = [Unused EXCEPT !.display = Display(a)]
        OBVIOUS
      <3>2. /\ place \in Place /\ place.display = Display(a) /\ place.scaling = 0
            /\ place.profile = "none"
        BY <3>1, MonitorArrivalAssumption DEF Unused, Place, Profiles
      <3>3. Write(p, place)
        BY <2>1, <3>1 DEF WindowsAssigns
      <3> QED
        BY <2>1, <3>2, <3>3, WriteDoes
    <2>2. CASE places[p].display # NoDisplay
      BY <2>2 DEF WindowsAssigns, hive, SettingTypes
    <2> QED
      BY <2>1, <2>2
  <1> QED
    BY <1>1, <1>4, <1>5, <1>6 DEF WindowsAssigns

\* The user changes the place of a monitor; a scaling he gives it he has chosen.
LEMMA ChangesDoes ==
  ASSUME ModeTypes, SettingTypes, NEW a \in Arrivals, UserChanges(a)
  PROVE  \E p \in Places :
         /\ p = arrivals[a].place /\ p # NoPlace /\ Up(a) /\ console
         /\ ModesAsBefore /\ arrivals' \in [Arrivals -> Arrival]
         /\ \A b \in Arrivals \ {a} : arrivals'[b] = arrivals[b]
         /\ \A b \in Arrivals : arrivals'[b].read = arrivals[b].read
         /\ arrivals'[a].place = p /\ ~arrivals'[a].untouched
         /\ places' \in [Places -> Place] /\ age' \in [Places -> Nat]
         /\ \A q \in Places \ {p} : places'[q] = places[q]
         /\ places'[p].display = places[p].display
         /\ places[p].profile # "none" => places'[p].profile # "none"
         /\ chosen' = chosen \cup {<<Display(a), places'[p].scaling>>}
         /\ UNCHANGED <<retained, items, console>>
  <1>1. PICK p \in Places : p = arrivals[a].place
    BY DEF UserChanges, ModeTypes, Arrival
  <1>2. /\ p # NoPlace /\ Up(a) /\ console
        /\ UNCHANGED <<entries, monitors, departures, retained, items, console>>
    BY <1>1 DEF UserChanges, Environment
  <1>3. arrivals[a] \in Arrival /\ places[p] \in Place
    BY DEF ModeTypes, SettingTypes
  <1>4. PICK new : new = [arrivals[a] EXCEPT !.place = p, !.untouched = FALSE]
    OBVIOUS
  <1>5. new = [arrivals[a] EXCEPT !.untouched = FALSE]
    BY <1>1, <1>3, <1>4 DEF Arrival
  <1>6. arrivals' = [arrivals EXCEPT ![a] = new]
    BY <1>5 DEF UserChanges, ModeTypes
  <1>7. p \in Places \cup {NoPlace} /\ FALSE \in BOOLEAN
    OBVIOUS
  <1>8. /\ ModesAsBefore /\ arrivals' \in [Arrivals -> Arrival]
        /\ \A b \in Arrivals \ {a} : arrivals'[b] = arrivals[b]
        /\ \A b \in Arrivals : arrivals'[b].read = arrivals[b].read
        /\ arrivals'[a].place = p /\ ~arrivals'[a].untouched
    BY <1>2, <1>4, <1>6, <1>7, PlaceChanges
  <1>9. PICK changed \in {[places[p] EXCEPT !.scaling = s] : s \in Scalings}
                          \cup {[places[p] EXCEPT !.profile = "calibrated"]} :
           Write(p, changed) /\ chosen' = chosen \cup {<<Display(a), changed.scaling>>}
    BY <1>1 DEF UserChanges
  <1>10. /\ changed \in Place /\ changed.display = places[p].display
         /\ places[p].profile # "none" => changed.profile # "none"
    <2>1. CASE changed = [places[p] EXCEPT !.profile = "calibrated"]
      BY <1>3, <2>1 DEF Place, Profiles
    <2>2. CASE \E s \in Scalings : changed = [places[p] EXCEPT !.scaling = s]
      BY <1>3, <2>2 DEF Place
    <2> QED
      BY <2>1, <2>2
  <1>11. /\ places' \in [Places -> Place] /\ age' \in [Places -> Nat]
         /\ places'[p] = changed /\ \A q \in Places \ {p} : places'[q] = places[q]
    BY <1>9, <1>10, WriteDoes
  <1> QED
    BY <1>1, <1>2, <1>8, <1>9, <1>10, <1>11

\* The console switches, and no monitor is left untouched.
LEMMA SwitchesDoes ==
  ASSUME ModeTypes, SettingTypes, ConsoleSwitches
  PROVE  /\ ModesAsBefore /\ arrivals' \in [Arrivals -> Arrival]
         /\ \A a \in Arrivals : /\ arrivals'[a].place = arrivals[a].place /\ ~arrivals'[a].untouched
                                /\ arrivals'[a].read = arrivals[a].read
         /\ console' \in BOOLEAN /\ UNCHANGED <<retained, items, hive, chosen>>
  <1>1. arrivals' = [a \in Arrivals |-> [arrivals[a] EXCEPT !.untouched = FALSE]]
    BY DEF ConsoleSwitches
  <1>2. ASSUME NEW a \in Arrivals
        PROVE  /\ arrivals'[a] \in Arrival /\ arrivals'[a].at = arrivals[a].at
               /\ arrivals'[a].descriptor = arrivals[a].descriptor
               /\ arrivals'[a].arriving = arrivals[a].arriving
               /\ arrivals'[a].departing = arrivals[a].departing
               /\ arrivals'[a].place = arrivals[a].place /\ ~arrivals'[a].untouched
               /\ arrivals'[a].read = arrivals[a].read
    <2>1. arrivals[a] \in Arrival
      BY DEF ModeTypes
    <2>2. arrivals'[a] = [arrivals[a] EXCEPT !.untouched = FALSE]
      BY <1>1
    <2> QED
      BY <2>1, <2>2 DEF Arrival
  <1>3. arrivals' \in [Arrivals -> Arrival]
    BY <1>1, <1>2
  <1> QED
    BY <1>2, <1>3 DEF ConsoleSwitches, Environment, ModesAsBefore

-----------------------------------------------------------------------------
(* Each step keeps the types of the settings.                              *)

\* A step that leaves the work items and the registry alone.
LEMMA QuietTypes ==
  ASSUME SettingTypes, ItemsReady, UNCHANGED <<items, hive>>, console' \in BOOLEAN,
         retained' \in [Displays -> Scalings \cup {NoScaling}]
  PROVE  SettingTypes' /\ ItemsReady'
  BY DEF SettingTypes, ItemsReady, hive

\* What is kept for a display is a scaling, or nothing.
LEMMA RetainedTyped ==
  ASSUME SettingTypes, NEW d, NEW value \in Scalings \cup {NoScaling},
         retained' = [retained EXCEPT ![d] = value]
  PROVE  retained' \in [Displays -> Scalings \cup {NoScaling}]
  BY DEF SettingTypes

\* What a reservation keeps is a scaling, or nothing.
LEMMA ReserveKeepsRetained ==
  ASSUME ModeTypes, SettingTypes, NEW a \in Arrivals, NEW stored \in BOOLEAN, ReserveKeeps(a, stored),
         Display(a) \in Displays
  PROVE  /\ retained' \in [Displays -> Scalings \cup {NoScaling}]
         /\ \A d \in Displays \ {Display(a)} : retained'[d] = retained[d]
         /\ retained'[Display(a)] \in {arrivals[a].read, NoScaling, retained[Display(a)]}
  <1>1. /\ arrivals[a].read \in Scalings \cup {NoScaling}
        /\ retained[Display(a)] \in Scalings \cup {NoScaling}
    BY DEF ModeTypes, Arrival, SettingTypes
  <1>2. PICK value \in Scalings \cup {NoScaling} :
          /\ value = IF stored /\ arrivals[a].read # NoScaling THEN arrivals[a].read
                     ELSE IF ~stored \/ UserAtConsole THEN NoScaling ELSE retained[Display(a)]
          /\ value \in {arrivals[a].read, NoScaling, retained[Display(a)]}
    BY <1>1
  <1>3. retained' = [retained EXCEPT ![Display(a)] = value]
    BY <1>2 DEF ReserveKeeps, SettingTypes
  <1> QED
    BY <1>2, <1>3 DEF SettingTypes

\* A step of a work item that has a value whenever it has a place to write it to.
LEMMA ItemTypes ==
  ASSUME SettingTypes, ItemsReady, NEW a \in Arrivals, OtherItems(a),
         places' \in [Places -> Place], age' \in [Places -> Nat], UNCHANGED <<retained, console>>,
         items'[a].todo # {} => items'[a].value # NoScaling,
         items'[a].at = "write" => items'[a].place \in Places /\ items'[a].value # NoScaling,
         items'[a].at = "migrate" => items'[a].place \in Places /\ items'[a].todo = {}
  PROVE  SettingTypes' /\ ItemsReady'
  <1>1. SettingTypes'
    BY DEF SettingTypes, OtherItems
  <1>2. ASSUME NEW b \in Arrivals
        PROVE  /\ items'[b].todo # {} => items'[b].value # NoScaling
               /\ items'[b].at = "write" => items'[b].place \in Places /\ items'[b].value # NoScaling
               /\ items'[b].at = "migrate" => items'[b].place \in Places /\ items'[b].todo = {}
    <2>1. CASE b = a
      BY <2>1
    <2>2. CASE b # a
      BY <2>2 DEF ItemsReady, OtherItems
    <2> QED
      BY <2>1, <2>2
  <1> QED
    BY <1>1, <1>2 DEF ItemsReady

\* An arrival or a departure, as far as the settings are typed.
LEMMA ArrivalTypes ==
  ASSUME TypesInv, NEW a \in Arrivals,
         \/ \E d \in Descriptors : ReserveReads(a, d)
         \/ \E stored \in BOOLEAN : ReserveKeeps(a, stored)
         \/ ArrivalChecks(a) \/ ArrivalRegisters(a) \/ ArrivalInserts(a) \/ ArrivalCreateFails(a)
         \/ \E arrived \in BOOLEAN : ArrivalReturns(a, arrived)
         \/ ArrivalUnregisters(a) \/ ArrivalRollsBack(a)
         \/ \E made \in BOOLEAN : ArrivalSchedules(a, made)
         \/ DepartureCalls(a)
         \/ \E departed \in BOOLEAN : DepartureReturns(a, departed)
         \/ DepartureUnregisters(a)
         \/ \E awaited \in BOOLEAN : DepartureAnswers(a, awaited)
  PROVE  TypesInv'
  <1> USE DEF TypesInv
  <1>1. ASSUME UNCHANGED <<items, hive, console, retained>>
        PROVE  SettingTypes' /\ ItemsReady'
    BY <1>1, QuietTypes DEF SettingTypes
  <1>2. ASSUME NEW d, NEW value \in Scalings \cup {NoScaling},
               retained' = [retained EXCEPT ![d] = value], UNCHANGED <<items, hive, console>>
        PROVE  SettingTypes' /\ ItemsReady'
    BY <1>2, QuietTypes, RetainedTyped DEF SettingTypes
  <1>3. CASE \E d \in Descriptors : ReserveReads(a, d)
    BY <1>1, <1>3, ReserveReadsModes DEF ReserveReads, ModeStep
  <1>4. CASE \E stored \in BOOLEAN : ReserveKeeps(a, stored)
    <2>1. PICK stored \in BOOLEAN : ReserveKeeps(a, stored)
      BY <1>4
    <2>2. Display(a) \in Displays
      BY <2>1, EdidOfArrival DEF ReserveKeeps, ModesInv
    <2>3. retained' \in [Displays -> Scalings \cup {NoScaling}]
      BY <2>1, <2>2, ReserveKeepsRetained DEF ModesInv
    <2>4. UNCHANGED <<items, hive, console>>
      BY <2>1 DEF ReserveKeeps, ModeStep
    <2> QED
      BY <2>1, <2>3, <2>4, QuietTypes, ReserveKeepsModes DEF SettingTypes
  <1>5. CASE ArrivalChecks(a)
    BY <1>1, <1>5, ChecksModes DEF ArrivalChecks, ModeStep
  <1>6. CASE ArrivalRegisters(a)
    BY <1>1, <1>6, RegistersModes DEF ArrivalRegisters, ModeStep
  <1>7. CASE ArrivalInserts(a)
    BY <1>1, <1>7, InsertsModes DEF ArrivalInserts, ModeStep
  <1>8. CASE ArrivalCreateFails(a)
    BY <1>1, <1>8, CreateFailsModes DEF ArrivalCreateFails, ModeStep
  <1>9. CASE \E arrived \in BOOLEAN : ArrivalReturns(a, arrived)
    BY <1>1, <1>9, ReturnsModes DEF ArrivalReturns, ModeStep
  <1>10. CASE ArrivalUnregisters(a)
    BY <1>1, <1>10, UnregistersModes DEF ArrivalUnregisters, ModeStep
  <1>11. CASE ArrivalRollsBack(a)
    BY <1>2, <1>11, RollsBackModes DEF ArrivalRollsBack, ModeStep
  <1>12. CASE \E made \in BOOLEAN : ArrivalSchedules(a, made)
    <2>1. PICK made \in BOOLEAN : ArrivalSchedules(a, made)
      BY <1>12
    <2>2. Display(a) \in Displays
      BY <2>1, EdidOfArrival DEF ArrivalSchedules, ModesInv
    <2>3. /\ UNCHANGED <<retained, hive, console>>
          /\ OtherItems(a)
          /\ \/ items'[a] = items[a]
             \/ items'[a].at = "attempt" /\ items'[a].todo = {}
      BY <2>1, <2>2, SchedulesDoes DEF ModesInv
    <2>4. places' \in [Places -> Place] /\ age' \in [Places -> Nat]
      BY <2>3 DEF SettingTypes, hive
    <2>5. CASE items'[a] = items[a]
      BY <2>1, <2>3, <2>4, <2>5, ItemTypes, SchedulesModes DEF ItemsReady
    <2>6. CASE items'[a].at = "attempt" /\ items'[a].todo = {}
      BY <2>1, <2>3, <2>4, <2>6, ItemTypes, SchedulesModes
    <2> QED
      BY <2>3, <2>5, <2>6
  <1>13. CASE DepartureCalls(a)
    BY <1>1, <1>13, CallsModes DEF DepartureCalls, ModeStep
  <1>14. CASE \E departed \in BOOLEAN : DepartureReturns(a, departed)
    BY <1>1, <1>14, DepartureReturnsModes DEF DepartureReturns, ModeStep
  <1>15. CASE DepartureUnregisters(a)
    BY <1>1, <1>15, DepartureUnregistersModes DEF DepartureUnregisters, ModeStep
  <1>16. CASE \E awaited \in BOOLEAN : DepartureAnswers(a, awaited)
    <2>1. PICK awaited \in BOOLEAN : DepartureAnswers(a, awaited)
      BY <1>16
    <2>2. UNCHANGED <<items, hive, console>>
      BY <2>1 DEF DepartureAnswers, ModeStep
    <2>3. retained' = retained \/ retained' = [retained EXCEPT ![Display(a)] = NoScaling]
      BY <2>1 DEF DepartureAnswers
    <2> QED
      BY <1>1, <1>2, <2>1, <2>2, <2>3, DepartureAnswersModes
  <1> QED
    BY <1>3, <1>4, <1>5, <1>6, <1>7, <1>8, <1>9, <1>10, <1>11, <1>12, <1>13, <1>14, <1>15, <1>16

\* Where a monitor is, or may be, are places.
LEMMA CurrentPlacesArePlaces ==
  ASSUME ModeTypes, NEW a \in Arrivals
  PROVE  CurrentPlaces(a) \subseteq Places
  BY DEF ModeTypes, Arrival, CurrentPlaces, PlacesOf

\* A work item has no part in the modes.
LEMMA ItemModes ==
  ASSUME ModesInv, ItemStep
  PROVE  ModesInv'
  <1>1. ModesAsBefore /\ arrivals' \in [Arrivals -> Arrival]
    BY DEF ItemStep, modeVars, ModesAsBefore, ModesInv, ModeTypes
  <1> QED
    BY <1>1, ModesAsBeforeKeeps

\* A step of a work item.
LEMMA ItemStepTypes ==
  ASSUME TypesInv, NEW a \in Arrivals, Item(a)
  PROVE  TypesInv'
  <1> USE DEF TypesInv
  <1>1. ItemStep
    BY DEF Item, AttemptBegins, AttemptLooks, AttemptWrites, AttemptMigrates, AttemptMigrated
  <1>2. ModesInv' /\ UNCHANGED <<retained, console>>
    BY <1>1, ItemModes DEF ItemStep
  <1>3. ModeTypes /\ places \in [Places -> Place] /\ age \in [Places -> Nat]
    BY DEF ModesInv, SettingTypes
  <1>4. CASE AttemptBegins(a)
    <2>1. /\ OtherItems(a) /\ UNCHANGED hive /\ items'[a].at = "apply"
          /\ items'[a].todo # {} => items'[a].value # NoScaling
      BY <1>3, <1>4, BeginsDoes
    <2> QED
      BY <1>2, <1>3, <2>1, ItemTypes DEF hive
  <1>5. CASE \E p \in Places : AttemptLooks(a, p)
    <2>1. PICK p \in Places : AttemptLooks(a, p)
      BY <1>5
    <2>2. /\ p \in items[a].todo
          /\ OtherItems(a) /\ UNCHANGED hive
          /\ items'[a].value = items[a].value
          /\ \/ items'[a].at = "write" /\ items'[a].place = p
             \/ items'[a].at = "apply"
      BY <1>3, <2>1, LooksDoes DEF SameItem
    <2>3. items[a].value # NoScaling
      BY <2>2 DEF ItemsReady
    <2> QED
      BY <1>2, <1>3, <2>2, <2>3, ItemTypes DEF hive
  <1>6. CASE AttemptWrites(a)
    <2>1. PICK p \in Places : p = items[a].place
      BY <1>6 DEF AttemptWrites, ItemsReady
    <2>2. /\ OtherItems(a) /\ items'[a].value = items[a].value /\ items'[a].at = "apply"
          /\ places' \in [Places -> Place] /\ age' \in [Places -> Nat]
          /\ items[a].value # NoScaling
      BY <1>3, <1>6, <2>1, WritesDoes DEF SameItem
    <2> QED
      BY <1>2, <2>2, ItemTypes
  <1>7. CASE AttemptMigrates(a)
    <2>1. /\ OtherItems(a) /\ UNCHANGED hive /\ items'[a].todo = {}
          /\ \/ items'[a].at \in {"attempt", "ended"}
             \/ items'[a].at = "migrate" /\ items'[a].place \in Places
      BY <1>3, <1>7, MigratesDoes, CurrentPlacesArePlaces DEF Finishes
    <2> QED
      BY <1>2, <1>3, <2>1, ItemTypes DEF hive
  <1>8. CASE AttemptMigrated(a)
    <2>1. PICK p \in Places : p = items[a].place
      BY <1>8 DEF AttemptMigrated, ItemsReady
    <2>2. items[a].todo = {}
      BY <1>8 DEF AttemptMigrated, ItemsReady
    <2>3. /\ OtherItems(a) /\ items'[a].todo = {} /\ UNCHANGED age
          /\ places' \in [Places -> Place]
          /\ items'[a].at \in {"attempt", "ended"}
      BY <1>3, <1>8, <2>1, <2>2, MigratedDoes DEF Finishes
    <2> QED
      BY <1>2, <1>3, <2>3, ItemTypes
  <1> QED
    BY <1>4, <1>5, <1>6, <1>7, <1>8 DEF Item

\* What Windows and its user do.
LEMMA WindowsTypes ==
  ASSUME TypesInv,
         \/ \E a \in Arrivals, p \in Places : WindowsAssigns(a, p)
         \/ \E a \in Arrivals : UserChanges(a)
         \/ ConsoleSwitches
  PROVE  TypesInv'
  <1> USE DEF TypesInv
  <1>1. ModeTypes
    BY DEF ModesInv
  <1>2. ASSUME places' \in [Places -> Place], age' \in [Places -> Nat], UNCHANGED <<retained, items>>,
               console' \in BOOLEAN
        PROVE  SettingTypes' /\ ItemsReady'
    BY <1>2 DEF SettingTypes, ItemsReady
  <1>3. CASE \E a \in Arrivals, p \in Places : WindowsAssigns(a, p)
    <2>1. PICK a \in Arrivals, p \in Places : WindowsAssigns(a, p)
      BY <1>3
    <2>2. Display(a) \in Displays
      BY <1>1, <2>1, EdidOfArrival DEF WindowsAssigns
    <2>3. /\ ModesAsBefore /\ arrivals' \in [Arrivals -> Arrival]
          /\ places' \in [Places -> Place] /\ age' \in [Places -> Nat]
          /\ UNCHANGED <<retained, items, console>>
      BY <1>1, <2>1, <2>2, AssignsDoes
    <2>4. ModesInv'
      BY <2>3, ModesAsBeforeKeeps
    <2>5. console' \in BOOLEAN
      BY <2>3 DEF SettingTypes
    <2> QED
      BY <1>2, <2>3, <2>4, <2>5
  <1>4. CASE \E a \in Arrivals : UserChanges(a)
    <2>1. PICK a \in Arrivals : UserChanges(a)
      BY <1>4
    <2>2. /\ ModesAsBefore /\ arrivals' \in [Arrivals -> Arrival]
          /\ places' \in [Places -> Place] /\ age' \in [Places -> Nat]
          /\ UNCHANGED <<retained, items, console>>
      BY <1>1, <2>1, ChangesDoes
    <2>3. ModesInv'
      BY <2>2, ModesAsBeforeKeeps
    <2>4. console' \in BOOLEAN
      BY <2>2 DEF SettingTypes
    <2> QED
      BY <1>2, <2>2, <2>3, <2>4
  <1>5. CASE ConsoleSwitches
    <2>1. /\ ModesAsBefore /\ arrivals' \in [Arrivals -> Arrival]
          /\ console' \in BOOLEAN /\ UNCHANGED <<retained, items, hive>>
      BY <1>1, <1>5, SwitchesDoes
    <2>2. ModesInv'
      BY <2>1, ModesAsBeforeKeeps
    <2>3. places' \in [Places -> Place] /\ age' \in [Places -> Nat]
      BY <2>1 DEF SettingTypes, hive
    <2> QED
      BY <1>2, <2>1, <2>2, <2>3
  <1> QED
    BY <1>3, <1>4, <1>5

\* At the start nobody has asked for a mode, and there is no work item.
LEMMA TypesInit ==
  ASSUME ArrivalInit
  PROVE  TypesInv
  <1>1. /\ entries = [e \in DOMAIN TimingOf |-> NoEntry]
        /\ monitors = [d \in Displays |-> 0]
        /\ arrivals = [a \in Arrivals |-> NoArrival]
        /\ departures = [a \in Arrivals |-> "none"]
        /\ retained = [d \in Displays |-> NoScaling]
        /\ items = [a \in Arrivals |-> NoItem]
        /\ places \in FirstPlaces /\ age = FirstAges /\ console \in BOOLEAN
    BY DEF ArrivalInit
  <1>2. NoArrival \in Arrival /\ NoArrival.at = "idle" /\ ~NoArrival.arriving /\ ~NoArrival.departing
    BY DEF NoArrival, Arrival
  <1>3. NoEntry \in Entry /\ NoEntry.references = 0
    BY DEF NoEntry, Entry, Modes
  <1>4. ModeTypes
    BY <1>1, <1>2, <1>3 DEF ModeTypes
  <1>5. Records
    BY <1>1, <1>2 DEF Records, RecordOf
  <1>6. \A e \in DOMAIN TimingOf : Holders(e) = {}
    BY <1>1, <1>2 DEF Holders
  <1>7. ReferencesExact
    BY <1>1, <1>3, <1>6, FS_EmptySet DEF ReferencesExact
  <1>8. HoldersAgree
    BY <1>6 DEF HoldersAgree
  <1>9. SettingTypes
    <2>1. places \in [Places -> Place] /\ age \in [Places -> Nat]
      BY <1>1, MonitorArrivalAssumption DEF Place
    <2> QED
      BY <1>1, <2>1, NoItemIsItem DEF SettingTypes
  <1>10. ItemsReady
    BY <1>1, NoItemIsItem DEF ItemsReady
  <1> QED
    BY <1>4, <1>5, <1>7, <1>8, <1>9, <1>10 DEF TypesInv, ModesInv

\* Every step keeps them.
LEMMA TypesStep ==
  ASSUME TypesInv, [ArrivalNext]_arrivalVars
  PROVE  TypesInv'
  <1>1. CASE UNCHANGED arrivalVars
    <2>1. UNCHANGED <<items, hive, console, retained>> /\ ModesAsBefore
          /\ arrivals' \in [Arrivals -> Arrival]
      BY <1>1 DEF arrivalVars, modeVars, hive, ModesAsBefore, TypesInv, ModesInv, ModeTypes
    <2> QED
      BY <2>1, ModesAsBeforeKeeps, QuietTypes DEF TypesInv, SettingTypes
  <1>2. ASSUME NEW a \in Arrivals, Item(a)
        PROVE  TypesInv'
    BY <1>2, ItemStepTypes
  <1>3. ASSUME NEW a \in Arrivals, NEW p \in Places, WindowsAssigns(a, p)
        PROVE  TypesInv'
    BY <1>3, WindowsTypes
  <1>4. ASSUME NEW a \in Arrivals, UserChanges(a)
        PROVE  TypesInv'
    BY <1>4, WindowsTypes
  <1>5. CASE ConsoleSwitches
    BY <1>5, WindowsTypes
  <1>6. ASSUME NEW a \in Arrivals, Steps(a) \/ Faults(a)
        PROVE  TypesInv'
    BY <1>6, ArrivalTypes DEF Steps, Faults
  <1>7. ASSUME NEW a \in Arrivals,
               \/ \E d \in Descriptors : ReserveReads(a, d)
               \/ ArrivalChecks(a) \/ ArrivalRegisters(a) \/ ArrivalInserts(a)
               \/ ArrivalUnregisters(a) \/ ArrivalRollsBack(a)
               \/ DepartureCalls(a) \/ DepartureUnregisters(a)
        PROVE  TypesInv'
    BY <1>7, ArrivalTypes
  <1> QED
    BY <1>1, <1>2, <1>3, <1>4, <1>5, <1>6, <1>7 DEF ArrivalNext

\* The operating system is told of the mode of a monitor on record, whichever way it asks.
LEMMA HoldersAnswer ==
  ASSUME ModesInv, NEW d \in Displays, monitors[d] # 0
  PROVE  /\ DescribedMode(Edid(monitors[d])) = RequestedMode(monitors[d])
         /\ RequestedMode(monitors[d]) =
              [mode |-> arrivals[monitors[d]].descriptor.mode,
               restricted |-> arrivals[monitors[d]].descriptor.restricted]
         /\ monitors[Display(monitors[d])] = monitors[d]
  <1>1. PICK a \in Arrivals : a = monitors[d]
    BY DEF ModesInv, ModeTypes
  <1>2. arrivals[a].at \in {"arrive", "schedule", "ended"} /\ Display(a) = d
    BY <1>1, MonitorNotOf
  <1>3. PICK e \in DOMAIN TimingOf : e = Edid(a)
    BY <1>2, EdidOfArrival DEF ModesInv
  <1>4. a \in Holders(e)
    BY <1>1, <1>2, <1>3 DEF Holders
  <1>5. entries[e].references # 0
    <2>1. Holders(e) # {} /\ IsFiniteSet(Holders(e))
      BY <1>4, HoldersFinite
    <2> QED
      BY <2>1, FS_EmptySet DEF ModesInv, ReferencesExact
  <1>6. /\ entries[e].mode = arrivals[a].descriptor.mode
        /\ entries[e].restricted = arrivals[a].descriptor.restricted
    BY <1>4 DEF ModesInv, HoldersAgree
  <1>7. monitors[Display(a)] = a
    BY <1>1, <1>2
  <1>8. DescribedMode(e) = [mode |-> entries[e].mode, restricted |-> entries[e].restricted]
    BY <1>5 DEF DescribedMode
  <1>9. RequestedMode(a) = [mode |-> arrivals[a].descriptor.mode,
                            restricted |-> arrivals[a].descriptor.restricted]
    BY <1>7 DEF RequestedMode
  <1> QED
    BY <1>1, <1>3, <1>6, <1>7, <1>8, <1>9

\* So the two lists agree, and the default ones of a restricted mode too.
LEMMA ModesAgree ==
  ASSUME ModesInv
  PROVE  AnswersAgree
  <1> SUFFICES ASSUME NEW d \in Displays, monitors[d] # 0, NEW a, a = monitors[d]
               PROVE  /\ MonitorModes(Edid(a)) = TargetModes(a)
                      /\ arrivals[a].descriptor.restricted => DefaultDescriptionModes(a) = TargetModes(a)
    BY DEF AnswersAgree
  <1>1. /\ DescribedMode(Edid(a)) = RequestedMode(a)
        /\ RequestedMode(a) = [mode |-> arrivals[a].descriptor.mode,
                               restricted |-> arrivals[a].descriptor.restricted]
        /\ monitors[Display(a)] = a
    BY HoldersAnswer
  <1>2. MonitorModes(Edid(a)) = TargetModes(a)
    BY <1>1 DEF MonitorModes, TargetModes
  <1>3. ASSUME arrivals[a].descriptor.restricted
        PROVE  DefaultDescriptionModes(a) = TargetModes(a)
    <2>1. a \in Arrivals
      BY DEF ModesInv, ModeTypes
    <2>2. arrivals[a].descriptor \in Descriptors
      BY <2>1, MonitorNotOf DEF ModesInv, ModeTypes
    <2>3. arrivals[a].descriptor.restricted = TRUE
      BY <1>3, <2>2, MonitorArrivalAssumption
    <2>4. RequestedMode(a).restricted = TRUE
      BY <1>1, <2>3
    <2> QED
      BY <1>1, <2>4 DEF DefaultDescriptionModes, TargetModes
  <1> QED
    BY <1>2, <1>3

-----------------------------------------------------------------------------
(* The modes, always.                                                      *)

\* Every entry of the store of modes has as many references as there are arrivals and departures
\* that have not let go of it, and all of them asked for the mode it has; a record is of an
\* arrival that came that far (register_monitor_description_mode and its callers).
THEOREM ModesInvariant == ArrivalSpec => []TypesInv
  <1>1. ArrivalInit => TypesInv
    BY TypesInit
  <1>2. TypesInv /\ [ArrivalNext]_arrivalVars => TypesInv'
    BY TypesStep
  <1> QED
    BY <1>1, <1>2, PTL DEF ArrivalSpec

\* So the operating system is told the same modes whichever way it asks, all the time that a
\* monitor is on record, and a mode is forgotten exactly when nobody is left who asked for it.
THEOREM ListsAlwaysUsable ==
  ArrivalSpec => []ListsUsable
  <1>1. TypesInv => ListsUsable
    BY ModesAgree DEF ListsUsable, TypesInv, ModesInv
  <1> QED
    BY <1>1, ModesInvariant, PTL

-----------------------------------------------------------------------------
(* What the driver reads is what the user gave.                            *)

\* The keys that begin with one prefix: kin of kin that a prefix covers are kin, on either side.
LEMMA KinOfCovered ==
  ASSUME NEW d \in Displays, NEW e \in Displays, <<d, e>> \in Covers, NEW k \in Displays
  PROVE  Kin(k, d) <=> Kin(k, e)
  <1>1. ASSUME Kin(k, d) PROVE Kin(k, e)
    <2>1. PICK c \in Displays : {<<c, k>>, <<c, d>>} \subseteq Covers
      BY <1>1 DEF Kin
    <2>2. <<c, e>> \in Covers
      BY <2>1, MonitorArrivalAssumption
    <2> QED
      BY <2>1, <2>2 DEF Kin
  <1>2. ASSUME Kin(k, e) PROVE Kin(k, d)
    <2>1. PICK c \in Displays : {<<c, k>>, <<c, e>>} \subseteq Covers
      BY <1>2 DEF Kin
    <2>2. <<c, d>> \in Covers \/ <<d, c>> \in Covers
      BY <2>1, MonitorArrivalAssumption
    <2>3. CASE <<c, d>> \in Covers
      BY <2>1, <2>3 DEF Kin
    <2>4. CASE <<d, c>> \in Covers
      <3>1. <<d, k>> \in Covers /\ <<d, d>> \in Covers
        BY <2>1, <2>4, MonitorArrivalAssumption
      <3> QED
        BY <3>1 DEF Kin
    <2> QED
      BY <2>2, <2>3, <2>4
  <1> QED
    BY <1>1, <1>2

\* A matching place is of a display that the prefix covers, as the places of the display are.
LEMMA MatchingCovered ==
  ASSUME SettingTypes, NEW d \in Displays
  PROVE  /\ PlacesOf(d) \subseteq Matching(d) /\ Matching(d) \subseteq Places
         /\ \A p \in Matching(d) : places[p].display \in Displays /\ <<d, places[p].display>> \in Covers
  <1>1. <<d, d>> \in Covers /\ d # NoDisplay
    BY MonitorArrivalAssumption
  <1>2. \A p \in Places : places[p].display \in Displays \cup {NoDisplay}
    BY DEF SettingTypes, Place
  <1> QED
    BY <1>1, <1>2 DEF Matching, PlacesOf

\* What was customized last is the scaling of a matching place; with none, no place of the display
\* is customized.
LEMMA NewestMatches ==
  ASSUME SettingTypes, NEW d \in Displays
  PROVE  \/ \E p \in Matching(d) : places[p].scaling # 0 /\ Newest(d) = places[p].scaling
         \/ Newest(d) = NoScaling /\ ~Customized(d)
  <1> DEFINE S == {p \in Matching(d) : places[p].scaling # 0}
  <1>1. Newest(d) = LastWritten(S)
    BY DEF Newest
  <1>2. S \subseteq Places /\ \A p \in S : p \in Matching(d) /\ places[p].scaling # 0
    BY MatchingCovered
  <1>3. S = {} => ~Customized(d)
    BY MatchingCovered DEF Customized
  <1> HIDE DEF S
  <1>4. CASE S = {}
    BY <1>1, <1>3, <1>4 DEF LastWritten
  <1>5. CASE S # {}
    <2>1. PICK p \in S : LastWritten(S) = places[p].scaling
      BY <1>2, <1>5, LastWrittenIsOfOne DEF SettingTypes
    <2> QED
      BY <1>1, <1>2, <2>1
  <1> QED
    BY <1>4, <1>5

\* What is read for a display the user gave it or its kin.
LEMMA ReadIsGiven ==
  ASSUME SettingTypes, ScalingsChosen, NEW d \in Descriptors
  PROVE  Given(d.display, ReadRetained(d))
  <1>1. PICK e \in Displays : e = d.display
    BY MonitorArrivalAssumption
  <1>2. CASE ReadRetained(d) = NoScaling
    BY <1>2 DEF Given
  <1>3. CASE ReadRetained(d) # NoScaling
    <2>1. ReadRetained(d) = Newest(e)
      BY <1>1, <1>3 DEF ReadRetained
    <2>2. PICK p \in Matching(e) : places[p].scaling # 0 /\ Newest(e) = places[p].scaling
      BY <1>3, <2>1, NewestMatches
    <2>3. PICK f \in Displays : f = places[p].display /\ <<e, f>> \in Covers
      BY <2>2, MatchingCovered
    <2>4. p \in Places /\ f # NoDisplay
      BY <2>2, MatchingCovered, MonitorArrivalAssumption
    <2>5. PICK k \in Displays : Kin(k, f) /\ <<k, places[p].scaling>> \in chosen
      BY <2>2, <2>3, <2>4 DEF ScalingsChosen
    <2>6. Kin(k, e)
      BY <2>3, <2>5, KinOfCovered
    <2> QED
      BY <1>1, <2>1, <2>2, <2>5, <2>6 DEF Given
  <1> QED
    BY <1>2, <1>3

-----------------------------------------------------------------------------
(* What stays true while places are added and customized.                  *)

\* What the user chose stays chosen; a display keeps its places, the profiles that they have, and a
\* customized scaling unless the user puts it back.
Grows ==
    /\ chosen \subseteq chosen'
    /\ \A d \in Displays :
        /\ PlacesOf(d) \subseteq PlacesOf(d)' /\ Matching(d) \subseteq Matching(d)'
        /\ \A q \in PlacesOf(d) : places[q].profile # "none" => places'[q].profile # "none"
        /\ Customized(d) => Customized(d)' \/ Reset(d)'

\* Nothing of the registry changes.
LEMMA NothingGrows ==
  ASSUME UNCHANGED <<hive, chosen>>
  PROVE  /\ Grows
         /\ ChoicesRespected' <=> ChoicesRespected
         /\ \A d : /\ PlacesOf(d)' = PlacesOf(d) /\ Matching(d)' = Matching(d)
                  /\ Customized(d)' = Customized(d)
                  /\ Reset(d)' = Reset(d) /\ Chose(d)' = Chose(d)
  <1>1. \A d : /\ PlacesOf(d)' = PlacesOf(d) /\ Matching(d)' = Matching(d)
              /\ Reset(d)' = Reset(d) /\ Chose(d)' = Chose(d)
    BY DEF hive, PlacesOf, Matching, Reset, Chose
  <1>2. \A d : Customized(d)' = Customized(d)
    BY <1>1 DEF hive, Customized
  <1>3. ChoicesRespected' <=> ChoicesRespected
    BY <1>1, <1>2 DEF ChoicesRespected, ChoicesKept, ScalingsChosen, hive
  <1> QED
    BY <1>1, <1>2, <1>3 DEF Grows, hive

\* A display has what the user chose for it, if he chooses nothing else.
LEMMA ChoicesStay ==
  ASSUME ChoicesKept, Grows, UNCHANGED chosen
  PROVE  ChoicesKept'
  BY DEF ChoicesKept, Grows, Chose, Reset

\* A value given stays given.
LEMMA GivenStays ==
  ASSUME Grows, NEW d \in Displays, NEW value, Given(d, value)
  PROVE  Given(d, value)'
  BY DEF Given, Grows

\* The step is not about the arrival b, nor about its work item.
Untroubled(b) ==
    /\ items'[b] = items[b]
    /\ arrivals'[b].at = arrivals[b].at /\ arrivals'[b].descriptor = arrivals[b].descriptor
    /\ arrivals'[b].read = arrivals[b].read /\ arrivals'[b].place = arrivals[b].place
    /\ arrivals'[b].untouched => arrivals[b].untouched /\ console'
    /\ arrivals[b].at # "idle" /\ monitors'[Display(b)] = b => monitors[Display(b)] = b

\* What the settings are for one arrival.
Own(b) == GivenTo(b) /\ PlacedOwn(b) /\ ItemOwn(b) /\ LastAttempt(b)

\* An arrival the step is not about keeps what it has.
LEMMA UntroubledOwn ==
  ASSUME ModeTypes, Grows, NEW b \in Arrivals, Own(b), Untroubled(b),
         OnLast(b) /\ arrivals[b].place # NoPlace /\ arrivals[b].at # "idle" /\ arrivals'[b].untouched
            => /\ Settled(b) => Settled(b)'
               /\ Calibrated(b) => Calibrated(b)'
  PROVE  Own(b)'
  <1>1. Display(b)' = Display(b)
    BY DEF Untroubled, Display
  <1>2. arrivals[b].at # "idle" => Display(b) \in Displays
    BY EdidOfArrival
  <1>3. GivenTo(b)'
    <2>1. CASE arrivals[b].at = "idle"
      BY <2>1 DEF GivenTo, Own, ItemOwn, Untroubled
    <2>2. CASE arrivals[b].at # "idle"
      <3>1. PICK d \in Displays : d = Display(b)
        BY <1>2, <2>2
      <3>2. arrivals[b].at = "reserve" => Given(d, arrivals[b].read)'
        <4>1. PICK value : value = arrivals[b].read
          OBVIOUS
        <4>2. arrivals'[b].read = value
          BY <4>1 DEF Untroubled
        <4>3. arrivals[b].at = "reserve" => Given(d, value)
          BY <3>1, <4>1 DEF Own, GivenTo
        <4>4. arrivals[b].at = "reserve" => Given(d, value)'
          BY <4>3, GivenStays
        <4> QED
          BY <4>2, <4>4 DEF Given
      <3>3. items[b].at # "none" => Given(d, items[b].scaling)'
        <4>1. PICK value : value = items[b].scaling
          OBVIOUS
        <4>2. items'[b].scaling = value
          BY <4>1 DEF Untroubled
        <4>3. items[b].at # "none" => Given(d, value)
          BY <3>1, <4>1 DEF Own, GivenTo
        <4>4. items[b].at # "none" => Given(d, value)'
          BY <4>3, GivenStays
        <4> QED
          BY <4>2, <4>4 DEF Given
      <3>4. items[b].at # "none" => Given(d, items[b].value)'
        <4>1. PICK value : value = items[b].value
          OBVIOUS
        <4>2. items'[b].value = value
          BY <4>1 DEF Untroubled
        <4>3. items[b].at # "none" => Given(d, value)
          BY <3>1, <4>1 DEF Own, GivenTo
        <4>4. items[b].at # "none" => Given(d, value)'
          BY <4>3, GivenStays
        <4> QED
          BY <4>2, <4>4 DEF Given
      <3>5. Display(b)' = d
        BY <1>1, <3>1
      <3> QED
        BY <3>2, <3>3, <3>4, <3>5 DEF GivenTo, Given, Untroubled
    <2> QED
      BY <2>1, <2>2
  <1>4. PlacedOwn(b)'
    BY <1>1, <1>2 DEF Own, PlacedOwn, Untroubled, Grows
  <1>5. ItemOwn(b)'
    <2>1. CASE items[b].at = "none"
      BY <2>1 DEF ItemOwn, Untroubled
    <2>2. CASE items[b].at # "none"
      <3>1. PICK d \in Displays : d = Display(b) /\ Display(b)' = d
        BY <1>1, <1>2, <2>2 DEF Own, ItemOwn
      <3>2. PlacesOf(d) \subseteq PlacesOf(d)' /\ Matching(d) \subseteq Matching(d)'
        BY DEF Grows
      <3>3. (\E q \in PlacesOf(d) : places[q].profile # "none")
              => \E q \in PlacesOf(d)' : places'[q].profile # "none"
        BY <3>2 DEF Grows
      <3>4. /\ arrivals[b].at = "ended" /\ arrivals[b].descriptor.retain
            /\ items[b].todo \subseteq Matching(d)
            /\ items[b].at = "write" => items[b].place \in Matching(d)
            /\ items[b].at = "migrate" =>
                /\ items[b].place \in PlacesOf(d)
                /\ \E q \in PlacesOf(d) : places[q].profile # "none"
            /\ items[b].at = "ended" => items[b].left = 0
        BY <2>2, <3>1 DEF Own, ItemOwn
      <3>5. /\ items'[b] = items[b] /\ arrivals'[b].at = arrivals[b].at
            /\ arrivals'[b].descriptor = arrivals[b].descriptor
        BY DEF Untroubled
      <3> QED
        BY <3>1, <3>2, <3>3, <3>4, <3>5 DEF ItemOwn
    <2> QED
      BY <2>1, <2>2
  <1>6. LastAttempt(b)'
    <2> SUFFICES ASSUME OnLast(b)' PROVE LastAttempt(b)'
      BY DEF LastAttempt
    <2>1. items[b].at # "none" /\ arrivals[b].at # "idle"
      BY DEF OnLast, Untroubled, Own, ItemOwn
    <2>2. OnLast(b)
      BY <1>1, <2>1 DEF OnLast, Untroubled
    <2> QED
      BY <1>1, <2>1, <2>2 DEF Own, LastAttempt, Untroubled
  <1> QED
    BY <1>3, <1>4, <1>5, <1>6 DEF Own

\* When every arrival keeps its own, and every display what is kept for it.
LEMMA AllOwn ==
  ASSUME ChoicesRespected', \A d \in Displays : Given(d, retained[d])', \A a \in Arrivals : Own(a)'
  PROVE  SettingsInv'
  BY DEF SettingsInv, ValuesGiven, Placed, ItemsOwn, LastAttempts, Own

\* And the other way around.
LEMMA OwnOfAll ==
  ASSUME SettingsInv, NEW a \in Arrivals
  PROVE  Own(a)
  BY DEF SettingsInv, ValuesGiven, Placed, ItemsOwn, LastAttempts, Own

\* What is kept stays given.
LEMMA RetainedGiven ==
  ASSUME SettingsInv, Grows, UNCHANGED retained
  PROVE  \A d \in Displays : Given(d, retained[d])'
  <1> SUFFICES ASSUME NEW d \in Displays PROVE Given(d, retained[d])'
    OBVIOUS
  <1>1. PICK value : value = retained[d] /\ value = retained'[d]
    OBVIOUS
  <1>2. Given(d, value)
    BY <1>1 DEF SettingsInv, ValuesGiven
  <1>3. Given(d, value)'
    BY <1>2, GivenStays
  <1> QED
    BY <1>1, <1>3 DEF Given

-----------------------------------------------------------------------------
(* Each step of an arrival keeps the settings.                             *)

\* Where the registry stays, everybody is as settled and calibrated as before.
LEMMA SameSettings ==
  ASSUME UNCHANGED <<hive, chosen>>, NEW b \in Arrivals, Display(b)' = Display(b),
         arrivals'[b].place = arrivals[b].place
  PROVE  /\ Settled(b)' <=> Settled(b)
         /\ Calibrated(b)' <=> Calibrated(b)
  <1>1. Settled(b)' <=> Settled(b)
    BY NothingGrows DEF Settled, hive
  <1>2. Calibrated(b)' <=> Calibrated(b)
    BY NothingGrows DEF Calibrated, hive
  <1> QED
    BY <1>1, <1>2

\* The other arrivals, when one goes on.
LEMMA OtherArrivalsOwn ==
  ASSUME ModeTypes, SettingsInv, NEW a \in Arrivals, UNCHANGED <<hive, console, chosen>>,
         \A b \in Arrivals \ {a} : arrivals'[b] = arrivals[b] /\ items'[b] = items[b],
         \A d \in Displays : monitors'[d] \in {monitors[d], 0, a},
         NEW b \in Arrivals \ {a}
  PROVE  Own(b)'
  <1>1. Own(b) /\ Grows
    BY OwnOfAll, NothingGrows
  <1>2. /\ arrivals'[b] = arrivals[b] /\ items'[b] = items[b] /\ b # 0
    BY NoneIsNoArrival
  <1>3. Display(b)' = Display(b)
    BY <1>2 DEF Display
  <1>4. /\ Settled(b)' <=> Settled(b)
        /\ Calibrated(b)' <=> Calibrated(b)
    BY <1>2, <1>3, SameSettings
  <1>5. arrivals[b].at # "idle" => Display(b) \in Displays
    BY EdidOfArrival
  <1>6. arrivals'[b].untouched => arrivals[b].untouched /\ console'
    BY <1>1, <1>2 DEF Own, PlacedOwn
  <1>7. arrivals[b].at # "idle" /\ monitors'[Display(b)] = b => monitors[Display(b)] = b
    BY <1>2, <1>5
  <1>8. Untroubled(b)
    BY <1>2, <1>6, <1>7 DEF Untroubled
  <1> QED
    BY <1>1, <1>4, <1>8, UntroubledOwn

\* An arrival under way goes on, or ends without a monitor.
LEMMA QuietSettings ==
  ASSUME ModeTypes, SettingsInv, NEW a \in Arrivals, NEW at \in Ats,
         UNCHANGED <<items, hive, console, chosen>>,
         Becomes(a, at), arrivals[a].at \notin {"schedule", "ended"},
         \A d \in Displays : monitors'[d] \in {monitors[d], 0, a},
         \A d \in Displays : Given(d, retained[d])',
         at = "reserve" => Given(Display(a), arrivals[a].read)'
  PROVE  SettingsInv'
  <1>1. \A b \in Arrivals \ {a} : Own(b)'
    BY OtherArrivalsOwn DEF Becomes
  <1>2. Own(a)
    BY OwnOfAll
  <1>3. items[a].at = "none" /\ arrivals[a].place = NoPlace /\ ~arrivals[a].untouched
    BY <1>2 DEF Own, ItemOwn, PlacedOwn
  <1>4. items'[a].at = "none" /\ arrivals'[a].place = NoPlace /\ ~arrivals'[a].untouched
    BY <1>3 DEF Becomes
  <1>5. arrivals'[a].at = at
    BY DEF Becomes
  <1>6. GivenTo(a)'
    BY <1>4, <1>5 DEF GivenTo
  <1>7. PlacedOwn(a)' /\ ItemOwn(a)' /\ LastAttempt(a)'
    BY <1>4 DEF PlacedOwn, ItemOwn, LastAttempt, OnLast
  <1>8. ChoicesRespected'
    BY NothingGrows DEF SettingsInv
  <1> QED
    BY <1>1, <1>6, <1>7, <1>8, AllOwn DEF Own

\* Nothing kept changes.
LEMMA KeptAsBefore ==
  ASSUME SettingsInv, UNCHANGED <<hive, chosen, retained>>
  PROVE  \A d \in Displays : Given(d, retained[d])'
  BY NothingGrows, RetainedGiven

\* What is kept for one display is given to it.
LEMMA KeptForOne ==
  ASSUME SettingsInv, SettingTypes, UNCHANGED <<hive, chosen>>, NEW e \in Displays, NEW value,
         Given(e, value), retained' = [retained EXCEPT ![e] = value]
  PROVE  \A d \in Displays : Given(d, retained[d])'
  <1> SUFFICES ASSUME NEW d \in Displays PROVE Given(d, retained[d])'
    OBVIOUS
  <1>1. PICK given : given = retained'[d]
    OBVIOUS
  <1>2. Given(d, given)
    <2>1. CASE d = e
      BY <1>1, <2>1 DEF SettingTypes
    <2>2. CASE d # e
      BY <1>1, <2>2 DEF SettingTypes, SettingsInv, ValuesGiven
    <2> QED
      BY <2>1, <2>2
  <1>3. Given(d, given)'
    BY <1>2, GivenStays, NothingGrows
  <1> QED
    BY <1>1, <1>3 DEF Given

\* No value is given to every display.
LEMMA NothingIsGiven ==
  ASSUME NEW d
  PROVE  Given(d, NoScaling)
  BY DEF Given

\* A reservation reads what the user gave the display.
LEMMA ReserveReadsSettings ==
  ASSUME TypesInv, SettingsInv, NEW a \in Arrivals, NEW d \in Descriptors, ReserveReads(a, d)
  PROVE  SettingsInv'
  <1>1. /\ arrivals[a].at = "idle" /\ Becomes(a, "reserve")
        /\ arrivals'[a].descriptor = d /\ arrivals'[a].read = ReadRetained(d)
        /\ UNCHANGED <<monitors, retained, items, hive, console, chosen>>
    BY ReserveReadsDoes DEF TypesInv, ModesInv
  <1>2. Display(a)' = d.display
    BY <1>1 DEF Display
  <1>3. d.display \in Displays
    BY MonitorArrivalAssumption
  <1>4. PICK value : value = ReadRetained(d)
    OBVIOUS
  <1>5. Given(d.display, value)
    BY <1>4, ReadIsGiven DEF TypesInv, SettingsInv, ChoicesRespected
  <1>6. Given(d.display, value)'
    BY <1>1, <1>3, <1>5, GivenStays, NothingGrows
  <1>7. Given(Display(a), arrivals[a].read)'
    BY <1>1, <1>2, <1>4, <1>6 DEF Given
  <1>8. \A e \in Displays : Given(e, retained[e])'
    BY <1>1, KeptAsBefore
  <1> QED
    BY <1>1, <1>7, <1>8, QuietSettings DEF TypesInv, ModesInv, Ats

\* A reservation keeps it.
LEMMA ReserveKeepsSettings ==
  ASSUME TypesInv, SettingsInv, NEW a \in Arrivals, NEW stored \in BOOLEAN, ReserveKeeps(a, stored)
  PROVE  SettingsInv'
  <1>1. /\ arrivals[a].at = "reserve" /\ Becomes(a, IF stored THEN "check" ELSE "failed")
        /\ UNCHANGED <<monitors, items, hive, console, chosen>>
    BY ReserveKeepsDoes DEF TypesInv, ModesInv
  <1>2. Display(a) \in Displays
    BY <1>1, EdidOfArrival DEF TypesInv, ModesInv
  <1>3. PICK e \in Displays : e = Display(a)
    BY <1>2
  <1>4. /\ retained' \in [Displays -> Scalings \cup {NoScaling}]
        /\ \A d \in Displays \ {e} : retained'[d] = retained[d]
        /\ retained'[e] \in {arrivals[a].read, NoScaling, retained[e]}
    BY <1>3, ReserveKeepsRetained DEF TypesInv, ModesInv
  <1>5. PICK value : value = retained'[e]
    OBVIOUS
  <1>6. retained' = [retained EXCEPT ![e] = value]
    BY <1>4, <1>5 DEF TypesInv, SettingTypes
  <1>7. Given(e, arrivals[a].read) /\ Given(e, NoScaling) /\ Given(e, retained[e])
    BY <1>1, <1>3, NothingIsGiven, OwnOfAll DEF Own, GivenTo, SettingsInv, ValuesGiven
  <1>8. Given(e, value)
    BY <1>4, <1>5, <1>7
  <1>9. \A d \in Displays : Given(d, retained[d])'
    BY <1>1, <1>6, <1>8, KeptForOne DEF TypesInv
  <1>10. PICK at \in Ats : at = (IF stored THEN "check" ELSE "failed") /\ at # "reserve"
    BY DEF Ats
  <1> QED
    BY <1>1, <1>9, <1>10, QuietSettings DEF TypesInv, ModesInv

\* An arrival goes on.
LEMMA GoesSettings ==
  ASSUME TypesInv, SettingsInv, NEW a \in Arrivals, NEW at \in Ats \ {"reserve"}, Goes(a, at),
         arrivals[a].at \notin {"schedule", "ended"},
         UNCHANGED <<monitors, items, hive, console, chosen>>,
         \/ UNCHANGED retained
         \/ Display(a) \in Displays /\ retained' = [retained EXCEPT ![Display(a)] = NoScaling]
  PROVE  SettingsInv'
  <1>1. Becomes(a, at)
    BY GoesThere DEF TypesInv, ModesInv
  <1>2. CASE UNCHANGED retained
    BY <1>1, <1>2, KeptAsBefore, QuietSettings DEF TypesInv, ModesInv
  <1>3. CASE Display(a) \in Displays /\ retained' = [retained EXCEPT ![Display(a)] = NoScaling]
    <2>1. PICK e \in Displays : e = Display(a)
      BY <1>3
    <2>2. \A d \in Displays : Given(d, retained[d])'
      BY <1>3, <2>1, KeptForOne, NothingIsGiven DEF TypesInv
    <2> QED
      BY <1>1, <2>2, QuietSettings DEF TypesInv, ModesInv
  <1> QED
    BY <1>2, <1>3

\* The steps of an arrival that change no record.
LEMMA ArrivalGoesSettings ==
  ASSUME TypesInv, SettingsInv, NEW a \in Arrivals,
         \/ ArrivalChecks(a)
         \/ ArrivalRegisters(a)
         \/ ArrivalCreateFails(a)
         \/ ArrivalUnregisters(a)
         \/ ArrivalRollsBack(a)
  PROVE  SettingsInv'
  <1>1. /\ arrivals[a].at \in {"check", "register", "create", "unregister", "failed"}
        /\ UNCHANGED <<monitors, items, hive, console, chosen>>
    BY DEF ArrivalChecks, ArrivalRegisters, ArrivalCreateFails, ArrivalUnregisters, ArrivalRollsBack, ModeStep
  <1>2. PICK at \in Ats \ {"reserve"} : Goes(a, at)
    BY DEF ArrivalChecks, ArrivalRegisters, ArrivalCreateFails, ArrivalUnregisters, ArrivalRollsBack, Ats
  <1>3. Display(a) \in Displays
    BY <1>1, EdidOfArrival DEF TypesInv, ModesInv
  <1>4. UNCHANGED retained \/ retained' = [retained EXCEPT ![Display(a)] = NoScaling]
    BY DEF ArrivalChecks, ArrivalRegisters, ArrivalCreateFails, ArrivalUnregisters, ArrivalRollsBack
  <1> QED
    BY <1>1, <1>2, <1>3, <1>4, GoesSettings

\* The record of a monitor is inserted.
LEMMA InsertsSettings ==
  ASSUME TypesInv, SettingsInv, NEW a \in Arrivals, ArrivalInserts(a)
  PROVE  SettingsInv'
  <1>1. /\ arrivals[a].at = "create"
        /\ UNCHANGED <<retained, items, hive, console, chosen>>
        /\ \/ /\ Becomes(a, "arrive") /\ monitors' = [monitors EXCEPT ![Display(a)] = a]
           \/ /\ Becomes(a, "unregister") /\ UNCHANGED monitors
    BY InsertsDoes DEF TypesInv, ModesInv
  <1>2. \A d \in Displays : monitors'[d] \in {monitors[d], 0, a}
    BY <1>1 DEF TypesInv, ModesInv, ModeTypes
  <1>3. PICK at \in Ats \ {"reserve"} : Becomes(a, at)
    BY <1>1 DEF Ats
  <1> QED
    BY <1>1, <1>2, <1>3, KeptAsBefore, QuietSettings DEF TypesInv, ModesInv

\* The monitor has arrived, or its record is removed.
LEMMA ReturnsSettings ==
  ASSUME TypesInv, SettingsInv, NEW a \in Arrivals, NEW arrived \in BOOLEAN, ArrivalReturns(a, arrived)
  PROVE  SettingsInv'
  <1>1. /\ arrivals[a].at = "arrive"
        /\ Becomes(a, IF arrived THEN "schedule" ELSE "unregister")
        /\ UNCHANGED <<retained, items, hive, console, chosen>>
        /\ monitors' = IF arrived THEN monitors ELSE [monitors EXCEPT ![Display(a)] = 0]
    BY ReturnsDoes DEF TypesInv, ModesInv
  <1>2. \A d \in Displays : monitors'[d] \in {monitors[d], 0, a}
    BY <1>1 DEF TypesInv, ModesInv, ModeTypes
  <1>3. PICK at \in Ats \ {"reserve"} : Becomes(a, at)
    BY <1>1 DEF Ats
  <1> QED
    BY <1>1, <1>2, <1>3, KeptAsBefore, QuietSettings DEF TypesInv, ModesInv

\* A work item is made with what is kept for its display.
LEMMA SchedulesSettings ==
  ASSUME TypesInv, SettingsInv, NEW a \in Arrivals, NEW made \in BOOLEAN, ArrivalSchedules(a, made)
  PROVE  SettingsInv'
  <1>1. Display(a) \in Displays
    BY EdidOfArrival DEF ArrivalSchedules, TypesInv, ModesInv
  <1>2. /\ arrivals[a].at = "schedule" /\ Goes(a, "ended")
        /\ UNCHANGED <<monitors, retained, hive, console, chosen>>
        /\ OtherItems(a)
        /\ \/ items'[a] = items[a]
           \/ /\ arrivals[a].descriptor.retain
              /\ items'[a].at = "attempt" /\ items'[a].todo = {} /\ items'[a].value = NoScaling
              /\ items'[a].scaling = retained[Display(a)]
    BY <1>1, SchedulesDoes DEF TypesInv, ModesInv
  <1>3. Becomes(a, "ended") /\ SameRequest(a)
    BY <1>2, GoesThere DEF TypesInv, ModesInv, Ats
  <1>4. Display(a)' = Display(a)
    BY <1>3 DEF SameRequest, Display
  <1>5. \A b \in Arrivals \ {a} : Own(b)'
    BY <1>2, <1>3, OtherArrivalsOwn DEF Becomes, OtherItems, TypesInv, ModesInv
  <1>6. Own(a) /\ Grows
    BY <1>2, OwnOfAll, NothingGrows
  <1>7. items[a].at = "none"
    BY <1>2, <1>6 DEF Own, ItemOwn
  <1>8. PlacedOwn(a)'
    BY <1>2, <1>3, <1>4, <1>6, NothingGrows DEF Own, PlacedOwn, Becomes
  <1>9. ItemOwn(a)' /\ LastAttempt(a)'
    BY <1>2, <1>3, <1>7 DEF ItemOwn, LastAttempt, OnLast, Becomes, SameRequest
  <1>10. PICK d \in Displays : d = Display(a) /\ Display(a)' = d
    BY <1>1, <1>4
  <1>11. \A e \in Displays : Given(e, retained[e])'
    BY <1>2, KeptAsBefore
  <1>12. Given(d, NoScaling)' /\ Given(d, retained[d])'
    BY <1>11 DEF Given
  <1>13. GivenTo(a)'
    <2>1. CASE items'[a] = items[a]
      BY <1>3, <1>7, <2>1 DEF GivenTo, Becomes
    <2>2. CASE items'[a].value = NoScaling /\ items'[a].scaling = retained[Display(a)]
      BY <1>2, <1>3, <1>10, <1>12, <2>2 DEF GivenTo, Becomes, Given
    <2> QED
      BY <1>2, <2>1, <2>2
  <1>14. ChoicesRespected'
    BY <1>2, NothingGrows DEF SettingsInv
  <1> QED
    BY <1>5, <1>8, <1>9, <1>11, <1>13, <1>14, AllOwn DEF Own

\* A departure takes the record of its monitor at most, and forgets what is kept at most.
LEMMA DepartureSettings ==
  ASSUME TypesInv, SettingsInv, NEW a \in Arrivals,
         \/ DepartureCalls(a)
         \/ \E departed \in BOOLEAN : DepartureReturns(a, departed)
         \/ DepartureUnregisters(a)
         \/ \E awaited \in BOOLEAN : DepartureAnswers(a, awaited)
  PROVE  SettingsInv'
  <1>1. UNCHANGED <<items, hive, console, chosen>>
    BY DEF DepartureCalls, DepartureReturns, DepartureUnregisters, DepartureAnswers, ModeStep
  <1>2. Marked(a, TRUE) \/ Marked(a, FALSE) \/ UNCHANGED arrivals
    BY DepartingDoes DEF TypesInv, ModesInv, DepartureCalls, DepartureReturns, DepartureUnregisters,
       DepartureAnswers
  <1>3. /\ \A b \in Arrivals \ {a} : arrivals'[b] = arrivals[b]
        /\ arrivals'[a].at = arrivals[a].at /\ arrivals'[a].descriptor = arrivals[a].descriptor
        /\ arrivals'[a].read = arrivals[a].read /\ arrivals'[a].place = arrivals[a].place
        /\ arrivals'[a].untouched = arrivals[a].untouched
    BY <1>2 DEF Marked, Becomes, SameRequest
  <1>4. monitors' = monitors \/ monitors' = [monitors EXCEPT ![Display(a)] = 0]
    BY DEF DepartureCalls, DepartureReturns, DepartureUnregisters, DepartureAnswers
  <1>5. \A d \in Displays : monitors'[d] \in {monitors[d], 0}
    BY <1>4 DEF TypesInv, ModesInv, ModeTypes
  <1>6. \A b \in Arrivals \ {a} : Own(b)'
    BY <1>1, <1>3, <1>5, OtherArrivalsOwn DEF TypesInv, ModesInv
  <1>7. Own(a) /\ Grows
    BY <1>1, OwnOfAll, NothingGrows
  <1>8. Display(a)' = Display(a)
    BY <1>3 DEF Display
  <1>9. Own(a)'
    <2>1. /\ Settled(a)' <=> Settled(a)
          /\ Calibrated(a)' <=> Calibrated(a)
      BY <1>1, <1>3, <1>8, SameSettings
    <2>2. arrivals[a].at # "idle" /\ monitors'[Display(a)] = a => monitors[Display(a)] = a
      BY <1>5, EdidOfArrival, NoneIsNoArrival DEF TypesInv, ModesInv
    <2>3. arrivals'[a].untouched => arrivals[a].untouched /\ console'
      BY <1>1, <1>3, <1>7 DEF Own, PlacedOwn
    <2>4. Untroubled(a)
      BY <1>1, <1>3, <2>2, <2>3 DEF Untroubled
    <2> QED
      BY <1>7, <2>1, <2>4, UntroubledOwn DEF TypesInv, ModesInv
  <1>10. \A d \in Displays : Given(d, retained[d])'
    <2>1. \/ UNCHANGED retained
          \/ /\ arrivals[a].at # "idle"
             /\ retained' = [retained EXCEPT ![Display(a)] = NoScaling]
      <3>1. departures[a] = "answer" => arrivals[a].at # "idle"
        BY DEF TypesInv, ModesInv, Records, RecordOf
      <3>2. CASE \E awaited \in BOOLEAN : DepartureAnswers(a, awaited)
        BY <3>1, <3>2 DEF DepartureAnswers
      <3>3. CASE ~\E awaited \in BOOLEAN : DepartureAnswers(a, awaited)
        BY <3>3 DEF DepartureCalls, DepartureReturns, DepartureUnregisters
      <3> QED
        BY <3>2, <3>3
    <2>2. CASE UNCHANGED retained
      BY <1>1, <2>2, KeptAsBefore
    <2>3. CASE arrivals[a].at # "idle" /\ retained' = [retained EXCEPT ![Display(a)] = NoScaling]
      <3>1. PICK e \in Displays : e = Display(a)
        BY <2>3, EdidOfArrival DEF TypesInv, ModesInv
      <3> QED
        BY <1>1, <2>3, <3>1, KeptForOne, NothingIsGiven DEF TypesInv
    <2> QED
      BY <2>1, <2>2, <2>3
  <1>11. ChoicesRespected'
    BY <1>1, NothingGrows DEF SettingsInv
  <1> QED
    BY <1>6, <1>9, <1>10, <1>11, AllOwn

-----------------------------------------------------------------------------
(* Each step of a work item keeps the settings.                            *)

\* A step of a work item that leaves nobody less settled than he was.
LEMMA ItemSettings ==
  ASSUME TypesInv, SettingsInv, NEW a \in Arrivals, ItemStep, OtherItems(a), Grows, ChoicesRespected',
         \A b \in Arrivals \ {a} : OnLast(b) /\ arrivals[b].place # NoPlace /\ arrivals[b].at # "idle"
            => /\ Settled(b) => Settled(b)'
               /\ Calibrated(b) => Calibrated(b)',
         items[a].at # "none",
         Given(Display(a), items'[a].scaling), Given(Display(a), items'[a].value),
         ItemOwn(a)', LastAttempt(a)'
  PROVE  SettingsInv'
  <1>1. UNCHANGED <<monitors, arrivals, retained, console, chosen>>
    BY DEF ItemStep, modeVars
  <1>2. ASSUME NEW b \in Arrivals \ {a}
        PROVE  Own(b)'
    <2>1. Own(b)
      BY OwnOfAll
    <2>2. arrivals'[b].untouched => arrivals[b].untouched /\ console'
      BY <1>1, <2>1 DEF Own, PlacedOwn
    <2>3. Untroubled(b)
      BY <1>1, <2>2 DEF Untroubled, OtherItems
    <2> QED
      BY <1>1, <2>1, <2>3, UntroubledOwn DEF TypesInv, ModesInv
  <1>3. Own(a)
    BY OwnOfAll
  <1>4. arrivals[a].at = "ended"
    BY <1>3 DEF Own, ItemOwn
  <1>5. PICK d \in Displays : d = Display(a) /\ d = Display(a)'
    BY <1>1, <1>4, EdidOfArrival DEF TypesInv, ModesInv, Display
  <1>6. GivenTo(a)'
    <2>1. PICK x, y : x = items'[a].scaling /\ y = items'[a].value
      OBVIOUS
    <2>2. Given(d, x) /\ Given(d, y)
      BY <1>5, <2>1
    <2>3. Given(d, x)' /\ Given(d, y)'
      BY <2>2, GivenStays
    <2> QED
      BY <1>1, <1>4, <1>5, <2>1, <2>3 DEF GivenTo, Given
  <1>7. PlacedOwn(a)'
    BY <1>1, <1>3, <1>5 DEF Own, PlacedOwn, Grows
  <1>8. \A e \in Displays : Given(e, retained[e])'
    BY <1>1, RetainedGiven
  <1> QED
    BY <1>2, <1>6, <1>7, <1>8, AllOwn DEF Own

\* A step of a work item that only looks.
LEMMA ItemQuietSettings ==
  ASSUME TypesInv, SettingsInv, NEW a \in Arrivals, ItemStep, OtherItems(a), UNCHANGED hive,
         items[a].at # "none",
         Given(Display(a), items'[a].scaling), Given(Display(a), items'[a].value),
         ItemOwn(a)', LastAttempt(a)'
  PROVE  SettingsInv'
  <1>1. UNCHANGED <<arrivals, chosen>>
    BY DEF ItemStep, modeVars
  <1>2. Grows /\ ChoicesRespected'
    BY <1>1, NothingGrows DEF SettingsInv
  <1>3. \A b \in Arrivals : Display(b)' = Display(b)
    BY <1>1 DEF Display
  <1>4. ASSUME NEW b \in Arrivals
        PROVE  /\ Settled(b) => Settled(b)'
               /\ Calibrated(b) => Calibrated(b)'
    BY <1>1, <1>3, SameSettings
  <1> QED
    BY <1>2, <1>4, ItemSettings

\* An attempt begins: what it is to write is given, and if there is nothing, nothing is customized.
LEMMA BeginsSettings ==
  ASSUME TypesInv, SettingsInv, NEW a \in Arrivals, AttemptBegins(a)
  PROVE  SettingsInv'
  <1>1. /\ items[a].at = "attempt" /\ items[a].left > 0 /\ PlacedInTime(a)
        /\ OtherItems(a) /\ UNCHANGED hive /\ ItemStep
        /\ items'[a].at = "apply" /\ items'[a].scaling = items[a].scaling
        /\ items'[a].left = items[a].left - 1
        /\ items'[a].value = IF items[a].scaling # NoScaling THEN items[a].scaling
                             ELSE ReadRetained(arrivals[a].descriptor)
        /\ items'[a].todo = IF items'[a].value # NoScaling /\ console THEN Matching(Display(a)) ELSE {}
    BY BeginsDoes DEF TypesInv, ModesInv
  <1>2. Own(a) /\ UNCHANGED <<monitors, arrivals, console, chosen, places>>
    BY <1>1, OwnOfAll DEF ItemStep, modeVars, hive
  <1>3. arrivals[a].at = "ended" /\ arrivals[a].descriptor.retain
    BY <1>1, <1>2 DEF Own, ItemOwn
  <1>4. PICK r \in Descriptors : r = arrivals[a].descriptor
    BY <1>3 DEF TypesInv, ModesInv, ModeTypes
  <1>5. PICK d \in Displays : d = r.display
    BY MonitorArrivalAssumption
  <1>6. Display(a) = d /\ Display(a)' = d
    BY <1>2, <1>4, <1>5 DEF Display
  <1>7. /\ PlacesOf(d)' = PlacesOf(d) /\ Matching(d)' = Matching(d) /\ PlacesOf(d) \subseteq Matching(d)
        /\ Chose(d)' = Chose(d) /\ Reset(d)' = Reset(d)
    BY <1>1, <1>2, MatchingCovered, NothingGrows DEF TypesInv
  <1>8. Given(d, items[a].scaling) /\ Given(d, ReadRetained(r))
    BY <1>1, <1>2, <1>5, <1>6, ReadIsGiven DEF Own, GivenTo, TypesInv, SettingsInv, ChoicesRespected
  <1>9. Given(d, items'[a].scaling) /\ Given(d, items'[a].value)
    <2>1. CASE items[a].scaling # NoScaling
      BY <1>1, <1>8, <2>1
    <2>2. CASE items[a].scaling = NoScaling
      BY <1>1, <1>4, <1>8, <2>2
    <2> QED
      BY <2>1, <2>2
  <1>10. items'[a].todo \subseteq Matching(d)
    BY <1>1, <1>6, <1>7
  <1>11. ItemOwn(a)'
    BY <1>1, <1>2, <1>3, <1>6, <1>7, <1>10 DEF ItemOwn
  <1>12. LastAttempt(a)'
    <2> SUFFICES ASSUME OnLast(a)' PROVE LastAttempt(a)'
      BY DEF LastAttempt
    <2>1. items[a].left = 1 /\ monitors[Display(a)] = a
      <3>1. items[a].left \in Nat
        BY DEF TypesInv, SettingTypes, WorkItem
      <3> QED
        BY <1>1, <1>2, <1>6, <3>1 DEF OnLast
    <2>2. arrivals[a].place # NoPlace
      BY <1>1, <2>1 DEF PlacedInTime
    <2>3. arrivals[a].place \in PlacesOf(d)
      BY <1>2, <1>6, <2>2 DEF Own, PlacedOwn
    <2>4. ASSUME arrivals[a].untouched
          PROVE  Settled(a)' \/ arrivals[a].place \in items'[a].todo
      <3>1. console
        BY <1>2, <2>4 DEF Own, PlacedOwn
      <3>2. CASE items'[a].value # NoScaling
        BY <1>1, <1>6, <1>7, <2>3, <3>1, <3>2
      <3>3. CASE items'[a].value = NoScaling
        <4>1. ReadRetained(r) = NoScaling
          BY <1>1, <1>4, <3>3
        <4>2. Newest(d) = NoScaling
          BY <1>3, <1>4, <1>5, <3>1, <4>1 DEF ReadRetained, UserAtConsole
        <4>3. ~Customized(d)
          <5>1. Matching(d) \subseteq Places /\ NoScaling \notin Scalings
            BY MatchingCovered, MonitorArrivalAssumption DEF TypesInv
          <5>2. \A p \in Matching(d) : places[p].scaling # NoScaling
            BY <5>1 DEF TypesInv, SettingTypes, Place
          <5> QED
            BY <4>2, <5>2, NewestMatches DEF TypesInv
        <4>4. ~Chose(d) \/ Reset(d)
          BY <4>3 DEF SettingsInv, ChoicesRespected, ChoicesKept
        <4> QED
          BY <1>6, <1>7, <4>4 DEF Settled
      <3> QED
        BY <3>2, <3>3
    <2> QED
      BY <1>1, <1>2, <2>2, <2>4 DEF LastAttempt
  <1> QED
    BY <1>1, <1>6, <1>9, <1>11, <1>12, ItemQuietSettings

\* A place looked at has what the user gave it, or is written to next.
LEMMA LooksSettings ==
  ASSUME TypesInv, SettingsInv, NEW a \in Arrivals, NEW p \in Places, AttemptLooks(a, p)
  PROVE  SettingsInv'
  <1>1. /\ items[a].at = "apply" /\ p \in items[a].todo
        /\ OtherItems(a) /\ UNCHANGED hive /\ ItemStep
        /\ SameItem(a) /\ items'[a].todo = items[a].todo \ {p}
        /\ \/ /\ items'[a].at = "write" /\ items'[a].place = p
              /\ places[p].scaling \in {0, items[a].value}
           \/ /\ items'[a].at = "apply"
              /\ places[p].scaling \notin {0, items[a].value}
    BY LooksDoes DEF TypesInv, ModesInv
  <1>2. Own(a) /\ UNCHANGED <<monitors, arrivals, console, chosen, places>>
    BY <1>1, OwnOfAll DEF ItemStep, modeVars, hive
  <1>3. Display(a)' = Display(a)
    BY <1>2 DEF Display
  <1>4. /\ PlacesOf(Display(a))' = PlacesOf(Display(a))
        /\ Matching(Display(a))' = Matching(Display(a))
    BY <1>2, <1>3 DEF PlacesOf, Matching
  <1>5. Settled(a)' <=> Settled(a)
    BY <1>1, <1>2, <1>3, SameSettings
  <1>6. Given(Display(a), items'[a].scaling) /\ Given(Display(a), items'[a].value)
    BY <1>1, <1>2 DEF Own, GivenTo, SameItem
  <1>7. ItemOwn(a)'
    BY <1>1, <1>2, <1>3, <1>4 DEF Own, ItemOwn, SameItem
  <1>8. LastAttempt(a)'
    <2> SUFFICES ASSUME OnLast(a)' PROVE LastAttempt(a)'
      BY DEF LastAttempt
    <2>1. OnLast(a)
      BY <1>1, <1>2, <1>3 DEF OnLast, SameItem
    <2>2. arrivals[a].place # NoPlace
      BY <1>2, <2>1 DEF Own, LastAttempt
    <2>3. ASSUME arrivals[a].untouched
          PROVE  \/ Settled(a)'
                 \/ arrivals[a].place \in items'[a].todo
                 \/ items'[a].at = "write" /\ items'[a].place = arrivals[a].place
      <3>1. Settled(a) \/ arrivals[a].place \in items[a].todo
        BY <1>1, <1>2, <2>1, <2>3 DEF Own, LastAttempt
      <3>2. CASE Settled(a)
        BY <1>5, <3>2
      <3>3. CASE arrivals[a].place \in items[a].todo /\ arrivals[a].place # p
        BY <1>1, <3>3
      <3>4. CASE arrivals[a].place = p
        BY <1>1, <1>5, <3>4 DEF Settled
      <3> QED
        BY <3>1, <3>2, <3>3, <3>4
    <2> QED
      BY <1>1, <1>2, <2>2, <2>3 DEF LastAttempt
  <1> QED
    BY <1>1, <1>6, <1>7, <1>8, ItemQuietSettings

\* A place written to has a value that the user gave its display or its kin.
LEMMA WritesSettings ==
  ASSUME TypesInv, SettingsInv, NEW a \in Arrivals, AttemptWrites(a)
  PROVE  SettingsInv'
  <1>1. Own(a) /\ items[a].at = "write"
    BY OwnOfAll DEF AttemptWrites
  <1>2. arrivals[a].at = "ended" /\ items[a].place \in Matching(Display(a))
    BY <1>1 DEF Own, ItemOwn
  <1>3. PICK d \in Displays : d = Display(a)
    BY <1>2, EdidOfArrival DEF TypesInv, ModesInv
  <1>4. PICK p \in Places : p = items[a].place
    BY <1>2, <1>3, MatchingCovered DEF TypesInv
  <1>5. /\ OtherItems(a) /\ ItemStep
        /\ SameItem(a) /\ items'[a].at = "apply" /\ items'[a].todo = items[a].todo
        /\ items[a].value # NoScaling
        /\ places'[p].scaling = items[a].value /\ places'[p].display = places[p].display
        /\ places'[p].profile = places[p].profile
        /\ \A q \in Places \ {p} : places'[q] = places[q]
    BY <1>4, WritesDoes DEF TypesInv, ModesInv
  <1>6. UNCHANGED <<monitors, arrivals, console, chosen>>
    BY <1>5 DEF ItemStep, modeVars
  <1>7. /\ items[a].value # 0
        /\ \E k \in Displays : Kin(k, d) /\ <<k, items[a].value>> \in chosen
    BY <1>1, <1>3, <1>5 DEF Own, GivenTo, Given
  <1>8. PICK f \in Displays : places[p].display = f /\ <<d, f>> \in Covers
    BY <1>2, <1>3, <1>4, MatchingCovered DEF TypesInv
  <1>9. \A e : PlacesOf(e)' = PlacesOf(e) /\ Matching(e)' = Matching(e)
    BY <1>5 DEF PlacesOf, Matching
  <1>10. \A e \in Displays : Customized(e) => Customized(e)'
    BY <1>5, <1>7, <1>9 DEF Customized, PlacesOf
  <1>11. Grows
    BY <1>5, <1>6, <1>9, <1>10 DEF Grows, PlacesOf
  <1>12. ChoicesRespected'
    <2>1. \E k \in Displays : Kin(k, f) /\ <<k, items[a].value>> \in chosen
      BY <1>3, <1>7, <1>8, KinOfCovered
    <2>2. ScalingsChosen'
      BY <1>5, <1>6, <1>8, <2>1 DEF SettingsInv, ChoicesRespected, ScalingsChosen
    <2> QED
      BY <1>6, <1>11, <2>2, ChoicesStay DEF SettingsInv, ChoicesRespected
  <1>13. \A b \in Arrivals : Display(b)' = Display(b)
    BY <1>6 DEF Display
  <1>14. ASSUME NEW b \in Arrivals, arrivals[b].place # NoPlace
         PROVE  /\ Settled(b) => Settled(b)'
                /\ Calibrated(b) => Calibrated(b)'
    <2>1. arrivals[b].place \in PlacesOf(Display(b)) /\ arrivals[b].place \in Places
      BY <1>14, OwnOfAll DEF Own, PlacedOwn, PlacesOf
    <2>2. Calibrated(b) => Calibrated(b)'
      BY <1>5, <1>6, <1>9, <1>13, <2>1 DEF Calibrated, PlacesOf
    <2>3. CASE arrivals[b].place = p
      BY <1>5, <1>6, <1>7, <2>2, <2>3 DEF Settled
    <2>4. CASE arrivals[b].place # p
      <3>1. places'[arrivals'[b].place] = places[arrivals[b].place]
        BY <1>5, <1>6, <2>1, <2>4
      <3>2. Reset(Display(b))' = Reset(Display(b)) /\ Chose(Display(b))' = Chose(Display(b))
        BY <1>6, <1>13 DEF Reset, Chose
      <3> QED
        BY <2>2, <3>1, <3>2 DEF Settled
    <2> QED
      BY <2>3, <2>4
  <1>15. Given(Display(a), items'[a].scaling) /\ Given(Display(a), items'[a].value)
    BY <1>1, <1>5 DEF Own, GivenTo, SameItem
  <1>16. ItemOwn(a)'
    BY <1>1, <1>5, <1>6, <1>9, <1>13 DEF Own, ItemOwn
  <1>17. LastAttempt(a)'
    <2> SUFFICES ASSUME OnLast(a)' PROVE LastAttempt(a)'
      BY DEF LastAttempt
    <2>1. OnLast(a)
      BY <1>1, <1>5, <1>6, <1>13 DEF OnLast, SameItem
    <2>2. arrivals[a].place # NoPlace
      BY <1>1, <2>1 DEF Own, LastAttempt
    <2>3. ASSUME arrivals[a].untouched
          PROVE  Settled(a)' \/ arrivals[a].place \in items'[a].todo
      <3>1. \/ Settled(a)
            \/ arrivals[a].place \in items[a].todo
            \/ arrivals[a].place = p
        BY <1>1, <1>4, <2>1, <2>3 DEF Own, LastAttempt
      <3>2. CASE Settled(a)
        BY <1>14, <2>2, <3>2
      <3>3. CASE arrivals[a].place \in items[a].todo
        BY <1>5, <3>3
      <3>4. CASE arrivals[a].place = p
        BY <1>5, <1>6, <1>7, <3>4 DEF Settled
      <3> QED
        BY <3>1, <3>2, <3>3, <3>4
    <2> QED
      BY <1>5, <1>6, <2>2, <2>3 DEF LastAttempt
  <1> QED
    BY <1>1, <1>5, <1>11, <1>12, <1>14, <1>15, <1>16, <1>17, ItemSettings

\* An attempt ends with the monitor calibrated, if a place of its display is, or gives its place a
\* profile first.
LEMMA MigratesSettings ==
  ASSUME TypesInv, SettingsInv, NEW a \in Arrivals, AttemptMigrates(a)
  PROVE  SettingsInv'
  <1> DEFINE calibrated == {q \in PlacesOf(Display(a)) : places[q].profile # "none"}
  <1>1. /\ items[a].at = "apply" /\ items[a].todo = {}
        /\ OtherItems(a) /\ UNCHANGED hive /\ ItemStep /\ items'[a].todo = {}
        /\ \/ /\ Finishes(a)
              /\ ~console \/ calibrated = {} \/ CurrentPlaces(a) = {} \/ CurrentPlaces(a) \cap calibrated # {}
           \/ /\ SameItem(a) /\ items'[a].at = "migrate" /\ calibrated # {}
              /\ items'[a].place \in CurrentPlaces(a)
    BY MigratesDoes, CurrentPlacesArePlaces DEF TypesInv, ModesInv
  <1>2. Own(a) /\ UNCHANGED <<monitors, arrivals, console, chosen, places>>
    BY <1>1, OwnOfAll DEF ItemStep, modeVars, hive
  <1>3. Display(a)' = Display(a)
    BY <1>2 DEF Display
  <1>4. PlacesOf(Display(a))' = PlacesOf(Display(a))
    BY <1>2, <1>3 DEF PlacesOf
  <1>5. /\ Settled(a)' <=> Settled(a)
        /\ Calibrated(a)' <=> Calibrated(a)
    BY <1>1, <1>2, <1>3, SameSettings
  <1>6. CurrentPlaces(a) \subseteq PlacesOf(Display(a))
    BY <1>2 DEF CurrentPlaces, Own, PlacedOwn
  <1>7. ASSUME OnLast(a)
        PROVE  /\ arrivals[a].place # NoPlace
               /\ CurrentPlaces(a) = {arrivals[a].place}
               /\ arrivals[a].untouched => Settled(a) /\ console
    <2>1. arrivals[a].place # NoPlace
      BY <1>2, <1>7 DEF Own, LastAttempt
    <2> QED
      BY <1>1, <1>2, <1>7, <2>1 DEF Own, LastAttempt, PlacedOwn, CurrentPlaces
  <1> HIDE DEF calibrated
  <1>8. CASE /\ Finishes(a)
             /\ ~console \/ calibrated = {} \/ CurrentPlaces(a) = {} \/ CurrentPlaces(a) \cap calibrated # {}
    <2>1. Given(Display(a), items'[a].scaling) /\ Given(Display(a), items'[a].value)
      BY <1>1, <1>2, <1>8, NothingIsGiven DEF Own, GivenTo, Finishes
    <2>2. ItemOwn(a)'
      BY <1>1, <1>2, <1>3, <1>8 DEF Own, ItemOwn, Finishes
    <2>3. LastAttempt(a)'
      <3> SUFFICES ASSUME OnLast(a)' PROVE LastAttempt(a)'
        BY DEF LastAttempt
      <3>1. items[a].left = 0 /\ items'[a].at = "ended"
        BY <1>8 DEF Finishes, OnLast
      <3>2. OnLast(a)
        BY <1>1, <1>2, <1>3, <3>1 DEF OnLast
      <3>3. arrivals[a].untouched => Calibrated(a)
        BY <1>7, <1>8, <3>2 DEF calibrated, Calibrated
      <3> QED
        BY <1>2, <1>5, <1>7, <3>1, <3>2, <3>3 DEF LastAttempt
    <2> QED
      BY <1>1, <2>1, <2>2, <2>3, ItemQuietSettings
  <1>9. CASE /\ SameItem(a) /\ items'[a].at = "migrate" /\ calibrated # {}
             /\ items'[a].place \in CurrentPlaces(a)
    <2>1. Given(Display(a), items'[a].scaling) /\ Given(Display(a), items'[a].value)
      BY <1>1, <1>2, <1>9 DEF Own, GivenTo, SameItem
    <2>2. \E q \in PlacesOf(Display(a)) : places[q].profile # "none"
      BY <1>9 DEF calibrated
    <2>3. ItemOwn(a)'
      BY <1>1, <1>2, <1>3, <1>4, <1>6, <1>9, <2>2 DEF Own, ItemOwn
    <2>4. LastAttempt(a)'
      <3> SUFFICES ASSUME OnLast(a)' PROVE LastAttempt(a)'
        BY DEF LastAttempt
      <3>1. OnLast(a)
        BY <1>1, <1>2, <1>3, <1>9 DEF OnLast, SameItem
      <3> QED
        BY <1>2, <1>5, <1>7, <1>9, <3>1 DEF LastAttempt
    <2> QED
      BY <1>1, <2>1, <2>3, <2>4, ItemQuietSettings
  <1> QED
    BY <1>1, <1>8, <1>9 DEF calibrated

\* A place gets the profile that another place of its display has.
LEMMA MigratedSettings ==
  ASSUME TypesInv, SettingsInv, NEW a \in Arrivals, AttemptMigrated(a)
  PROVE  SettingsInv'
  <1>1. Own(a) /\ items[a].at = "migrate"
    BY OwnOfAll DEF AttemptMigrated
  <1>2. /\ arrivals[a].at = "ended" /\ items[a].place \in PlacesOf(Display(a))
        /\ \E q \in PlacesOf(Display(a)) : places[q].profile # "none"
    BY <1>1 DEF Own, ItemOwn
  <1>3. PICK d \in Displays : d = Display(a)
    BY <1>2, EdidOfArrival DEF TypesInv, ModesInv
  <1>4. PICK p \in Places : p = items[a].place
    BY <1>2 DEF PlacesOf
  <1>5. /\ OtherItems(a) /\ ItemStep /\ Finishes(a)
        /\ places'[p].scaling = places[p].scaling /\ places'[p].display = places[p].display
        /\ places'[p].profile = "calibrated"
        /\ \A q \in Places \ {p} : places'[q] = places[q]
    BY <1>4, MigratedDoes DEF TypesInv, ModesInv
  <1>6. UNCHANGED <<monitors, arrivals, console, chosen>>
    BY <1>5 DEF ItemStep, modeVars
  <1>7. /\ \A q \in Places :
            /\ places'[q].scaling = places[q].scaling
            /\ places'[q].display = places[q].display
            /\ places[q].profile # "none" => places'[q].profile # "none"
        /\ places[p].display = d
    BY <1>2, <1>3, <1>4, <1>5 DEF PlacesOf
  <1>8. /\ \A e : PlacesOf(e)' = PlacesOf(e) /\ Matching(e)' = Matching(e)
        /\ \A e : Customized(e)' <=> Customized(e)
    <2>1. \A e : PlacesOf(e)' = PlacesOf(e) /\ Matching(e)' = Matching(e)
      BY <1>7 DEF PlacesOf, Matching
    <2> QED
      BY <1>7, <2>1 DEF Customized, PlacesOf
  <1>9. Grows
    BY <1>6, <1>7, <1>8 DEF Grows, PlacesOf
  <1>10. ChoicesRespected'
    <2>1. ScalingsChosen'
      BY <1>6, <1>7 DEF SettingsInv, ChoicesRespected, ScalingsChosen
    <2> QED
      BY <1>6, <1>9, <2>1, ChoicesStay DEF SettingsInv, ChoicesRespected
  <1>11. \A b \in Arrivals : Display(b)' = Display(b)
    BY <1>6 DEF Display
  <1>12. ASSUME NEW b \in Arrivals, arrivals[b].place # NoPlace
         PROVE  /\ Settled(b) => Settled(b)'
                /\ Calibrated(b) => Calibrated(b)'
    <2>1. arrivals[b].place \in Places
      BY <1>12, OwnOfAll DEF Own, PlacedOwn, PlacesOf
    <2>2. Settled(b) => Settled(b)'
      BY <1>6, <1>7, <1>8, <1>11, <2>1 DEF Settled, Reset, Chose
    <2>3. Calibrated(b) => Calibrated(b)'
      <3>1. CASE Display(b) = d
        BY <1>2, <1>3, <1>6, <1>7, <2>1, <3>1 DEF Calibrated
      <3>2. CASE Display(b) # d
        BY <1>5, <1>6, <1>7, <1>8, <1>11, <2>1, <3>2 DEF Calibrated, PlacesOf
      <3> QED
        BY <3>1, <3>2
    <2> QED
      BY <2>2, <2>3
  <1>13. Given(Display(a), items'[a].scaling) /\ Given(Display(a), items'[a].value)
    BY <1>1, <1>5, NothingIsGiven DEF Own, GivenTo, Finishes
  <1>14. items[a].todo = {}
    BY <1>1 DEF TypesInv, ItemsReady
  <1>15. ItemOwn(a)'
    BY <1>1, <1>5, <1>6, <1>11, <1>14 DEF Own, ItemOwn, Finishes
  <1>16. LastAttempt(a)'
    <2> SUFFICES ASSUME OnLast(a)' PROVE LastAttempt(a)'
      BY DEF LastAttempt
    <2>1. items[a].left = 0 /\ items'[a].at = "ended"
      BY <1>5 DEF Finishes, OnLast
    <2>2. OnLast(a)
      BY <1>1, <1>6, <1>11, <2>1 DEF OnLast
    <2>3. /\ arrivals[a].place # NoPlace
          /\ arrivals[a].untouched => Settled(a) /\ arrivals[a].place = p
      BY <1>1, <1>4, <2>2 DEF Own, LastAttempt
    <2>4. arrivals[a].untouched => Settled(a)' /\ Calibrated(a)'
      BY <1>5, <1>6, <1>12, <2>3 DEF Calibrated
    <2> QED
      BY <1>6, <2>1, <2>3, <2>4 DEF LastAttempt
  <1> QED
    BY <1>1, <1>5, <1>9, <1>10, <1>12, <1>13, <1>15, <1>16, ItemSettings

-----------------------------------------------------------------------------
(* What Windows and its user do keeps the settings.                        *)

\* A monitor gets its place.
LEMMA AssignsSettings ==
  ASSUME TypesInv, SettingsInv, NEW a \in Arrivals, NEW p \in Places, WindowsAssigns(a, p)
  PROVE  SettingsInv'
  <1>1. PICK d \in Displays : d = Display(a)
    BY EdidOfArrival DEF WindowsAssigns, TypesInv, ModesInv
  <1>2. /\ arrivals[a].at # "idle" /\ Up(a) /\ arrivals[a].place = NoPlace
        /\ ModesAsBefore
        /\ \A b \in Arrivals \ {a} : arrivals'[b] = arrivals[b]
        /\ \A b \in Arrivals : arrivals'[b].read = arrivals[b].read
        /\ arrivals'[a].place = p /\ arrivals'[a].untouched = console
        /\ \A q \in Places \ {p} : places'[q] = places[q]
        /\ \/ places[p].display = d /\ places'[p] = places[p]
           \/ /\ places[p].display = NoDisplay /\ places'[p].display = d
              /\ places'[p].scaling = 0 /\ places'[p].profile = "none"
        /\ UNCHANGED <<retained, items, console, chosen>>
    BY <1>1, AssignsDoes DEF TypesInv, ModesInv
  <1>3. \A b \in Arrivals : /\ Display(b)' = Display(b) /\ arrivals'[b].at = arrivals[b].at
                           /\ arrivals'[b].descriptor = arrivals[b].descriptor
    BY <1>2 DEF ModesAsBefore, Display
  <1>4. UNCHANGED monitors
    BY <1>2 DEF ModesAsBefore
  <1>5. ASSUME NEW e \in Displays
        PROVE  /\ PlacesOf(e) \subseteq PlacesOf(e)' /\ Matching(e) \subseteq Matching(e)'
               /\ \A q \in PlacesOf(e)' : IF q \in PlacesOf(e) THEN places'[q] = places[q]
                                        ELSE places'[q].scaling = 0 /\ places'[q].profile = "none"
    <2>1. e # NoDisplay
      BY MonitorArrivalAssumption
    <2> QED
      BY <1>2, <2>1 DEF PlacesOf, Matching
  <1>6. ASSUME NEW e \in Displays
        PROVE  /\ Customized(e)' <=> Customized(e)
               /\ Reset(e)' <=> Reset(e)
               /\ Chose(e)' <=> Chose(e)
    BY <1>2, <1>5 DEF Customized, Reset, Chose
  <1>7. Grows
    BY <1>2, <1>5, <1>6 DEF Grows
  <1>8. ChoicesRespected'
    <2>1. ScalingsChosen'
      BY <1>2 DEF SettingsInv, ChoicesRespected, ScalingsChosen
    <2> QED
      BY <1>2, <1>7, <2>1, ChoicesStay DEF SettingsInv, ChoicesRespected
  <1>9. \A e \in Displays : Given(e, retained[e])'
    BY <1>2, <1>7, RetainedGiven
  <1>10. ASSUME NEW b \in Arrivals \ {a}
         PROVE  Own(b)'
    <2>1. Own(b)
      BY OwnOfAll
    <2>2. arrivals'[b].untouched => arrivals[b].untouched /\ console'
      BY <1>2, <2>1 DEF Own, PlacedOwn
    <2>3. Untroubled(b)
      BY <1>2, <1>4, <2>2 DEF Untroubled
    <2>4. ASSUME arrivals[b].place # NoPlace, arrivals[b].at # "idle"
          PROVE  /\ Settled(b) => Settled(b)'
                 /\ Calibrated(b) => Calibrated(b)'
      <3>1. PICK e \in Displays : e = Display(b) /\ e = Display(b)'
        BY <1>3, <2>4, EdidOfArrival DEF TypesInv, ModesInv
      <3>2. arrivals[b].place \in PlacesOf(e) /\ arrivals'[b].place = arrivals[b].place
        BY <1>2, <2>1, <2>4, <3>1 DEF Own, PlacedOwn
      <3>3. places'[arrivals'[b].place] = places[arrivals[b].place]
        BY <1>5, <3>2
      <3>4. Settled(b) => Settled(b)'
        BY <1>6, <3>1, <3>3 DEF Settled
      <3>5. Calibrated(b) => Calibrated(b)'
        BY <1>5, <3>1, <3>3 DEF Calibrated
      <3> QED
        BY <3>4, <3>5
    <2> QED
      BY <1>7, <2>1, <2>3, <2>4, UntroubledOwn DEF TypesInv, ModesInv
  <1>11. Own(a)'
    <2>1. Own(a)
      BY OwnOfAll
    <2>2. PlacedOwn(a)'
      <3>1. p \in PlacesOf(d)'
        BY <1>2 DEF PlacesOf
      <3>2. arrivals'[a].at \in {"schedule", "ended"} /\ p # NoPlace
        BY <1>2, <1>3, MonitorArrivalAssumption DEF Up
      <3> QED
        BY <1>1, <1>2, <1>3, <3>1, <3>2 DEF PlacedOwn
    <2>3. GivenTo(a)'
      <3>1. PICK x, y : x = items[a].scaling /\ y = items[a].value
        OBVIOUS
      <3>2. items[a].at # "none" => Given(d, x) /\ Given(d, y)
        BY <1>1, <2>1, <3>1 DEF Own, GivenTo
      <3>3. items[a].at # "none" => Given(d, x)' /\ Given(d, y)'
        BY <1>7, <3>2, GivenStays
      <3>4. arrivals'[a].at # "reserve"
        BY <1>2, <1>3 DEF Up
      <3> QED
        BY <1>1, <1>2, <1>3, <3>1, <3>3, <3>4 DEF GivenTo, Given
    <2>4. ItemOwn(a)'
      <3>1. (\E q \in PlacesOf(d) : places[q].profile # "none")
              => \E q \in PlacesOf(d)' : places'[q].profile # "none"
        BY <1>5
      <3>2. /\ PlacesOf(d) \subseteq PlacesOf(d)' /\ Matching(d) \subseteq Matching(d)'
            /\ Display(a)' = d
        BY <1>1, <1>3, <1>5
      <3>3. items'[a] = items[a]
        BY <1>2
      <3> QED
        BY <1>1, <1>3, <2>1, <3>1, <3>2, <3>3 DEF Own, ItemOwn
    <2>5. ~OnLast(a)
      BY <1>2, <2>1 DEF Own, LastAttempt
    <2>6. LastAttempt(a)'
      BY <1>2, <1>3, <1>4, <2>5 DEF OnLast, LastAttempt
    <2> QED
      BY <2>2, <2>3, <2>4, <2>6 DEF Own
  <1> QED
    BY <1>8, <1>9, <1>10, <1>11, AllOwn

\* The user changes the place of a monitor, no other display has that place, and the monitor is not
\* untouched any more.
LEMMA ChangesSettings ==
  ASSUME TypesInv, SettingsInv, NEW a \in Arrivals, UserChanges(a)
  PROVE  SettingsInv'
  <1>1. PICK p \in Places :
         /\ p = arrivals[a].place /\ p # NoPlace /\ Up(a) /\ console
         /\ ModesAsBefore
         /\ \A b \in Arrivals \ {a} : arrivals'[b] = arrivals[b]
         /\ \A b \in Arrivals : arrivals'[b].read = arrivals[b].read
         /\ arrivals'[a].place = p /\ ~arrivals'[a].untouched
         /\ \A q \in Places \ {p} : places'[q] = places[q]
         /\ places'[p].display = places[p].display
         /\ places[p].profile # "none" => places'[p].profile # "none"
         /\ chosen' = chosen \cup {<<Display(a), places'[p].scaling>>}
         /\ UNCHANGED <<retained, items, console>>
    BY ChangesDoes DEF TypesInv, ModesInv
  <1>2. Own(a)
    BY OwnOfAll
  <1>3. arrivals[a].at # "idle" /\ p \in PlacesOf(Display(a))
    BY <1>1, <1>2 DEF Own, PlacedOwn
  <1>4. PICK d \in Displays : d = Display(a)
    BY <1>3, EdidOfArrival DEF TypesInv, ModesInv
  <1>5. \A b \in Arrivals : /\ Display(b)' = Display(b) /\ arrivals'[b].at = arrivals[b].at
                           /\ arrivals'[b].descriptor = arrivals[b].descriptor
    BY <1>1 DEF ModesAsBefore, Display
  <1>6. UNCHANGED monitors
    BY <1>1 DEF ModesAsBefore
  <1>7. /\ places[p].display = d /\ places'[p].display = d
        /\ <<d, places'[p].scaling>> \in chosen' /\ chosen \subseteq chosen'
        /\ \A e : PlacesOf(e)' = PlacesOf(e) /\ Matching(e)' = Matching(e)
    BY <1>1, <1>3, <1>4 DEF PlacesOf, Matching
  <1>8. ASSUME NEW e \in Displays
        PROVE  Customized(e) => Customized(e)' \/ Reset(e)'
    <2>1. CASE e = d
      <3>1. CASE places'[p].scaling = 0
        BY <1>7, <2>1, <3>1 DEF Reset
      <3>2. CASE places'[p].scaling # 0
        BY <1>3, <1>4, <1>7, <2>1, <3>2 DEF Customized
      <3> QED
        BY <3>1, <3>2
    <2>2. CASE e # d
      BY <1>1, <1>7, <2>2 DEF Customized, PlacesOf
    <2> QED
      BY <2>1, <2>2
  <1>9. Grows
    BY <1>1, <1>7, <1>8 DEF Grows, PlacesOf
  <1>10. ChoicesRespected'
    <2>1. Kin(d, d)
      BY MonitorArrivalAssumption DEF Kin
    <2>2. ScalingsChosen'
      BY <1>1, <1>7, <2>1 DEF SettingsInv, ChoicesRespected, ScalingsChosen
    <2>3. ASSUME NEW e \in Displays, Chose(e)'
          PROVE  Reset(e)' \/ Customized(e)'
      <3>1. CASE Chose(e)
        BY <1>7, <1>8, <3>1 DEF SettingsInv, ChoicesRespected, ChoicesKept, Reset
      <3>2. CASE ~Chose(e)
        <4>1. e = d /\ places'[p].scaling # 0
          BY <1>1, <1>4, <2>3, <3>2 DEF Chose
        <4> QED
          BY <1>3, <1>4, <1>7, <4>1 DEF Customized
      <3> QED
        BY <3>1, <3>2
    <2> QED
      BY <2>2, <2>3 DEF ChoicesRespected, ChoicesKept
  <1>11. \A e \in Displays : Given(e, retained[e])'
    BY <1>1, <1>9, RetainedGiven
  <1>12. ASSUME NEW b \in Arrivals
         PROVE  Own(b)'
    <2>1. Own(b)
      BY OwnOfAll
    <2>2. arrivals'[b].untouched => arrivals[b].untouched /\ console'
      BY <1>1, <2>1 DEF Own, PlacedOwn
    <2>3. Untroubled(b)
      BY <1>1, <1>5, <1>6, <2>2 DEF Untroubled
    <2>4. ASSUME OnLast(b), arrivals[b].place # NoPlace, arrivals'[b].untouched
          PROVE  /\ Settled(b) => Settled(b)'
                 /\ Calibrated(b) => Calibrated(b)'
      <3>1. b # a
        BY <1>1, <2>4
      <3>2. Display(b) # d
        BY <1>1, <1>4, <2>4, <3>1 DEF OnLast, Up
      <3>3. PICK e : e = Display(b) /\ e = Display(b)'
        BY <1>5
      <3>4. /\ arrivals[b].place \in PlacesOf(e) /\ arrivals'[b].place = arrivals[b].place
            /\ PlacesOf(e)' = PlacesOf(e)
            /\ \A q \in PlacesOf(e) : places'[q] = places[q]
        BY <1>1, <1>7, <2>1, <2>4, <3>1, <3>2, <3>3 DEF Own, PlacedOwn, PlacesOf
      <3>5. /\ Chose(e)' <=> Chose(e)
            /\ Reset(e) => Reset(e)'
        BY <1>1, <1>4, <3>2, <3>3 DEF Chose, Reset
      <3>6. Settled(b) => Settled(b)'
        BY <3>3, <3>4, <3>5 DEF Settled
      <3>7. Calibrated(b) => Calibrated(b)'
        BY <3>3, <3>4 DEF Calibrated
      <3> QED
        BY <3>6, <3>7
    <2> QED
      BY <1>9, <2>1, <2>3, <2>4, UntroubledOwn DEF TypesInv, ModesInv
  <1> QED
    BY <1>10, <1>11, <1>12, AllOwn

\* The console switches, and no monitor is untouched any more.
LEMMA SwitchesSettings ==
  ASSUME TypesInv, SettingsInv, ConsoleSwitches
  PROVE  SettingsInv'
  <1>1. /\ ModesAsBefore
        /\ \A a \in Arrivals : /\ arrivals'[a].place = arrivals[a].place /\ ~arrivals'[a].untouched
                              /\ arrivals'[a].read = arrivals[a].read
        /\ UNCHANGED <<retained, items, hive, chosen>>
    BY SwitchesDoes DEF TypesInv, ModesInv
  <1>2. Grows /\ ChoicesRespected'
    BY <1>1, NothingGrows DEF SettingsInv
  <1>3. \A e \in Displays : Given(e, retained[e])'
    BY <1>1, <1>2, RetainedGiven
  <1>4. ASSUME NEW b \in Arrivals
        PROVE  Own(b)'
    <2>1. Own(b)
      BY OwnOfAll
    <2>2. Untroubled(b)
      BY <1>1 DEF Untroubled, ModesAsBefore
    <2> QED
      BY <1>1, <1>2, <2>1, <2>2, UntroubledOwn DEF TypesInv, ModesInv
  <1> QED
    BY <1>2, <1>3, <1>4, AllOwn

\* Nothing changes.
LEMMA StuttersSettings ==
  ASSUME TypesInv, SettingsInv, UNCHANGED arrivalVars
  PROVE  SettingsInv'
  <1>1. UNCHANGED <<arrivals, monitors, retained, items, hive, console, chosen>>
    BY DEF arrivalVars, modeVars
  <1>2. Grows /\ ChoicesRespected'
    BY <1>1, NothingGrows DEF SettingsInv
  <1>3. \A e \in Displays : Given(e, retained[e])'
    BY <1>1, <1>2, RetainedGiven
  <1>4. ASSUME NEW b \in Arrivals
        PROVE  Own(b)'
    <2>1. Own(b)
      BY OwnOfAll
    <2>2. arrivals'[b].untouched => arrivals[b].untouched /\ console'
      BY <1>1, <2>1 DEF Own, PlacedOwn
    <2>3. Untroubled(b)
      BY <1>1, <2>2 DEF Untroubled
    <2>4. Display(b)' = Display(b)
      BY <1>1 DEF Display
    <2> QED
      BY <1>1, <1>2, <2>1, <2>3, <2>4, SameSettings, UntroubledOwn DEF TypesInv, ModesInv
  <1> QED
    BY <1>2, <1>3, <1>4, AllOwn

\* At the start the user chose what the places have, and the driver has read nothing.
LEMMA SettingsInit ==
  ASSUME ArrivalInit
  PROVE  SettingsInv
  <1>1. /\ arrivals = [a \in Arrivals |-> NoArrival]
        /\ retained = [d \in Displays |-> NoScaling]
        /\ items = [a \in Arrivals |-> NoItem]
        /\ chosen = {<<places[p].display, places[p].scaling>> : p \in Places}
    BY DEF ArrivalInit
  <1>2. /\ NoArrival.at = "idle" /\ NoArrival.place = NoPlace /\ ~NoArrival.untouched
        /\ NoItem.at = "none"
    BY DEF NoArrival, NoItem
  <1>3. ChoicesRespected
    <2>1. ASSUME NEW d \in Displays PROVE Kin(d, d)
      BY MonitorArrivalAssumption DEF Kin
    <2>2. \A p \in Places : places[p].display \in Displays \cup {NoDisplay}
      BY MonitorArrivalAssumption DEF ArrivalInit
    <2>3. ScalingsChosen
      BY <1>1, <2>1, <2>2 DEF ScalingsChosen
    <2>4. ChoicesKept
      BY <1>1 DEF ChoicesKept, Chose, Customized, PlacesOf
    <2> QED
      BY <2>3, <2>4 DEF ChoicesRespected
  <1>4. ValuesGiven
    BY <1>1, <1>2, NothingIsGiven DEF ValuesGiven, GivenTo
  <1>5. Placed
    BY <1>1, <1>2 DEF Placed, PlacedOwn
  <1>6. ItemsOwn /\ LastAttempts
    BY <1>1, <1>2 DEF ItemsOwn, ItemOwn, LastAttempts, LastAttempt, OnLast
  <1> QED
    BY <1>3, <1>4, <1>5, <1>6 DEF SettingsInv

\* Every step keeps them.
LEMMA SettingsStep ==
  ASSUME TypesInv, SettingsInv, [ArrivalNext]_arrivalVars
  PROVE  SettingsInv'
  <1>1. CASE UNCHANGED arrivalVars
    BY <1>1, StuttersSettings
  <1>2. ASSUME NEW a \in Arrivals, Item(a)
        PROVE  SettingsInv'
    BY <1>2, BeginsSettings, LooksSettings, WritesSettings, MigratesSettings, MigratedSettings DEF Item
  <1>3. ASSUME NEW a \in Arrivals, NEW p \in Places, WindowsAssigns(a, p)
        PROVE  SettingsInv'
    BY <1>3, AssignsSettings
  <1>4. ASSUME NEW a \in Arrivals, UserChanges(a)
        PROVE  SettingsInv'
    BY <1>4, ChangesSettings
  <1>5. CASE ConsoleSwitches
    BY <1>5, SwitchesSettings
  <1>6. ASSUME NEW a \in Arrivals, Steps(a) \/ Faults(a)
        PROVE  SettingsInv'
    BY <1>6, ReserveKeepsSettings, ReturnsSettings, SchedulesSettings, ArrivalGoesSettings,
       DepartureSettings DEF Steps, Faults
  <1>7. ASSUME NEW a \in Arrivals, NEW d \in Descriptors, ReserveReads(a, d)
        PROVE  SettingsInv'
    BY <1>7, ReserveReadsSettings
  <1>8. ASSUME NEW a \in Arrivals,
               \/ ArrivalChecks(a) \/ ArrivalRegisters(a)
               \/ ArrivalUnregisters(a) \/ ArrivalRollsBack(a)
        PROVE  SettingsInv'
    BY <1>8, ArrivalGoesSettings
  <1>9. ASSUME NEW a \in Arrivals, ArrivalInserts(a) \/ DepartureCalls(a) \/ DepartureUnregisters(a)
        PROVE  SettingsInv'
    BY <1>9, InsertsSettings, DepartureSettings
  <1> QED
    BY <1>1, <1>2, <1>3, <1>4, <1>5, <1>6, <1>7, <1>8, <1>9 DEF ArrivalNext

\* A monitor whose last attempt is over lacks nothing.
LEMMA NobodyLacks ==
  ASSUME TypesInv, SettingsInv
  PROVE  SettingsRetained
  <1> SUFFICES ASSUME NEW a \in Arrivals, items[a].at = "ended", Lacks(a)
               PROVE  FALSE
    BY DEF SettingsRetained, NothingLacks, SettingsInv, ChoicesRespected
  <1>1. Own(a)
    BY OwnOfAll
  <1>2. PICK d \in Displays : d = Display(a)
    BY <1>1, EdidOfArrival DEF Own, ItemOwn, TypesInv, ModesInv
  <1>3. OnLast(a) /\ arrivals[a].untouched
    BY <1>1 DEF Own, ItemOwn, OnLast, Lacks
  <1>4. Settled(a) /\ Calibrated(a)
    BY <1>1, <1>3 DEF Own, LastAttempt
  <1> QED
    BY <1>2, <1>4 DEF Lacks, Settled, Calibrated

-----------------------------------------------------------------------------
(* The settings, always.                                                   *)

\* What the driver has in its hands for a display, kept at the reservation or read by a work item,
\* the user chose for it, or for a display whose settings keys begin with the same prefix; a work
\* item writes to places of such displays alone; a display has a customized scaling as long as the
\* user did not put it back; and the last attempt settles the place that the monitor is in
\* (retained_dpi_values_by_display_id_, hdr_profile_retention_work_item).
THEOREM SettingsInvariantOfArrivals == ArrivalSpec => [](TypesInv /\ SettingsInv)
  <1>1. ArrivalInit => TypesInv /\ SettingsInv
    BY TypesInit, SettingsInit
  <1>2. (TypesInv /\ SettingsInv) /\ [ArrivalNext]_arrivalVars => (TypesInv /\ SettingsInv)'
    BY TypesStep, SettingsStep
  <1> QED
    BY <1>1, <1>2, PTL DEF ArrivalSpec

\* So no place ever gets a scaling that the user chose for another display, except for one whose
\* settings keys begin with the same prefix, and a monitor that nobody has interfered with has a
\* scaling of its own, unless the user once put that of its display back, and the colour profile
\* of its display when its work item ends, whichever place it was assigned.
THEOREM SettingsAlwaysRetained == ArrivalSpec => []SettingsRetained
  <1>1. TypesInv /\ SettingsInv => SettingsRetained
    BY NobodyLacks
  <1> QED
    BY <1>1, SettingsInvariantOfArrivals, PTL
=============================================================================
