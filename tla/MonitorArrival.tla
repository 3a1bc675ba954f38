--------------------------- MODULE MonitorArrival ---------------------------
(***************************************************************************)
(* What an arrival brings to the operating system besides the monitor      *)
(* (src/driver/windows_driver/driver_main.cpp): its mode, registered under *)
(* its EDID for the callbacks that ask for modes, and the settings that    *)
(* the user gave the display the last time.                                *)
(*                                                                         *)
(* Windows keeps the scaling and the colour profile of a monitor under     *)
(* registry keys of its own, here a place per slot the monitor was ever    *)
(* assigned, and may give a monitor that comes back a new one with default *)
(* values.  The driver reads the scaling when it reserves the identity of  *)
(* a display, and after the arrival a work item writes it to the places of *)
(* the display, some twenty times in five seconds.  A hive is there only   *)
(* while its user is at the console.                                       *)
(*                                                                         *)
(* IddCxBackend has the timeouts of these calls, during which no other     *)
(* arrival begins, and the fences between arrivals and departures.  Here   *)
(* arrivals follow each other, one that finds a monitor in its way fails,  *)
(* and a monitor departs whenever somebody asks for it.                    *)
(***************************************************************************)
EXTENDS ModeCatalog, FiniteSets

CONSTANTS
    Displays,
    Descriptors,    \* the display, mode, restricted and retain of each request
    EdidOf,         \* the EDID of a display with a mode: modes may share one
    TimingOf,       \* the mode that the timing in an EDID amounts to
    Covers,         \* <<d, e>>: the settings keys of e begin with the prefix of d
    Places,
    Scalings,       \* DpiValue: 0 stands for the recommended one
    FirstPlaces,    \* the places there may be from an earlier use ...
    FirstAges,      \* ... and how long ago they were last written to
    MaxArrivals, MaxAttempts,   \* bounds
    MaxDisturbances,    \* on the failures, the user's changes and the switches of the console
    NoDisplay, NoPlace, NoScaling

Arrivals == 1..MaxArrivals
Profiles == {"none", "calibrated"}

ASSUME MonitorArrivalAssumption ==
    /\ {MaxArrivals, MaxAttempts} \subseteq Nat /\ MaxDisturbances \in Nat
    /\ 0 \in Scalings /\ NoScaling \notin Scalings
    /\ NoDisplay \notin Displays /\ NoPlace \notin Places
    /\ \A d \in Displays : <<d, d>> \in Covers
    /\ \A c, d, e \in Displays : /\ {<<c, d>>, <<d, e>>} \subseteq Covers => <<c, e>> \in Covers
                                 /\ {<<c, e>>, <<d, e>>} \subseteq Covers =>
                                        <<c, d>> \in Covers \/ <<d, c>> \in Covers
    /\ \A d \in Descriptors : /\ d.display \in Displays /\ d.restricted \in BOOLEAN
                             /\ EdidOf[d.display, d.mode] \in DOMAIN TimingOf
    /\ FirstPlaces \subseteq [Places -> [display : Displays \cup {NoDisplay}, scaling : Scalings,
                                        profile : Profiles]]
    /\ FirstAges \in [Places -> Nat]

VARIABLES
    entries,        \* g_monitor_description_modes, by EDID
    monitors,       \* monitors_: the arrival of the record of each display, 0 if none
    arrivals,       \* ArrivalState and descriptor of each arrival
    departures,     \* the departure of the monitor of each arrival
    retained,       \* retained_dpi_values_by_display_id_
    items,          \* the retention work item of each arrival
    places,         \* the registry of the user
    age,            \* how many places have been written to since each one was
    console,        \* the user is at the console
    chosen,         \* auxiliary: what the user ever chose, for which display
    disturbances

modeVars == <<entries, monitors, arrivals, departures>>
hive == <<places, age>>
arrivalVars == <<modeVars, retained, items, hive, console, chosen, disturbances>>

NoArrival == [at |-> "idle", descriptor |-> NoMode, read |-> NoScaling, arriving |-> FALSE,
              departing |-> FALSE, place |-> NoPlace, untouched |-> FALSE]
NoItem == [at |-> "none", scaling |-> NoScaling, value |-> NoScaling, todo |-> {}, place |-> NoPlace,
           left |-> 0]
Unused == [display |-> NoDisplay, scaling |-> 0, profile |-> "none"]

Display(a) == arrivals[a].descriptor.display
Edid(a) == EdidOf[Display(a), arrivals[a].descriptor.mode]
Goes(a, at) == arrivals' = [arrivals EXCEPT ![a].at = at]
Disturbs == disturbances < MaxDisturbances /\ disturbances' = disturbances + 1
ModeStep == UNCHANGED <<items, hive, console, chosen>>

-----------------------------------------------------------------------------
(* The retained scaling.                                                   *)

PlacesOf(d) == {p \in Places : places[p].display = d}
Matching(d) == {p \in Places : places[p].display # NoDisplay /\ <<d, places[p].display>> \in Covers}

LastWritten(customized) ==
    IF customized = {} THEN NoScaling
    ELSE places[CHOOSE p \in customized : \A q \in customized : age[p] <= age[q]].scaling

NewestOfAny(d) == LastWritten({p \in Places : places[p].scaling # 0})

\* read_retained_temporary_dpi_value: the customized value written last.
Newest(d) == LastWritten({p \in Matching(d) : places[p].scaling # 0})

\* Whose settings to read and write: those of the one user, while he is at the console.
UserAtConsole == console

ReadRetained(descriptor) ==
    IF descriptor.retain /\ UserAtConsole THEN Newest(descriptor.display) ELSE NoScaling

Write(p, place) ==
    /\ places' = [places EXCEPT ![p] = place]
    /\ age' = [q \in Places |-> IF q = p THEN 0 ELSE IF age[q] < age[p] THEN age[q] + 1 ELSE age[q]]

-----------------------------------------------------------------------------
(* An arrival.                                                             *)

\* reserve_temporary_display_identity reads the scaling ...
ReserveReads(a, descriptor) ==
    /\ arrivals[a].at = "idle" /\ \A b \in 1..(a - 1) : arrivals[b].at = "ended"
    /\ arrivals' = [arrivals EXCEPT ![a].at = "reserve", ![a].descriptor = descriptor,
                                    ![a].read = ReadRetained(descriptor)]
    /\ ModeStep /\ UNCHANGED <<entries, monitors, departures, retained, disturbances>>

\* ... looks for the user again, saves the identity and keeps what it read.  With
\* no user there, no value read means nothing.
ReserveKeeps(a, saved) ==
    LET read == arrivals[a].read IN
    /\ arrivals[a].at = "reserve"
    /\ retained' = [retained EXCEPT ![Display(a)] =
                        IF saved /\ read # NoScaling THEN read
                        ELSE IF ~saved \/ UserAtConsole THEN NoScaling ELSE @]
    /\ arrivals' = [arrivals EXCEPT ![a].at = IF saved THEN "check" ELSE "failed", ![a].read = NoScaling]
    /\ ModeStep /\ UNCHANGED <<entries, monitors, departures>>

\* arrive_display_synchronously: no other monitor under the display id ...
ArrivalChecks(a) ==
    /\ arrivals[a].at = "check"
    /\ Goes(a, IF monitors[Display(a)] = 0 THEN "register" ELSE "failed")
    /\ ModeStep /\ UNCHANGED <<entries, monitors, departures, retained, disturbances>>

\* ... and no other mode under the EDID.
ArrivalRegisters(a) ==
    LET e == Edid(a)  d == arrivals[a].descriptor IN
    /\ arrivals[a].at = "register"
    /\ IF Registrable(entries[e], d.mode, d.restricted)
       THEN entries' = [entries EXCEPT ![e] = Registered(@, d.mode, d.restricted)] /\ Goes(a, "create")
       ELSE Goes(a, "failed") /\ UNCHANGED entries
    /\ ModeStep /\ UNCHANGED <<monitors, departures, retained, disturbances>>

\* IddCxMonitorCreate, and if that succeeds a second look for another monitor,
\* because the lock was given up for the call
ArrivalInserts(a) ==
    /\ arrivals[a].at = "create"
    /\ IF monitors[Display(a)] = 0
       THEN /\ monitors' = [monitors EXCEPT ![Display(a)] = a]
            /\ arrivals' = [arrivals EXCEPT ![a].at = "arrive", ![a].arriving = TRUE]
       ELSE Goes(a, "unregister") /\ UNCHANGED monitors
    /\ ModeStep /\ UNCHANGED <<entries, departures, retained, disturbances>>

ArrivalCreateFails(a) ==
    /\ arrivals[a].at = "create"
    /\ Goes(a, "unregister")
    /\ ModeStep /\ UNCHANGED <<entries, monitors, departures, retained>>

\* IddCxMonitorArrival, after which the record is settled or removed
ArrivalReturns(a, arrived) ==
    /\ arrivals[a].at = "arrive"
    /\ monitors' = IF arrived THEN monitors ELSE [monitors EXCEPT ![Display(a)] = 0]
    /\ arrivals' = [arrivals EXCEPT ![a].at = IF arrived THEN "schedule" ELSE "unregister",
                                    ![a].arriving = FALSE]
    /\ ModeStep /\ UNCHANGED <<entries, departures, retained>>

\* unregister_monitor_description_mode after a failure
ArrivalUnregisters(a) ==
    /\ arrivals[a].at = "unregister"
    /\ entries' = [entries EXCEPT ![Edid(a)] = Unregistered(@)]
    /\ Goes(a, "failed")
    /\ ModeStep /\ UNCHANGED <<monitors, departures, retained, disturbances>>

\* unreserve_temporary_display_identity, which the controller calls for a failure
ArrivalRollsBack(a) ==
    /\ arrivals[a].at = "failed"
    /\ retained' = [retained EXCEPT ![Display(a)] = NoScaling]
    /\ Goes(a, "ended")
    /\ ModeStep /\ UNCHANGED <<entries, monitors, departures, disturbances>>

\* The retained value is looked up and handed to the work item, if one can be made.
ArrivalSchedules(a, made) ==
    /\ arrivals[a].at = "schedule"
    /\ Goes(a, "ended")
    /\ items' = IF made /\ arrivals[a].descriptor.retain
                THEN [items EXCEPT ![a] = [NoItem EXCEPT !.at = "attempt", !.left = MaxAttempts,
                                                         !.scaling = retained[Display(a)]]]
                ELSE items
    /\ UNCHANGED <<entries, monitors, departures, retained, hive, console, chosen>>

-----------------------------------------------------------------------------
(* A departure, after the fences of depart_display.                        *)

Departs(a, at) == departures' = [departures EXCEPT ![a] = at]

DepartureCalls(a) ==
    /\ \E d \in Displays : monitors[d] = a
    /\ ~arrivals[a].arriving /\ ~arrivals[a].departing
    /\ arrivals' = [arrivals EXCEPT ![a].departing = TRUE]
    /\ Departs(a, "calling")
    /\ ModeStep /\ UNCHANGED <<entries, monitors, retained, disturbances>>

\* finish_monitor_departure removes the record under the lock ...
DepartureReturns(a, departed) ==
    /\ departures[a] = "calling"
    /\ IF departed
       THEN monitors' = [monitors EXCEPT ![Display(a)] = 0] /\ Departs(a, "unregister") /\ UNCHANGED arrivals
       ELSE /\ arrivals' = [arrivals EXCEPT ![a].departing = FALSE]
            /\ Departs(a, "none") /\ UNCHANGED monitors
    /\ ModeStep /\ UNCHANGED <<entries, retained>>

\* ... and lets go of the mode after it.
DepartureUnregisters(a) ==
    /\ departures[a] = "unregister"
    /\ entries' = [entries EXCEPT ![Edid(a)] = Unregistered(@)]
    /\ Departs(a, "answer")
    /\ ModeStep /\ UNCHANGED <<monitors, arrivals, retained, disturbances>>

\* depart_temporary_display forgets the scaling unless there is a newer monitor.
\* A caller that gave up waiting forgets nothing.
DepartureAnswers(a, awaited) ==
    /\ departures[a] = "answer"
    /\ retained' = IF awaited /\ monitors[Display(a)] = 0
                   THEN [retained EXCEPT ![Display(a)] = NoScaling] ELSE retained
    /\ Departs(a, "none")
    /\ ModeStep /\ UNCHANGED <<entries, monitors, arrivals>>

-----------------------------------------------------------------------------
(* What the operating system is told when it asks for modes.               *)

\* preferred_mode_shape_from_description: the mode registered under the EDID, or
\* else that of its timing
DescribedMode(e) ==
    IF entries[e].references # 0
    THEN [mode |-> entries[e].mode, restricted |-> entries[e].restricted]
    ELSE [mode |-> TimingOf[e], restricted |-> FALSE]

\* requested_mode_shape: of the monitor on record
RequestedMode(a) ==
    IF monitors[Display(a)] = a
    THEN [mode |-> arrivals[a].descriptor.mode, restricted |-> arrivals[a].descriptor.restricted]
    ELSE DescribedMode(Edid(a))

Catalog ==
    [mode \in {d.mode : d \in Descriptors} \cup {TimingOf[e] : e \in DOMAIN TimingOf} \cup {NoMode},
     restricted \in BOOLEAN |-> ModeShapes(mode, restricted)]

MonitorModes(e) == Catalog[DescribedMode(e).mode, DescribedMode(e).restricted]
TargetModes(a) == Catalog[RequestedMode(a).mode, RequestedMode(a).restricted]
DefaultDescriptionModes(a) ==
    IF monitors[Display(a)] = a /\ RequestedMode(a).restricted
    THEN Catalog[RequestedMode(a).mode, TRUE] ELSE Catalog[NoMode, FALSE]

-----------------------------------------------------------------------------
(* hdr_profile_retention_work_item.                                        *)

ItemStep == UNCHANGED <<modeVars, retained, console, chosen, disturbances>>

\* The attempts go on for five seconds, in which Windows gives the monitor its
\* place, if it stays.
PlacedInTime(a) == items[a].left = 1 => arrivals[a].place # NoPlace \/ monitors[Display(a)] # a

\* The value kept at the reservation, or else what can be read now
AttemptBegins(a) ==
    LET d == arrivals[a].descriptor
        value == IF items[a].scaling # NoScaling THEN items[a].scaling ELSE ReadRetained(d)
    IN  /\ items[a].at = "attempt" /\ items[a].left > 0
        /\ PlacedInTime(a)
        /\ items' = [items EXCEPT ![a].at = "apply", ![a].value = value, ![a].left = @ - 1,
                                  ![a].todo = IF value # NoScaling /\ UserAtConsole THEN Matching(d.display)
                                              ELSE {}]
        /\ UNCHANGED hive /\ ItemStep

\* apply_retained_temporary_dpi_value: a place with another customized value is
\* the user's; looked at ...
AttemptLooks(a, p) ==
    LET left == [items[a] EXCEPT !.todo = @ \ {p}] IN
    /\ items[a].at = "apply"
    /\ p \in items[a].todo
    /\ items' = [items EXCEPT ![a] = IF places[p].scaling \in {0, items[a].value}
                                     THEN [left EXCEPT !.at = "write", !.place = p] ELSE left]
    /\ UNCHANGED hive /\ ItemStep

\* ... and then written to.
AttemptWrites(a) ==
    LET p == items[a].place IN
    /\ items[a].at = "write"
    /\ Write(p, [places[p] EXCEPT !.scaling = items[a].value])
    /\ items' = [items EXCEPT ![a].at = "apply", ![a].place = NoPlace]
    /\ ItemStep

\* monitor_driver_value_for_identity: the instance with this target, or else any
\* of the display.
CurrentPlaces(a) ==
    IF arrivals[a].place # NoPlace THEN {arrivals[a].place} ELSE PlacesOf(Display(a))

\* migrate_hdr_profile_association_for_monitor: a place without a profile gets
\* that of another place of the display.
AttemptMigrates(a) ==
    LET calibrated == {q \in PlacesOf(Display(a)) : places[q].profile # "none"}
        done == IF items[a].left = 0 THEN [NoItem EXCEPT !.at = "ended"]
                ELSE [items[a] EXCEPT !.at = "attempt", !.value = NoScaling]
    IN  /\ items[a].at = "apply" /\ items[a].todo = {}
        /\ \/ /\ ~UserAtConsole \/ calibrated = {} \/ CurrentPlaces(a) = {} \/ CurrentPlaces(a) \cap calibrated # {}
              /\ items' = [items EXCEPT ![a] = done]
           \/ /\ UserAtConsole /\ calibrated # {}
              /\ \E p \in CurrentPlaces(a) \ calibrated :
                    items' = [items EXCEPT ![a].at = "migrate", ![a].place = p]
        /\ UNCHANGED hive /\ ItemStep

AttemptMigrated(a) ==
    /\ items[a].at = "migrate"
    /\ places' = [places EXCEPT ![items[a].place].profile = "calibrated"]
    /\ items' = [items EXCEPT ![a] = IF @.left = 0 THEN [NoItem EXCEPT !.at = "ended"]
                                     ELSE [@ EXCEPT !.at = "attempt", !.value = NoScaling, !.place = NoPlace]]
    /\ UNCHANGED age /\ ItemStep

Item(a) ==
    \/ AttemptBegins(a)
    \/ \E p \in Places : AttemptLooks(a, p)
    \/ AttemptWrites(a)
    \/ AttemptMigrates(a)
    \/ AttemptMigrated(a)

-----------------------------------------------------------------------------
(* Windows and its user.                                                   *)

Up(a) == monitors[Display(a)] = a /\ arrivals[a].at \in {"schedule", "ended"}
Environment == UNCHANGED <<entries, monitors, departures, retained, items>>

\* The monitor gets a place it had before, or a new one with the default values.
WindowsAssigns(a, p) ==
    /\ arrivals[a].at # "idle" /\ Up(a)
    /\ arrivals[a].place = NoPlace
    /\ places[p].display \in {NoDisplay, Display(a)}
    /\ arrivals' = [arrivals EXCEPT ![a].place = p, ![a].untouched = console]
    /\ IF places[p].display = NoDisplay
       THEN Write(p, [Unused EXCEPT !.display = Display(a)])
       ELSE UNCHANGED hive
    /\ Environment /\ UNCHANGED <<console, chosen, disturbances>>

\* The user changes the scaling or calibrates the colours of a monitor that is up.
UserChanges(a) ==
    LET p == arrivals[a].place IN
    /\ p # NoPlace /\ Up(a) /\ console
    /\ \E changed \in {[places[p] EXCEPT !.scaling = s] : s \in Scalings}
                      \cup {[places[p] EXCEPT !.profile = "calibrated"]} :
        /\ changed # places[p]
        /\ Write(p, changed)
        /\ chosen' = chosen \cup {<<Display(a), changed.scaling>>}
    /\ arrivals' = [arrivals EXCEPT ![a].untouched = FALSE]
    /\ Environment /\ UNCHANGED console

ConsoleSwitches ==
    /\ console' = ~console
    /\ arrivals' = [a \in Arrivals |-> [arrivals[a] EXCEPT !.untouched = FALSE]]
    /\ Environment /\ UNCHANGED <<hive, chosen>>

-----------------------------------------------------------------------------

ArrivalInit ==
    /\ entries = [e \in DOMAIN TimingOf |-> NoEntry]
    /\ monitors = [d \in Displays |-> 0]
    /\ arrivals = [a \in Arrivals |-> NoArrival]
    /\ departures = [a \in Arrivals |-> "none"]
    /\ retained = [d \in Displays |-> NoScaling]
    /\ items = [a \in Arrivals |-> NoItem]
    /\ places \in FirstPlaces
    /\ age = FirstAges
    /\ console \in BOOLEAN
    /\ chosen = {<<places[p].display, places[p].scaling>> : p \in Places}
    /\ disturbances = 0

Steps(a) ==
    \/ ReserveKeeps(a, TRUE) \/ ArrivalReturns(a, TRUE)
    \/ ArrivalSchedules(a, TRUE)
    \/ DepartureReturns(a, TRUE) \/ DepartureAnswers(a, TRUE)

Faults(a) ==
    \/ ReserveKeeps(a, FALSE) \/ ArrivalCreateFails(a) \/ ArrivalReturns(a, FALSE)
    \/ ArrivalSchedules(a, FALSE)
    \/ DepartureReturns(a, FALSE) \/ DepartureAnswers(a, FALSE)

ArrivalNext ==
    \/ \E a \in Arrivals :
        \/ \E d \in Descriptors : ReserveReads(a, d)
        \/ Steps(a) /\ UNCHANGED disturbances
        \/ Faults(a) /\ Disturbs
        \/ ArrivalChecks(a) \/ ArrivalRegisters(a) \/ ArrivalInserts(a)
        \/ ArrivalUnregisters(a) \/ ArrivalRollsBack(a)
        \/ DepartureCalls(a) \/ DepartureUnregisters(a)
        \/ Item(a)
        \/ \E p \in Places : WindowsAssigns(a, p)
        \/ UserChanges(a) /\ Disturbs
    \/ ConsoleSwitches /\ Disturbs

ArrivalSpec == ArrivalInit /\ [][ArrivalNext]_arrivalVars

-----------------------------------------------------------------------------
(* Properties.                                                             *)

\* The arrivals that have a reference on the mode of an EDID
Holders(e) ==
    {a \in Arrivals : /\ arrivals[a].at # "idle" /\ Edid(a) = e
                      /\ \/ arrivals[a].at \in {"create", "arrive", "unregister"}
                         \/ monitors[Display(a)] = a
                         \/ departures[a] = "unregister"}

ReferencesExact == \A e \in DOMAIN TimingOf : entries[e].references = Cardinality(Holders(e))

AnswersAgree ==
    \A d \in Displays :
        monitors[d] # 0 =>
            LET a == monitors[d] IN
            /\ MonitorModes(Edid(a)) = TargetModes(a)
            /\ arrivals[a].descriptor.restricted => DefaultDescriptionModes(a) = TargetModes(a)

\* All the time that a monitor is on record, the operating system is told the same modes,
\* whether it asks by the EDID or by the monitor, and they are those of the request,
\* also while the previous monitor of the display lets go of its mode
\* (driver_main.cpp:3880-3906 and 3751-3754); when the last one has, the mode is forgotten.
ListsUsable == ReferencesExact /\ AnswersAgree

\* The settings keys of both begin with one prefix, of either of them or of a third display.
Kin(d, e) == \E c \in Displays : {<<c, d>>, <<c, e>>} \subseteq Covers

\* What the user chose for a display.  To put the scaling back to the recommended one is no
\* choice for the driver, which cannot tell it from the value of a new place (647-653).
Chose(d) == \E s \in Scalings \ {0} : <<d, s>> \in chosen
Reset(d) == <<d, 0>> \in chosen

\* The place of a monitor that lacks what the user once chose for the display, and that
\* neither the user nor a switch of the console has interfered with since it came up.
Lacks(a) ==
    LET p == arrivals[a].place  d == Display(a) IN
    /\ arrivals[a].untouched /\ monitors[d] = a
    /\ \/ places[p].scaling = 0 /\ Chose(d) /\ ~Reset(d)
       \/ places[p].profile = "none" /\ \E q \in PlacesOf(d) : places[q].profile # "none"

ScalingsChosen ==
    \A p \in Places :
        LET place == places[p] IN
        place.display # NoDisplay /\ place.scaling # 0 =>
            \E d \in Displays : Kin(d, place.display) /\ <<d, place.scaling>> \in chosen

NothingLacks == \A a \in Arrivals : items[a].at = "ended" => ~Lacks(a)

\* A retained display comes back with a scaling and with the colour profile the user gave it,
\* whichever place it is assigned, by the time that its work item ends (driver_main.cpp:506-515,
\* 944-957), unless the user has once put its scaling back to the recommended one, after which
\* it may or may not.  And no place gets a scaling that the user chose for another display,
\* unless the settings keys of the two begin with one prefix: the prefixes end in a serial
\* number of no fixed length (498-500) and are compared as far as they go (536, 631), so that
\* such displays are given each other's.
SettingsRetained == ScalingsChosen /\ NothingLacks
=============================================================================
