----------------------------- MODULE VkmsConfigfs -----------------------------
(***************************************************************************)
(* The configfs interface of the Linux virtual display driver: user space  *)
(* builds a configuration of planes, CRTCs, encoders and connectors out of *)
(* directories and symbolic links, and writing "enabled" turns it into a   *)
(* DRM device.  Every callback holds the lock of the configured device, so *)
(* each is one action.                                                     *)
(*                                                                         *)
(* The configfs core is external: it refuses to remove a directory that    *)
(* has links or is the target of one, or a device that still has items.    *)
(* A refused request and one that cannot be parsed change nothing and are  *)
(* no steps.  Writeback cannot be configured (the attribute refuses 1),    *)
(* so no configuration here has it.                                        *)
(*                                                                         *)
(* A definition named for what is wrong with it is a faulty variant of the *)
(* one that follows: no specification uses it.                             *)
(***************************************************************************)
EXTENDS Naturals, FiniteSets, Functions

CONSTANTS
    Planes, Crtcs, Encoders, Connectors,    \* names user space gives to items
    Modes, NoMode,          \* requested modes as [size, rate], rates in mHz; none, 0 0 0
    PoolModes,              \* modes every connector offers: of the EDID and the usual list
    UsualSize,              \* 3840x2160
    NoDevice,
    Addresses,              \* where configurations are in memory: bound on how many are
    MaxHeld                 \* bound on the DRM devices of one that clients keep open

MinRate == 1000
MaxRate == 1000000
ValidMode(mode) == mode.rate \in MinRate..MaxRate

ASSUME ModesAssumption ==
    /\ NoMode \notin Modes
    /\ \A mode \in Modes \cup PoolModes :
           mode = [size |-> mode.size, rate |-> mode.rate] /\ ValidMode(mode)
    /\ \E mode \in PoolModes : mode.size = UsualSize

VARIABLES
    device,     \* the configured device: its "enabled" attribute, its configuration and
                \* where that is
    live,       \* the DRM device made of the configuration, config->dev
    references, \* the count of references to each configuration; 0: it is freed
    held        \* DRM devices made of each that are gone but that clients still have open

configfsVars == <<device, live, references, held>>

PlaneTypes == {"overlay", "primary", "cursor"}
Statuses == {"connected", "disconnected", "unknown"}
MaxItems == 31

-----------------------------------------------------------------------------
\* The configuration (vkms_config.c).  Its links are relations between items.

PartialFunctions(S, T) == UNION {[D -> T] : D \in SUBSET S}

Configs ==
    [types : PartialFunctions(Planes, PlaneTypes), crtcs : SUBSET Crtcs, encoders : SUBSET Encoders,
     status : PartialFunctions(Connectors, Statuses),
     modes : PartialFunctions(Connectors, Modes \cup {NoMode}),
     planeCrtcs : SUBSET (Planes \X Crtcs), encoderCrtcs : SUBSET (Encoders \X Crtcs),
     connectorEncoders : SUBSET (Connectors \X Encoders)]

Devices == [enabled : BOOLEAN, config : Configs, address : Addresses]

EmptyConfig ==
    [types |-> << >>, crtcs |-> {}, encoders |-> {}, status |-> << >>, modes |-> << >>,
     planeCrtcs |-> {}, encoderCrtcs |-> {}, connectorEncoders |-> {}]

PlanesOf(cfg) == DOMAIN cfg.types
ConnectorsOf(cfg) == DOMAIN cfg.status

\* A function that also has v at x.
Put(f, x, v) == [y \in DOMAIN f \cup {x} |-> IF y = x THEN v ELSE f[y]]

NotFrom(links, item) == {link \in links : link[1] # item}
NotTo(links, item) == {link \in links : link[2] # item}

CreatePlane(cfg, p) == [cfg EXCEPT !.types = Put(@, p, "overlay")]
DestroyPlane(cfg, p) ==
    [cfg EXCEPT !.types = Restrict(@, PlanesOf(cfg) \ {p}), !.planeCrtcs = NotFrom(@, p)]

CreateCrtc(cfg, c) == [cfg EXCEPT !.crtcs = @ \cup {c}]
DestroyCrtc(cfg, c) ==
    [cfg EXCEPT !.crtcs = @ \ {c},
                !.planeCrtcs = NotTo(@, c), !.encoderCrtcs = NotTo(@, c)]

CreateEncoder(cfg, e) == [cfg EXCEPT !.encoders = @ \cup {e}]
DestroyEncoder(cfg, e) ==
    [cfg EXCEPT !.encoders = @ \ {e},
                !.encoderCrtcs = NotFrom(@, e), !.connectorEncoders = NotTo(@, e)]

CreateConnector(cfg, n) ==
    [cfg EXCEPT !.status = Put(@, n, "disconnected"), !.modes = Put(@, n, NoMode)]
DestroyConnector(cfg, n) ==
    [cfg EXCEPT !.status = Restrict(@, ConnectorsOf(cfg) \ {n}),
                !.modes = Restrict(@, ConnectorsOf(cfg) \ {n}),
                !.connectorEncoders = NotFrom(@, n)]

AttachPlane(cfg, p, c) == [cfg EXCEPT !.planeCrtcs = @ \cup {<<p, c>>}]
DetachPlane(cfg, p, c) == [cfg EXCEPT !.planeCrtcs = @ \ {<<p, c>>}]
AttachEncoder(cfg, e, c) == [cfg EXCEPT !.encoderCrtcs = @ \cup {<<e, c>>}]
DetachEncoder(cfg, e, c) == [cfg EXCEPT !.encoderCrtcs = @ \ {<<e, c>>}]
AttachConnector(cfg, n, e) == [cfg EXCEPT !.connectorEncoders = @ \cup {<<n, e>>}]
DetachConnector(cfg, n, e) == [cfg EXCEPT !.connectorEncoders = @ \ {<<n, e>>}]

PlanesOfType(cfg, c, type) ==
    {p \in PlanesOf(cfg) : cfg.types[p] = type /\ <<p, c>> \in cfg.planeCrtcs}

ValidPlanesForCrtc(cfg, c) ==
    /\ Cardinality(PlanesOfType(cfg, c, "primary")) = 1
    /\ Cardinality(PlanesOfType(cfg, c, "cursor")) <= 1

ValidNumber(items) == Cardinality(items) \in 1..MaxItems

AllLinked(items, links) == \A item \in items : \E link \in links : link[1] = item

ValidEncoderPossibleCrtcs(cfg) ==
    /\ AllLinked(cfg.encoders, cfg.encoderCrtcs)
    /\ \A c \in cfg.crtcs : \E link \in cfg.encoderCrtcs : link[2] = c

IsValid(cfg) ==
    /\ \A items \in {PlanesOf(cfg), cfg.crtcs, cfg.encoders, ConnectorsOf(cfg)} : ValidNumber(items)
    /\ AllLinked(PlanesOf(cfg), cfg.planeCrtcs)
    /\ \A c \in cfg.crtcs : ValidPlanesForCrtc(cfg, c)
    /\ ValidEncoderPossibleCrtcs(cfg)
    /\ AllLinked(ConnectorsOf(cfg), cfg.connectorEncoders)

\* The device of the module's own, one output wide, with a plane for each option.
DefaultConfig(cursor, overlays) ==
    LET types == [p \in 0..(overlays + (IF cursor THEN 1 ELSE 0)) |->
                    IF p = 0 THEN "primary" ELSE IF p <= overlays THEN "overlay" ELSE "cursor"]
    IN [types |-> types, crtcs |-> {0}, encoders |-> {0},
        status |-> [n \in {0} |-> "disconnected"], modes |-> [n \in {0} |-> NoMode],
        planeCrtcs |-> (DOMAIN types) \X {0}, encoderCrtcs |-> {<<0, 0>>},
        connectorEncoders |-> {<<0, 0>>}]

-----------------------------------------------------------------------------
\* The DRM device.

Live ==
    [connectors : PartialFunctions(Connectors, [status : Statuses, requested : Modes \cup {NoMode}]),
     primary : PartialFunctions(Crtcs, SUBSET Planes),
     routes : SUBSET (Connectors \X Crtcs)]

ASSUME NoDeviceAssumption == NoDevice \notin Devices \cup Live

ConnectorInit(status) == [status |-> status, requested |-> NoMode]

\* What vkms_output_init makes of a configuration: for each connector its status and its
\* requested mode, for each CRTC its planes, and which CRTCs each connector can be routed to.
OutputInit(cfg) ==
    [connectors |-> [n \in ConnectorsOf(cfg) |->
                        [ConnectorInit(cfg.status[n]) EXCEPT !.requested = cfg.modes[n]]],
     primary |-> [c \in cfg.crtcs |-> PlanesOfType(cfg, c, "primary")],
     routes |-> {route \in ConnectorsOf(cfg) \X cfg.crtcs :
                    \E e \in cfg.encoders : /\ <<route[1], e>> \in cfg.connectorEncoders
                                           /\ <<e, route[2]>> \in cfg.encoderCrtcs}]

\* vkms_connector_set_requested_mode and _set_status, on the connector of a live device.
SetRequestedMode(n, mode) == [live EXCEPT !.connectors[n].requested = mode]
SetStatus(n, status) == [live EXCEPT !.connectors[n].status = status]

\* What a client that probes a live connector is told of it (vkms_connector.c): whether it is
\* there, the modes it has and those among them it prefers.  The doubled rate is offered for
\* choice, and only if it is still a rate the driver can be asked for.
Detect(n) == live.connectors[n].status

Doubled(mode) == IF mode.rate <= MaxRate \div 2 THEN {[mode EXCEPT !.rate = 2 * @]} ELSE {}

GetModes(n) ==
    LET requested == live.connectors[n].requested
    IN  IF requested = NoMode
        THEN [modes |-> PoolModes, preferred |-> {mode \in PoolModes : mode.size = UsualSize}]
        ELSE [modes |-> PoolModes \cup {requested} \cup Doubled(requested), preferred |-> {requested}]

CreateDeviceWithoutReference == live' = OutputInit(device.config) /\ UNCHANGED <<references, held>>
CreateDevice ==
    /\ live' = OutputInit(device.config)
    /\ references' = [references EXCEPT ![device.address] = @ + 1]
    /\ UNCHANGED held

\* The reference of the DRM device goes when the last client closes it, now or later, with
\* as many others as go at the same time.
DestroyDevice(others) ==
    LET a == device.address IN
    /\ live' = NoDevice
    /\ \/ references' = [references EXCEPT ![a] = @ - 1 - others] /\ UNCHANGED held
       \/ /\ held[a] < MaxHeld /\ held' = [held EXCEPT ![a] = @ + 1]
          /\ references' = [references EXCEPT ![a] = @ - others]

LastClose(a) ==
    /\ held[a] > 0
    /\ held' = [held EXCEPT ![a] = @ - 1]
    /\ references' = [references EXCEPT ![a] = @ - 1]
    /\ UNCHANGED <<device, live>>

-----------------------------------------------------------------------------
\* The callbacks of configfs.

Configured == device # NoDevice

\* What the kernel asks of a callback is a definition of its own, named for the callback.
MayMakeDevice == ~Configured
MakeDevice ==
    /\ MayMakeDevice
    /\ \E a \in Addresses :
        /\ references[a] = 0
        /\ device' = [enabled |-> FALSE, config |-> EmptyConfig, address |-> a]
        /\ references' = [references EXCEPT ![a] = 1]
    /\ UNCHANGED <<live, held>>

ItemsOf(cfg) == PlanesOf(cfg) \cup cfg.crtcs \cup cfg.encoders \cup ConnectorsOf(cfg)

MayReleaseDevice == Configured /\ ItemsOf(device.config) = {}
ReleaseDevice ==
    /\ MayReleaseDevice
    /\ device' = NoDevice
    /\ IF device.enabled THEN DestroyDevice(1)
       ELSE /\ references' = [references EXCEPT ![device.address] = @ - 1]
            /\ UNCHANGED <<live, held>>

Becomes(cfg) == device' = [device EXCEPT !.config = cfg] /\ UNCHANGED <<live, references, held>>

\* Items and links are only added to a device that is not enabled.
Open == Configured /\ ~device.enabled

MayMakePlane(p) == Open /\ p \notin PlanesOf(device.config)
MayMakeCrtc(c) == Open /\ c \notin device.config.crtcs
MayMakeEncoder(e) == Open /\ e \notin device.config.encoders
MayMakeConnector(n) == Open /\ n \notin ConnectorsOf(device.config)

MakePlane(p) == MayMakePlane(p) /\ Becomes(CreatePlane(device.config, p))
MakeCrtc(c) == MayMakeCrtc(c) /\ Becomes(CreateCrtc(device.config, c))
MakeEncoder(e) == MayMakeEncoder(e) /\ Becomes(CreateEncoder(device.config, e))
MakeConnector(n) == MayMakeConnector(n) /\ Becomes(CreateConnector(device.config, n))

MayStoreType(p) == Open /\ p \in PlanesOf(device.config)
StoreType(p, type) ==
    /\ MayStoreType(p)
    /\ Becomes([device.config EXCEPT !.types[p] = type])

MayLinkPlane(p, c) ==
    Open /\ p \in PlanesOf(device.config) /\ c \in device.config.crtcs
    /\ <<p, c>> \notin device.config.planeCrtcs
MayLinkEncoder(e, c) ==
    Open /\ e \in device.config.encoders /\ c \in device.config.crtcs
    /\ <<e, c>> \notin device.config.encoderCrtcs
MayLinkConnector(n, e) ==
    Open /\ n \in ConnectorsOf(device.config) /\ e \in device.config.encoders
    /\ <<n, e>> \notin device.config.connectorEncoders

LinkPlane(p, c) == MayLinkPlane(p, c) /\ Becomes(AttachPlane(device.config, p, c))
LinkEncoder(e, c) == MayLinkEncoder(e, c) /\ Becomes(AttachEncoder(device.config, e, c))
LinkConnector(n, e) == MayLinkConnector(n, e) /\ Becomes(AttachConnector(device.config, n, e))

\* Links and items are removed from an enabled device as well.
MayUnlinkPlane(p, c) == Configured /\ <<p, c>> \in device.config.planeCrtcs
MayUnlinkEncoder(e, c) == Configured /\ <<e, c>> \in device.config.encoderCrtcs
MayUnlinkConnector(n, e) == Configured /\ <<n, e>> \in device.config.connectorEncoders

UnlinkPlane(p, c) == MayUnlinkPlane(p, c) /\ Becomes(DetachPlane(device.config, p, c))
UnlinkEncoder(e, c) == MayUnlinkEncoder(e, c) /\ Becomes(DetachEncoder(device.config, e, c))
UnlinkConnector(n, e) == MayUnlinkConnector(n, e) /\ Becomes(DetachConnector(device.config, n, e))

NoLinkFrom(links, item) == NotFrom(links, item) = links
NoLinkTo(links, item) == NotTo(links, item) = links

MayReleasePlane(p) ==
    Configured /\ p \in PlanesOf(device.config) /\ NoLinkFrom(device.config.planeCrtcs, p)
MayReleaseCrtc(c) ==
    Configured /\ c \in device.config.crtcs
    /\ NoLinkTo(device.config.planeCrtcs, c) /\ NoLinkTo(device.config.encoderCrtcs, c)
MayReleaseEncoder(e) ==
    Configured /\ e \in device.config.encoders
    /\ NoLinkFrom(device.config.encoderCrtcs, e) /\ NoLinkTo(device.config.connectorEncoders, e)
MayReleaseConnector(n) ==
    Configured /\ n \in ConnectorsOf(device.config) /\ NoLinkFrom(device.config.connectorEncoders, n)

ReleasePlane(p) == MayReleasePlane(p) /\ Becomes(DestroyPlane(device.config, p))
ReleaseCrtc(c) == MayReleaseCrtc(c) /\ Becomes(DestroyCrtc(device.config, c))
ReleaseEncoder(e) == MayReleaseEncoder(e) /\ Becomes(DestroyEncoder(device.config, e))
ReleaseConnector(n) == MayReleaseConnector(n) /\ Becomes(DestroyConnector(device.config, n))

\* The status and the requested mode of an enabled device's connector change at once.
MayStoreStatus(n) == Configured /\ n \in ConnectorsOf(device.config)
StoreStatus(n, status) ==
    /\ MayStoreStatus(n)
    /\ device' = [device EXCEPT !.config.status[n] = status]
    /\ live' = IF device.enabled THEN SetStatus(n, status) ELSE live
    /\ UNCHANGED <<references, held>>

StoreRequestedMode(n, mode) ==
    /\ Configured /\ n \in ConnectorsOf(device.config)
    /\ device' = [device EXCEPT !.config.modes[n] = mode]
    /\ live' = IF device.enabled THEN SetRequestedMode(n, mode) ELSE live
    /\ UNCHANGED <<references, held>>

MayEnable == Open /\ IsValid(device.config)
MayDisable == Configured /\ device.enabled

StoreEnabled ==
    /\ MayEnable
    /\ CreateDevice
    /\ device' = [device EXCEPT !.enabled = TRUE]

StoreDisabled ==
    /\ MayDisable
    /\ DestroyDevice(0)
    /\ device' = [device EXCEPT !.enabled = FALSE]

ConfigfsInit ==
    /\ device = NoDevice /\ live = NoDevice
    /\ references = [a \in Addresses |-> 0] /\ held = [a \in Addresses |-> 0]

ChangePlane(p) ==
    \/ MakePlane(p) \/ ReleasePlane(p)
    \/ \E type \in PlaneTypes : StoreType(p, type)
    \/ \E c \in Crtcs : LinkPlane(p, c) \/ UnlinkPlane(p, c)
ChangeEncoder(e) ==
    \/ MakeEncoder(e) \/ ReleaseEncoder(e)
    \/ \E c \in Crtcs : LinkEncoder(e, c) \/ UnlinkEncoder(e, c)
ChangeConnector(n) ==
    \/ MakeConnector(n) \/ ReleaseConnector(n)
    \/ \E e \in Encoders : LinkConnector(n, e) \/ UnlinkConnector(n, e)
    \/ \E status \in Statuses : StoreStatus(n, status)
    \/ \E mode \in Modes : StoreRequestedMode(n, mode)

\* Root does what configfs lets it do, in any order.
ConfigfsNext ==
    \/ MakeDevice \/ ReleaseDevice \/ StoreEnabled \/ StoreDisabled
    \/ \E a \in Addresses : LastClose(a)
    \/ \E p \in Planes : ChangePlane(p)
    \/ \E c \in Crtcs : MakeCrtc(c) \/ ReleaseCrtc(c)
    \/ \E e \in Encoders : ChangeEncoder(e)
    \/ \E n \in Connectors : ChangeConnector(n)

ConfigfsSpec == ConfigfsInit /\ [][ConfigfsNext]_configfsVars

-----------------------------------------------------------------------------
\* Properties

\* A probe reports what the attributes of the connector say: as long as the device is enabled
\* every connector directory has a live connector to write through to (vkms_configfs.c:538-564,
\* 599-620), whatever was removed from the configuration since, which has its status, prefers
\* the requested mode to all others and offers no rate out of bounds; and a device that is not
\* enabled has none.
ItemsWriteThrough ==
    /\ (Configured /\ device.enabled) <=> live # NoDevice
    /\ live # NoDevice =>
        \A n \in ConnectorsOf(device.config) :
            /\ n \in DOMAIN live.connectors
            /\ Detect(n) = device.config.status[n]
            /\ IF device.config.modes[n] = NoMode
               THEN \A mode \in GetModes(n).preferred : mode.size = UsualSize
               ELSE GetModes(n).preferred = {device.config.modes[n]}
            /\ GetModes(n).preferred # {} /\ GetModes(n).preferred \subseteq GetModes(n).modes
            /\ \A mode \in GetModes(n).modes : ValidMode(mode)

\* What is_valid accepts can light up: every connector of a DRM device can be routed to a
\* CRTC, and each CRTC has its one primary plane (vkms_output.c:33-37 uses it unchecked); so
\* does each default device of the module.  A CRTC that no connector can be routed to is
\* accepted: is_valid (vkms_config.c:245-309) wants an encoder for it, not a connector.
OutputsRoutable ==
    /\ live # NoDevice =>
        /\ \A n \in DOMAIN live.connectors : \E c \in DOMAIN live.primary : <<n, c>> \in live.routes
        /\ \A c \in DOMAIN live.primary : Cardinality(live.primary[c]) = 1
    /\ \A cursor \in BOOLEAN, overlays \in {0, 8} : IsValid(DefaultConfig(cursor, overlays))

\* No link of a configuration names an item that is gone.
LinksResolve ==
    Configured =>
        /\ device.config.planeCrtcs \subseteq PlanesOf(device.config) \X device.config.crtcs
        /\ device.config.encoderCrtcs \subseteq device.config.encoders \X device.config.crtcs
        /\ device.config.connectorEncoders
              \subseteq ConnectorsOf(device.config) \X device.config.encoders

\* Every reference to a configuration is accounted for: by its directory, by the DRM device
\* made of it, and by those that clients keep open after they were unplugged.
ReferencesCounted ==
    \A a \in Addresses :
        LET uses == Configured /\ device.address = a
        IN  references[a] = held[a] + (IF uses THEN 1 ELSE 0)
                                    + (IF uses /\ live # NoDevice THEN 1 ELSE 0)

\* A configuration is sound in any order of root's steps: it lives as long as the directory
\* or a DRM device made of it, which clients may keep open after it was unplugged while root
\* makes the next configuration, and no longer; its links resolve, and a device made of it has
\* usable outputs.
ConfigurationSound ==
    /\ ReferencesCounted
    /\ LinksResolve
    /\ OutputsRoutable
    /\ ItemsWriteThrough
=============================================================================
