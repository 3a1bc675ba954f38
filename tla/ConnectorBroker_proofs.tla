------------------------ MODULE ConnectorBroker_proofs ------------------------
(***************************************************************************)
(* What a client of the display pool was told stays true, an output has an *)
(* owner, and only the owner or root changes it: for any number of         *)
(* outputs, users and broker instances, with any requests that time out    *)
(* and any processes that are killed.                                      *)
(*                                                                         *)
(* An instance that has the lock of an output is the only one to change    *)
(* the lease and the status of it, so what it has seen of them stays true  *)
(* until it ends.  A start hands over the whole pool and no promises of an *)
(* earlier one; while the service is active nothing else touches configfs. *)
(*                                                                         *)
(* A job that meets no fault succeeds, whatever the jobs before it left    *)
(* behind.                                                                 *)
(***************************************************************************)
EXTENDS ConnectorBroker, FiniteSetTheorems, SequenceTheorems, TLAPS

-----------------------------------------------------------------------------
(* The configuration (VkmsConfigfs).  It is sound for any number of planes,  *)
(* CRTCs, encoders, connectors and modes, and in any order of what root does *)
(* to the directories and links.                                             *)
(*                                                                           *)
(* Items and links are added only while the device is not enabled, so all    *)
(* that happens to the configuration of an enabled device is that items and  *)
(* links go, and that statuses and modes are written: those go to the live   *)
(* connector as well.  A DRM device is made of a configuration that was      *)
(* valid and never changes its routes and planes.                            *)

\* The links of a configuration are between its items, and each connector has a mode.
Sound(cfg) ==
    /\ cfg \in Configs
    /\ DOMAIN cfg.modes = DOMAIN cfg.status
    /\ cfg.planeCrtcs \subseteq (DOMAIN cfg.types) \X cfg.crtcs
    /\ cfg.encoderCrtcs \subseteq cfg.encoders \X cfg.crtcs
    /\ cfg.connectorEncoders \subseteq (DOMAIN cfg.status) \X cfg.encoders

\* Every connector of the device can be routed, every CRTC has its primary plane.
Usable(dev) ==
    /\ dev \in Live
    /\ \A n \in DOMAIN dev.connectors : \E c \in DOMAIN dev.primary : <<n, c>> \in dev.routes
    /\ \A c \in DOMAIN dev.primary : Cardinality(dev.primary[c]) = 1

\* The device has the connectors of the configuration as they are.
Mirrors(dev, cfg) ==
    \A n \in DOMAIN cfg.status :
        /\ n \in DOMAIN dev.connectors
        /\ dev.connectors[n].status = cfg.status[n]
        /\ dev.connectors[n].requested = cfg.modes[n]

\* The references to each configuration are those of its uses.
Counted ==
    /\ held \in [Addresses -> Nat] /\ references \in [Addresses -> Nat]
    /\ ReferencesCounted

Inv ==
    /\ Configured => device \in Devices /\ Sound(device.config)
    /\ live # NoDevice => Usable(live)
    /\ Counted
    /\ Configured /\ device.enabled <=> live # NoDevice
    /\ live # NoDevice => Mirrors(live, device.config)

-----------------------------------------------------------------------------
(* Functions on some of the names.                                         *)

\* What a function on some of the names is.
LEMMA PartialFacts ==
  ASSUME NEW S, NEW T, NEW f
  PROVE  f \in PartialFunctions(S, T) <=>
             /\ DOMAIN f \subseteq S
             /\ f = [x \in DOMAIN f |-> f[x]]
             /\ \A x \in DOMAIN f : f[x] \in T
BY DEF PartialFunctions

\* A value more, or another one, leaves it one.
LEMMA PutFacts ==
  ASSUME NEW S, NEW T, NEW f \in PartialFunctions(S, T), NEW x \in S, NEW v \in T,
         NEW g, g = Put(f, x, v)
  PROVE  g \in PartialFunctions(S, T)
<1>1. DOMAIN f \subseteq S /\ \A y \in DOMAIN f : f[y] \in T
  BY PartialFacts
<1> QED
  BY <1>1, PartialFacts DEF Put

\* It is defined at one name more.
LEMMA PutDomain ==
  ASSUME NEW f, NEW x, NEW v, NEW g, g = Put(f, x, v)
  PROVE  DOMAIN g = DOMAIN f \cup {x}
BY DEF Put

\* So does what is removed; the rest has not changed.
LEMMA RestrictFacts ==
  ASSUME NEW S, NEW T, NEW f \in PartialFunctions(S, T), NEW D, D \subseteq DOMAIN f
  PROVE  /\ Restrict(f, D) \in PartialFunctions(S, T)
         /\ DOMAIN Restrict(f, D) = D
         /\ \A x \in D : Restrict(f, D)[x] = f[x]
<1>1. DOMAIN f \subseteq S /\ \A y \in DOMAIN f : f[y] \in T
  BY PartialFacts
<1> QED
  BY <1>1, PartialFacts DEF Restrict

\* So does a value that replaces another; the rest has not changed.
LEMMA ChangeFacts ==
  ASSUME NEW S, NEW T, NEW f \in PartialFunctions(S, T), NEW x \in DOMAIN f, NEW v \in T
  PROVE  /\ [f EXCEPT ![x] = v] \in PartialFunctions(S, T)
         /\ DOMAIN [f EXCEPT ![x] = v] = DOMAIN f
         /\ \A y \in DOMAIN f : [f EXCEPT ![x] = v][y] = IF y = x THEN v ELSE f[y]
<1>1. /\ DOMAIN f \subseteq S /\ f = [y \in DOMAIN f |-> f[y]]
      /\ \A y \in DOMAIN f : f[y] \in T
  BY PartialFacts
<1>2. PICK g : g = [f EXCEPT ![x] = v]
  OBVIOUS
<1>3. DOMAIN g = DOMAIN f /\ g = [y \in DOMAIN g |-> g[y]]
      /\ \A y \in DOMAIN f : g[y] = IF y = x THEN v ELSE f[y]
  BY <1>1, <1>2
<1>4. g \in PartialFunctions(S, T)
  BY <1>1, <1>3, PartialFacts
<1> QED
  BY <1>2, <1>3, <1>4

-----------------------------------------------------------------------------
(* The operations of vkms_config.c keep a configuration sound.             *)

\* The connectors that are left in the configuration have not changed.
Trims(new, cfg) ==
    /\ DOMAIN new.status \subseteq DOMAIN cfg.status
    /\ \A n \in DOMAIN new.status : new.status[n] = cfg.status[n] /\ new.modes[n] = cfg.modes[n]

\* A new plane has no links yet (vkms_config_create_plane).
LEMMA PlaneCreated ==
  ASSUME NEW cfg, Sound(cfg), NEW p \in Planes
  PROVE  Sound(CreatePlane(cfg, p))
<1>1. PICK f : f = Put(cfg.types, p, "overlay")
  OBVIOUS
<1>2. f \in PartialFunctions(Planes, PlaneTypes) /\ DOMAIN f = DOMAIN cfg.types \cup {p}
  <2>1. cfg.types \in PartialFunctions(Planes, PlaneTypes) /\ "overlay" \in PlaneTypes
    BY DEF Sound, Configs, PlaneTypes
  <2> QED
    BY <1>1, <2>1, p \in Planes, PutFacts, PutDomain
<1>3. PICK new : new = [cfg EXCEPT !.types = f]
  OBVIOUS
<1>4. new \in Configs /\ new.types = f
      /\ new.crtcs = cfg.crtcs /\ new.encoders = cfg.encoders /\ new.status = cfg.status
      /\ new.modes = cfg.modes /\ new.planeCrtcs = cfg.planeCrtcs
      /\ new.encoderCrtcs = cfg.encoderCrtcs /\ new.connectorEncoders = cfg.connectorEncoders
  BY <1>2, <1>3 DEF Sound, Configs
<1>5. CreatePlane(cfg, p) = new
  BY <1>1, <1>3 DEF CreatePlane
<1>6. Sound(new)
  BY <1>2, <1>4 DEF Sound
<1> QED
  BY <1>5, <1>6

\* A plane goes with its links (vkms_config_destroy_plane).
LEMMA PlaneDestroyed ==
  ASSUME NEW cfg, Sound(cfg), NEW p
  PROVE  Sound(DestroyPlane(cfg, p)) /\ Trims(DestroyPlane(cfg, p), cfg)
<1>1. PICK f : f = Restrict(cfg.types, PlanesOf(cfg) \ {p})
  OBVIOUS
<1>2. f \in PartialFunctions(Planes, PlaneTypes) /\ DOMAIN f = DOMAIN cfg.types \ {p}
  BY <1>1, RestrictFacts DEF Sound, Configs, PlanesOf
<1>3. PICK links : links = NotFrom(cfg.planeCrtcs, p)
  OBVIOUS
<1>4. links \subseteq cfg.planeCrtcs /\ \A link \in links : link[1] # p
  BY <1>3 DEF NotFrom
<1>5. links \subseteq (DOMAIN cfg.types \ {p}) \X cfg.crtcs
  BY <1>4 DEF Sound
<1>6. PICK new : new = [cfg EXCEPT !.types = f, !.planeCrtcs = links]
  OBVIOUS
<1>7. new \in Configs /\ new.types = f /\ new.planeCrtcs = links
      /\ new.crtcs = cfg.crtcs /\ new.encoders = cfg.encoders /\ new.status = cfg.status
      /\ new.modes = cfg.modes /\ new.encoderCrtcs = cfg.encoderCrtcs
      /\ new.connectorEncoders = cfg.connectorEncoders
  BY <1>2, <1>4, <1>6 DEF Sound, Configs
<1>8. DestroyPlane(cfg, p) = new
  BY <1>1, <1>3, <1>6 DEF DestroyPlane
<1>9. Sound(new)
  BY <1>2, <1>5, <1>7 DEF Sound
<1>10. Trims(new, cfg)
  BY <1>7 DEF Trims
<1> QED
  BY <1>8, <1>9, <1>10

\* A plane and a CRTC that exist are linked (vkms_config_plane_attach_crtc).
LEMMA PlaneAttached ==
  ASSUME NEW cfg, Sound(cfg), NEW p \in DOMAIN cfg.types, NEW c \in cfg.crtcs
  PROVE  Sound(AttachPlane(cfg, p, c))
<1>1. PICK links : links = cfg.planeCrtcs \cup {<<p, c>>}
  OBVIOUS
<1>2. links \subseteq (DOMAIN cfg.types) \X cfg.crtcs /\ links \subseteq Planes \X Crtcs
  <2>1. DOMAIN cfg.types \subseteq Planes /\ cfg.crtcs \subseteq Crtcs
    BY PartialFacts DEF Sound, Configs
  <2>2. PICK link \in (DOMAIN cfg.types) \X cfg.crtcs : link = <<p, c>>
    OBVIOUS
  <2>3. links = cfg.planeCrtcs \cup {link}
    BY <1>1, <2>2
  <2>4. links \subseteq (DOMAIN cfg.types) \X cfg.crtcs
    BY <2>3 DEF Sound
  <2> QED
    BY <2>1, <2>4
<1>3. PICK new : new = [cfg EXCEPT !.planeCrtcs = links]
  OBVIOUS
<1>4. new \in Configs /\ new.planeCrtcs = links
      /\ new.types = cfg.types /\ new.crtcs = cfg.crtcs /\ new.encoders = cfg.encoders
      /\ new.status = cfg.status
      /\ new.modes = cfg.modes /\ new.encoderCrtcs = cfg.encoderCrtcs
      /\ new.connectorEncoders = cfg.connectorEncoders
  BY <1>2, <1>3 DEF Sound, Configs
<1>5. AttachPlane(cfg, p, c) = new
  BY <1>1, <1>3 DEF AttachPlane
<1>6. Sound(new)
  BY <1>2, <1>4 DEF Sound
<1> QED
  BY <1>5, <1>6

\* A link of a plane is removed (vkms_config_plane_detach_crtc).
LEMMA PlaneDetached ==
  ASSUME NEW cfg, Sound(cfg), NEW p, NEW c
  PROVE  Sound(DetachPlane(cfg, p, c)) /\ Trims(DetachPlane(cfg, p, c), cfg)
<1>1. PICK links : links = cfg.planeCrtcs \ {<<p, c>>}
  OBVIOUS
<1>2. links \subseteq cfg.planeCrtcs
  BY <1>1
<1>3. PICK new : new = [cfg EXCEPT !.planeCrtcs = links]
  OBVIOUS
<1>4. new \in Configs /\ new.planeCrtcs = links
      /\ new.types = cfg.types /\ new.crtcs = cfg.crtcs /\ new.encoders = cfg.encoders
      /\ new.status = cfg.status
      /\ new.modes = cfg.modes /\ new.encoderCrtcs = cfg.encoderCrtcs
      /\ new.connectorEncoders = cfg.connectorEncoders
  BY <1>2, <1>3 DEF Sound, Configs
<1>5. DetachPlane(cfg, p, c) = new
  BY <1>1, <1>3 DEF DetachPlane
<1>6. Sound(new)
  BY <1>2, <1>4 DEF Sound
<1>7. Trims(new, cfg)
  BY <1>4 DEF Trims
<1> QED
  BY <1>5, <1>6, <1>7

\* An encoder and a CRTC that exist are linked (vkms_config_encoder_attach_crtc).
LEMMA EncoderAttached ==
  ASSUME NEW cfg, Sound(cfg), NEW e \in cfg.encoders, NEW c \in cfg.crtcs
  PROVE  Sound(AttachEncoder(cfg, e, c))
<1>1. PICK links : links = cfg.encoderCrtcs \cup {<<e, c>>}
  OBVIOUS
<1>2. links \subseteq cfg.encoders \X cfg.crtcs /\ links \subseteq Encoders \X Crtcs
  <2>1. cfg.encoders \subseteq Encoders /\ cfg.crtcs \subseteq Crtcs
    BY PartialFacts DEF Sound, Configs
  <2>2. PICK link \in cfg.encoders \X cfg.crtcs : link = <<e, c>>
    OBVIOUS
  <2>3. links = cfg.encoderCrtcs \cup {link}
    BY <1>1, <2>2
  <2>4. links \subseteq cfg.encoders \X cfg.crtcs
    BY <2>3 DEF Sound
  <2> QED
    BY <2>1, <2>4
<1>3. PICK new : new = [cfg EXCEPT !.encoderCrtcs = links]
  OBVIOUS
<1>4. new \in Configs /\ new.encoderCrtcs = links
      /\ new.types = cfg.types /\ new.crtcs = cfg.crtcs /\ new.encoders = cfg.encoders
      /\ new.status = cfg.status
      /\ new.modes = cfg.modes /\ new.planeCrtcs = cfg.planeCrtcs
      /\ new.connectorEncoders = cfg.connectorEncoders
  BY <1>2, <1>3 DEF Sound, Configs
<1>5. AttachEncoder(cfg, e, c) = new
  BY <1>1, <1>3 DEF AttachEncoder
<1>6. Sound(new)
  BY <1>2, <1>4 DEF Sound
<1> QED
  BY <1>5, <1>6

\* A link of an encoder is removed (vkms_config_encoder_detach_crtc).
LEMMA EncoderDetached ==
  ASSUME NEW cfg, Sound(cfg), NEW e, NEW c
  PROVE  Sound(DetachEncoder(cfg, e, c)) /\ Trims(DetachEncoder(cfg, e, c), cfg)
<1>1. PICK links : links = cfg.encoderCrtcs \ {<<e, c>>}
  OBVIOUS
<1>2. links \subseteq cfg.encoderCrtcs
  BY <1>1
<1>3. PICK new : new = [cfg EXCEPT !.encoderCrtcs = links]
  OBVIOUS
<1>4. new \in Configs /\ new.encoderCrtcs = links
      /\ new.types = cfg.types /\ new.crtcs = cfg.crtcs /\ new.encoders = cfg.encoders
      /\ new.status = cfg.status
      /\ new.modes = cfg.modes /\ new.planeCrtcs = cfg.planeCrtcs
      /\ new.connectorEncoders = cfg.connectorEncoders
  BY <1>2, <1>3 DEF Sound, Configs
<1>5. DetachEncoder(cfg, e, c) = new
  BY <1>1, <1>3 DEF DetachEncoder
<1>6. Sound(new)
  BY <1>2, <1>4 DEF Sound
<1>7. Trims(new, cfg)
  BY <1>4 DEF Trims
<1> QED
  BY <1>5, <1>6, <1>7

\* A connector and an encoder that exist are linked (vkms_config_connector_attach_encoder).
LEMMA ConnectorAttached ==
  ASSUME NEW cfg, Sound(cfg), NEW n \in DOMAIN cfg.status, NEW e \in cfg.encoders
  PROVE  Sound(AttachConnector(cfg, n, e))
<1>1. PICK links : links = cfg.connectorEncoders \cup {<<n, e>>}
  OBVIOUS
<1>2. links \subseteq (DOMAIN cfg.status) \X cfg.encoders /\ links \subseteq Connectors \X Encoders
  <2>1. DOMAIN cfg.status \subseteq Connectors /\ cfg.encoders \subseteq Encoders
    BY PartialFacts DEF Sound, Configs
  <2>2. PICK link \in (DOMAIN cfg.status) \X cfg.encoders : link = <<n, e>>
    OBVIOUS
  <2>3. links = cfg.connectorEncoders \cup {link}
    BY <1>1, <2>2
  <2>4. links \subseteq (DOMAIN cfg.status) \X cfg.encoders
    BY <2>3 DEF Sound
  <2> QED
    BY <2>1, <2>4
<1>3. PICK new : new = [cfg EXCEPT !.connectorEncoders = links]
  OBVIOUS
<1>4. new \in Configs /\ new.connectorEncoders = links
      /\ new.types = cfg.types /\ new.crtcs = cfg.crtcs /\ new.encoders = cfg.encoders
      /\ new.status = cfg.status
      /\ new.modes = cfg.modes /\ new.planeCrtcs = cfg.planeCrtcs
      /\ new.encoderCrtcs = cfg.encoderCrtcs
  BY <1>2, <1>3 DEF Sound, Configs
<1>5. AttachConnector(cfg, n, e) = new
  BY <1>1, <1>3 DEF AttachConnector
<1>6. Sound(new)
  BY <1>2, <1>4 DEF Sound
<1> QED
  BY <1>5, <1>6

\* A link of a connector is removed (vkms_config_connector_detach_encoder).
LEMMA ConnectorDetached ==
  ASSUME NEW cfg, Sound(cfg), NEW n, NEW e
  PROVE  Sound(DetachConnector(cfg, n, e)) /\ Trims(DetachConnector(cfg, n, e), cfg)
<1>1. PICK links : links = cfg.connectorEncoders \ {<<n, e>>}
  OBVIOUS
<1>2. links \subseteq cfg.connectorEncoders
  BY <1>1
<1>3. PICK new : new = [cfg EXCEPT !.connectorEncoders = links]
  OBVIOUS
<1>4. new \in Configs /\ new.connectorEncoders = links
      /\ new.types = cfg.types /\ new.crtcs = cfg.crtcs /\ new.encoders = cfg.encoders
      /\ new.status = cfg.status
      /\ new.modes = cfg.modes /\ new.planeCrtcs = cfg.planeCrtcs
      /\ new.encoderCrtcs = cfg.encoderCrtcs
  BY <1>2, <1>3 DEF Sound, Configs
<1>5. DetachConnector(cfg, n, e) = new
  BY <1>1, <1>3 DEF DetachConnector
<1>6. Sound(new)
  BY <1>2, <1>4 DEF Sound
<1>7. Trims(new, cfg)
  BY <1>4 DEF Trims
<1> QED
  BY <1>5, <1>6, <1>7

\* A new CRTC has no links yet (vkms_config_create_crtc).
LEMMA CrtcCreated ==
  ASSUME NEW cfg, Sound(cfg), NEW c \in Crtcs
  PROVE  Sound(CreateCrtc(cfg, c))
<1>1. PICK links : links = cfg.crtcs \cup {c}
  OBVIOUS
<1>2. links \subseteq Crtcs /\ cfg.crtcs \subseteq links
  BY <1>1 DEF Sound, Configs
<1>3. PICK new : new = [cfg EXCEPT !.crtcs = links]
  OBVIOUS
<1>4. new \in Configs /\ new.crtcs = links
      /\ new.types = cfg.types /\ new.encoders = cfg.encoders /\ new.status = cfg.status
      /\ new.modes = cfg.modes
      /\ new.planeCrtcs = cfg.planeCrtcs /\ new.encoderCrtcs = cfg.encoderCrtcs
      /\ new.connectorEncoders = cfg.connectorEncoders
  BY <1>2, <1>3 DEF Sound, Configs
<1>5. CreateCrtc(cfg, c) = new
  BY <1>1, <1>3 DEF CreateCrtc
<1>6. Sound(new)
  BY <1>2, <1>4 DEF Sound
<1> QED
  BY <1>5, <1>6

\* A new encoder has no links yet (vkms_config_create_encoder).
LEMMA EncoderCreated ==
  ASSUME NEW cfg, Sound(cfg), NEW e \in Encoders
  PROVE  Sound(CreateEncoder(cfg, e))
<1>1. PICK links : links = cfg.encoders \cup {e}
  OBVIOUS
<1>2. links \subseteq Encoders /\ cfg.encoders \subseteq links
  BY <1>1 DEF Sound, Configs
<1>3. PICK new : new = [cfg EXCEPT !.encoders = links]
  OBVIOUS
<1>4. new \in Configs /\ new.encoders = links
      /\ new.types = cfg.types /\ new.crtcs = cfg.crtcs /\ new.status = cfg.status
      /\ new.modes = cfg.modes
      /\ new.planeCrtcs = cfg.planeCrtcs /\ new.encoderCrtcs = cfg.encoderCrtcs
      /\ new.connectorEncoders = cfg.connectorEncoders
  BY <1>2, <1>3 DEF Sound, Configs
<1>5. CreateEncoder(cfg, e) = new
  BY <1>1, <1>3 DEF CreateEncoder
<1>6. Sound(new)
  BY <1>2, <1>4 DEF Sound
<1> QED
  BY <1>5, <1>6

\* A CRTC goes with the links of planes and encoders to it (vkms_config_destroy_crtc).
LEMMA CrtcDestroyed ==
  ASSUME NEW cfg, Sound(cfg), NEW c
  PROVE  Sound(DestroyCrtc(cfg, c)) /\ Trims(DestroyCrtc(cfg, c), cfg)
<1>1. PICK left : left = cfg.crtcs \ {c}
  OBVIOUS
<1>2. PICK first : first = NotTo(cfg.planeCrtcs, c)
  OBVIOUS
<1>3. PICK second : second = NotTo(cfg.encoderCrtcs, c)
  OBVIOUS
<1>4. /\ first \subseteq cfg.planeCrtcs /\ \A link \in first : link[2] # c
      /\ second \subseteq cfg.encoderCrtcs /\ \A link \in second : link[2] # c
  BY <1>2, <1>3 DEF NotFrom, NotTo
<1>5. first \subseteq (DOMAIN cfg.types) \X left /\ second \subseteq cfg.encoders \X left
  BY <1>1, <1>4 DEF Sound
<1>6. PICK new : new = [cfg EXCEPT !.crtcs = left, !.planeCrtcs = first, !.encoderCrtcs = second]
  OBVIOUS
<1>7. new \in Configs /\ new.crtcs = left /\ new.planeCrtcs = first /\ new.encoderCrtcs = second
      /\ new.types = cfg.types /\ new.encoders = cfg.encoders /\ new.status = cfg.status
      /\ new.modes = cfg.modes
      /\ new.connectorEncoders = cfg.connectorEncoders
  BY <1>1, <1>4, <1>6 DEF Sound, Configs
<1>8. DestroyCrtc(cfg, c) = new
  BY <1>1, <1>2, <1>3, <1>6 DEF DestroyCrtc
<1>9. Sound(new)
  BY <1>5, <1>7 DEF Sound
<1>10. Trims(new, cfg)
  BY <1>7 DEF Trims
<1> QED
  BY <1>8, <1>9, <1>10

\* An encoder goes with its links and the connectors' to it (vkms_config_destroy_encoder).
LEMMA EncoderDestroyed ==
  ASSUME NEW cfg, Sound(cfg), NEW e
  PROVE  Sound(DestroyEncoder(cfg, e)) /\ Trims(DestroyEncoder(cfg, e), cfg)
<1>1. PICK left : left = cfg.encoders \ {e}
  OBVIOUS
<1>2. PICK first : first = NotFrom(cfg.encoderCrtcs, e)
  OBVIOUS
<1>3. PICK second : second = NotTo(cfg.connectorEncoders, e)
  OBVIOUS
<1>4. /\ first \subseteq cfg.encoderCrtcs /\ \A link \in first : link[1] # e
      /\ second \subseteq cfg.connectorEncoders /\ \A link \in second : link[2] # e
  BY <1>2, <1>3 DEF NotFrom, NotTo
<1>5. first \subseteq left \X cfg.crtcs /\ second \subseteq (DOMAIN cfg.status) \X left
  BY <1>1, <1>4 DEF Sound
<1>6. PICK new : new = [cfg EXCEPT !.encoders = left, !.encoderCrtcs = first, !.connectorEncoders = second]
  OBVIOUS
<1>7. new \in Configs /\ new.encoders = left /\ new.encoderCrtcs = first /\ new.connectorEncoders = second
      /\ new.types = cfg.types /\ new.crtcs = cfg.crtcs /\ new.status = cfg.status
      /\ new.modes = cfg.modes
      /\ new.planeCrtcs = cfg.planeCrtcs
  BY <1>1, <1>4, <1>6 DEF Sound, Configs
<1>8. DestroyEncoder(cfg, e) = new
  BY <1>1, <1>2, <1>3, <1>6 DEF DestroyEncoder
<1>9. Sound(new)
  BY <1>5, <1>7 DEF Sound
<1>10. Trims(new, cfg)
  BY <1>7 DEF Trims
<1> QED
  BY <1>8, <1>9, <1>10

\* A new connector has a status and a mode and no links yet (vkms_config_create_connector).
LEMMA ConnectorCreated ==
  ASSUME NEW cfg, Sound(cfg), NEW n \in Connectors
  PROVE  Sound(CreateConnector(cfg, n))
<1>1. PICK f : f = Put(cfg.status, n, "disconnected")
  OBVIOUS
<1>2. PICK g : g = Put(cfg.modes, n, NoMode)
  OBVIOUS
<1>3. /\ f \in PartialFunctions(Connectors, Statuses) /\ DOMAIN f = DOMAIN cfg.status \cup {n}
      /\ g \in PartialFunctions(Connectors, Modes \cup {NoMode}) /\ DOMAIN g = DOMAIN cfg.modes \cup {n}
  <2>1. cfg.status \in PartialFunctions(Connectors, Statuses) /\ "disconnected" \in Statuses
    BY DEF Sound, Configs, Statuses
  <2>2. cfg.modes \in PartialFunctions(Connectors, Modes \cup {NoMode}) /\ NoMode \in Modes \cup {NoMode}
    BY DEF Sound, Configs
  <2>3. f \in PartialFunctions(Connectors, Statuses) /\ DOMAIN f = DOMAIN cfg.status \cup {n}
    BY <1>1, <2>1, n \in Connectors, PutFacts, PutDomain
  <2>4. g \in PartialFunctions(Connectors, Modes \cup {NoMode}) /\ DOMAIN g = DOMAIN cfg.modes \cup {n}
    BY <1>2, <2>2, n \in Connectors, PutFacts, PutDomain
  <2> QED
    BY <2>3, <2>4
<1>4. PICK new : new = [cfg EXCEPT !.status = f, !.modes = g]
  OBVIOUS
<1>5. new \in Configs /\ new.status = f /\ new.modes = g
      /\ new.types = cfg.types /\ new.crtcs = cfg.crtcs /\ new.encoders = cfg.encoders
      /\ new.planeCrtcs = cfg.planeCrtcs
      /\ new.encoderCrtcs = cfg.encoderCrtcs /\ new.connectorEncoders = cfg.connectorEncoders
  BY <1>3, <1>4 DEF Sound, Configs
<1>6. CreateConnector(cfg, n) = new
  BY <1>1, <1>2, <1>4 DEF CreateConnector
<1>7. Sound(new)
  BY <1>3, <1>5 DEF Sound
<1> QED
  BY <1>6, <1>7

\* A connector goes with its links (vkms_config_destroy_connector).
LEMMA ConnectorDestroyed ==
  ASSUME NEW cfg, Sound(cfg), NEW n
  PROVE  Sound(DestroyConnector(cfg, n)) /\ Trims(DestroyConnector(cfg, n), cfg)
<1>1. PICK f : f = Restrict(cfg.status, ConnectorsOf(cfg) \ {n})
  OBVIOUS
<1>2. PICK g : g = Restrict(cfg.modes, ConnectorsOf(cfg) \ {n})
  OBVIOUS
<1>3. PICK links : links = NotFrom(cfg.connectorEncoders, n)
  OBVIOUS
<1>4. PICK left : left = DOMAIN cfg.status \ {n}
  OBVIOUS
<1>5. /\ f \in PartialFunctions(Connectors, Statuses) /\ DOMAIN f = left
      /\ g \in PartialFunctions(Connectors, Modes \cup {NoMode}) /\ DOMAIN g = left
      /\ \A x \in left : f[x] = cfg.status[x] /\ g[x] = cfg.modes[x]
  <2>1. /\ cfg.status \in PartialFunctions(Connectors, Statuses)
        /\ cfg.modes \in PartialFunctions(Connectors, Modes \cup {NoMode})
        /\ left \subseteq DOMAIN cfg.status /\ left \subseteq DOMAIN cfg.modes
    BY <1>4 DEF Sound, Configs
  <2>2. f = Restrict(cfg.status, left) /\ g = Restrict(cfg.modes, left)
    BY <1>1, <1>2, <1>4 DEF ConnectorsOf
  <2> QED
    BY <2>1, <2>2, RestrictFacts
<1>6. links \subseteq cfg.connectorEncoders /\ \A link \in links : link[1] # n
  BY <1>3 DEF NotFrom
<1>7. links \subseteq left \X cfg.encoders
  BY <1>4, <1>6 DEF Sound
<1>8. PICK new : new = [cfg EXCEPT !.status = f, !.modes = g, !.connectorEncoders = links]
  OBVIOUS
<1>9. new \in Configs /\ new.status = f /\ new.modes = g /\ new.connectorEncoders = links
      /\ new.types = cfg.types /\ new.crtcs = cfg.crtcs /\ new.encoders = cfg.encoders
      /\ new.planeCrtcs = cfg.planeCrtcs
      /\ new.encoderCrtcs = cfg.encoderCrtcs
  BY <1>5, <1>6, <1>8 DEF Sound, Configs
<1>10. DestroyConnector(cfg, n) = new
  BY <1>1, <1>2, <1>3, <1>8 DEF DestroyConnector
<1>11. Sound(new)
  BY <1>5, <1>7, <1>9 DEF Sound
<1>12. Trims(new, cfg)
  BY <1>4, <1>5, <1>9 DEF Trims
<1> QED
  BY <1>10, <1>11, <1>12

\* The type of a plane is written and nothing else changes.
LEMMA TypeStored ==
  ASSUME NEW cfg, Sound(cfg), NEW p \in DOMAIN cfg.types, NEW v \in PlaneTypes
  PROVE  LET new == [cfg EXCEPT !.types[p] = v]
         IN  /\ Sound(new)
             /\ new.crtcs = cfg.crtcs /\ new.encoders = cfg.encoders /\ new.status = cfg.status
             /\ new.modes = cfg.modes
             /\ new.planeCrtcs = cfg.planeCrtcs /\ new.encoderCrtcs = cfg.encoderCrtcs
             /\ new.connectorEncoders = cfg.connectorEncoders
             /\ DOMAIN new.types = DOMAIN cfg.types
             /\ \A y \in DOMAIN cfg.types : new.types[y] = IF y = p THEN v ELSE cfg.types[y]
<1>1. PICK f : f = [cfg.types EXCEPT ![p] = v]
  OBVIOUS
<1>2. /\ f \in PartialFunctions(Planes, PlaneTypes) /\ DOMAIN f = DOMAIN cfg.types
      /\ \A y \in DOMAIN cfg.types : f[y] = IF y = p THEN v ELSE cfg.types[y]
  <2>1. cfg.types \in PartialFunctions(Planes, PlaneTypes)
    BY DEF Sound, Configs
  <2> QED
    BY <1>1, <2>1, ChangeFacts
<1>3. PICK new : new = [cfg EXCEPT !.types = f]
  OBVIOUS
<1>4. new \in Configs /\ new.types = f
      /\ new.crtcs = cfg.crtcs /\ new.encoders = cfg.encoders /\ new.status = cfg.status
      /\ new.modes = cfg.modes
      /\ new.planeCrtcs = cfg.planeCrtcs /\ new.encoderCrtcs = cfg.encoderCrtcs
      /\ new.connectorEncoders = cfg.connectorEncoders
  BY <1>2, <1>3 DEF Sound, Configs
<1>5. [cfg EXCEPT !.types[p] = v] = new
  BY <1>1, <1>3 DEF Sound, Configs
<1>6. Sound(new)
  BY <1>2, <1>4 DEF Sound
<1> QED
  BY <1>2, <1>4, <1>5, <1>6

\* The status of a connector is written and nothing else changes.
LEMMA StatusStored ==
  ASSUME NEW cfg, Sound(cfg), NEW n \in DOMAIN cfg.status, NEW v \in Statuses
  PROVE  LET new == [cfg EXCEPT !.status[n] = v]
         IN  /\ Sound(new)
             /\ new.types = cfg.types /\ new.crtcs = cfg.crtcs /\ new.encoders = cfg.encoders
             /\ new.modes = cfg.modes
             /\ new.planeCrtcs = cfg.planeCrtcs /\ new.encoderCrtcs = cfg.encoderCrtcs
             /\ new.connectorEncoders = cfg.connectorEncoders
             /\ DOMAIN new.status = DOMAIN cfg.status
             /\ \A y \in DOMAIN cfg.status : new.status[y] = IF y = n THEN v ELSE cfg.status[y]
<1>1. PICK f : f = [cfg.status EXCEPT ![n] = v]
  OBVIOUS
<1>2. /\ f \in PartialFunctions(Connectors, Statuses) /\ DOMAIN f = DOMAIN cfg.status
      /\ \A y \in DOMAIN cfg.status : f[y] = IF y = n THEN v ELSE cfg.status[y]
  <2>1. cfg.status \in PartialFunctions(Connectors, Statuses)
    BY DEF Sound, Configs
  <2> QED
    BY <1>1, <2>1, ChangeFacts
<1>3. PICK new : new = [cfg EXCEPT !.status = f]
  OBVIOUS
<1>4. new \in Configs /\ new.status = f
      /\ new.types = cfg.types /\ new.crtcs = cfg.crtcs /\ new.encoders = cfg.encoders
      /\ new.modes = cfg.modes
      /\ new.planeCrtcs = cfg.planeCrtcs /\ new.encoderCrtcs = cfg.encoderCrtcs
      /\ new.connectorEncoders = cfg.connectorEncoders
  BY <1>2, <1>3 DEF Sound, Configs
<1>5. [cfg EXCEPT !.status[n] = v] = new
  BY <1>1, <1>3 DEF Sound, Configs
<1>6. Sound(new)
  BY <1>2, <1>4 DEF Sound
<1> QED
  BY <1>2, <1>4, <1>5, <1>6

\* The requested mode of a connector is written and nothing else changes.
LEMMA ModeStored ==
  ASSUME NEW cfg, Sound(cfg), NEW n \in DOMAIN cfg.modes, NEW v \in Modes \cup {NoMode}
  PROVE  LET new == [cfg EXCEPT !.modes[n] = v]
         IN  /\ Sound(new)
             /\ new.types = cfg.types /\ new.crtcs = cfg.crtcs /\ new.encoders = cfg.encoders
             /\ new.status = cfg.status
             /\ new.planeCrtcs = cfg.planeCrtcs /\ new.encoderCrtcs = cfg.encoderCrtcs
             /\ new.connectorEncoders = cfg.connectorEncoders
             /\ DOMAIN new.modes = DOMAIN cfg.modes
             /\ \A y \in DOMAIN cfg.modes : new.modes[y] = IF y = n THEN v ELSE cfg.modes[y]
<1>1. PICK f : f = [cfg.modes EXCEPT ![n] = v]
  OBVIOUS
<1>2. /\ f \in PartialFunctions(Connectors, Modes \cup {NoMode}) /\ DOMAIN f = DOMAIN cfg.modes
      /\ \A y \in DOMAIN cfg.modes : f[y] = IF y = n THEN v ELSE cfg.modes[y]
  <2>1. cfg.modes \in PartialFunctions(Connectors, Modes \cup {NoMode})
    BY DEF Sound, Configs
  <2> QED
    BY <1>1, <2>1, ChangeFacts
<1>3. PICK new : new = [cfg EXCEPT !.modes = f]
  OBVIOUS
<1>4. new \in Configs /\ new.modes = f
      /\ new.types = cfg.types /\ new.crtcs = cfg.crtcs /\ new.encoders = cfg.encoders
      /\ new.status = cfg.status
      /\ new.planeCrtcs = cfg.planeCrtcs /\ new.encoderCrtcs = cfg.encoderCrtcs
      /\ new.connectorEncoders = cfg.connectorEncoders
  BY <1>2, <1>3 DEF Sound, Configs
<1>5. [cfg EXCEPT !.modes[n] = v] = new
  BY <1>1, <1>3 DEF Sound, Configs
<1>6. Sound(new)
  BY <1>2, <1>4 DEF Sound
<1> QED
  BY <1>2, <1>4, <1>5, <1>6

-----------------------------------------------------------------------------
(* A DRM device made of a configuration, and what is written to it.        *)

\* A device has the connectors of the configuration it is made of.
LEMMA OutputMirrors ==
  ASSUME NEW cfg, Sound(cfg)
  PROVE  OutputInit(cfg) \in Live /\ Mirrors(OutputInit(cfg), cfg)
<1>1. /\ DOMAIN cfg.status \subseteq Connectors /\ DOMAIN cfg.modes = DOMAIN cfg.status
      /\ \A n \in DOMAIN cfg.status : cfg.status[n] \in Statuses /\ cfg.modes[n] \in Modes \cup {NoMode}
      /\ cfg.crtcs \subseteq Crtcs /\ DOMAIN cfg.types \subseteq Planes
  BY PartialFacts DEF Sound, Configs
<1>2. PICK f : f = [n \in DOMAIN cfg.status |->
                       [ConnectorInit(cfg.status[n]) EXCEPT !.requested = cfg.modes[n]]]
  OBVIOUS
<1>3. DOMAIN f = DOMAIN cfg.status
  BY <1>2
<1>4. \A n \in DOMAIN f : /\ f[n] \in [status : Statuses, requested : Modes \cup {NoMode}]
                          /\ f[n].status = cfg.status[n] /\ f[n].requested = cfg.modes[n]
  <2>1. SUFFICES ASSUME NEW n \in DOMAIN f
                 PROVE  /\ f[n] \in [status : Statuses, requested : Modes \cup {NoMode}]
                        /\ f[n].status = cfg.status[n] /\ f[n].requested = cfg.modes[n]
    OBVIOUS
  <2>2. f[n] = [status |-> cfg.status[n], requested |-> cfg.modes[n]]
    BY <1>2, <1>3 DEF ConnectorInit
  <2> QED
    BY <1>1, <1>3, <2>2
<1>5. f \in PartialFunctions(Connectors, [status : Statuses, requested : Modes \cup {NoMode}])
  <2> DEFINE T == [status : Statuses, requested : Modes \cup {NoMode}]
  <2>1. \A n \in DOMAIN f : f[n] \in T
    BY <1>4
  <2>2. DOMAIN f \subseteq Connectors /\ f = [n \in DOMAIN f |-> f[n]]
    BY <1>1, <1>2, <1>3
  <2> HIDE DEF T
  <2>3. f \in PartialFunctions(Connectors, T)
    BY <2>1, <2>2, PartialFacts
  <2> QED
    BY <2>3 DEF T
<1>6. PICK g : g = [c \in cfg.crtcs |-> PlanesOfType(cfg, c, "primary")]
  OBVIOUS
<1>7. g \in PartialFunctions(Crtcs, SUBSET Planes)
  <2> DEFINE T == SUBSET Planes
  <2>1. \A c \in DOMAIN g : g[c] \in T
    BY <1>1, <1>6 DEF PlanesOfType, PlanesOf
  <2>2. DOMAIN g \subseteq Crtcs /\ g = [c \in DOMAIN g |-> g[c]]
    BY <1>1, <1>6
  <2> HIDE DEF T
  <2>3. g \in PartialFunctions(Crtcs, T)
    BY <2>1, <2>2, PartialFacts
  <2> QED
    BY <2>3 DEF T
<1>8. PICK new : new = OutputInit(cfg)
  OBVIOUS
<1>9. new = [connectors |-> f, primary |-> g, routes |-> new.routes] /\ new.routes \subseteq Connectors \X Crtcs
  BY <1>1, <1>2, <1>6, <1>8 DEF OutputInit, ConnectorsOf
<1>10. new \in Live /\ new.connectors = f
  BY <1>5, <1>7, <1>9 DEF Live
<1>11. Mirrors(new, cfg)
  BY <1>3, <1>4, <1>10 DEF Mirrors
<1> QED
  BY <1>8, <1>10, <1>11

\* A device made of a valid configuration can light up.
LEMMA OutputUsable ==
  ASSUME NEW cfg, Sound(cfg), IsValid(cfg)
  PROVE  Usable(OutputInit(cfg))
<1>1. PICK new : new = OutputInit(cfg)
  OBVIOUS
<1>2. new \in Live
  BY <1>1, OutputMirrors
<1>3. /\ DOMAIN new.connectors = DOMAIN cfg.status
      /\ new.primary = [c \in cfg.crtcs |-> PlanesOfType(cfg, c, "primary")]
      /\ \A n \in DOMAIN cfg.status, c \in cfg.crtcs, e \in cfg.encoders :
            <<n, e>> \in cfg.connectorEncoders /\ <<e, c>> \in cfg.encoderCrtcs => <<n, c>> \in new.routes
  BY <1>1 DEF OutputInit, ConnectorsOf
<1>4. ASSUME NEW n \in DOMAIN cfg.status
      PROVE  \E c \in cfg.crtcs : <<n, c>> \in new.routes
  <2>1. PICK link \in cfg.connectorEncoders : link[1] = n
    BY DEF IsValid, AllLinked, ConnectorsOf
  <2>2. link[2] \in cfg.encoders /\ <<n, link[2]>> \in cfg.connectorEncoders
    BY <2>1 DEF Sound
  <2>3. PICK e \in cfg.encoders : e = link[2] /\ <<n, e>> \in cfg.connectorEncoders
    BY <2>2
  <2>4. PICK next \in cfg.encoderCrtcs : next[1] = e
    BY <2>3 DEF IsValid, ValidEncoderPossibleCrtcs, AllLinked
  <2>5. next[2] \in cfg.crtcs /\ <<e, next[2]>> \in cfg.encoderCrtcs
    BY <2>4 DEF Sound
  <2> QED
    BY <1>3, <2>3, <2>5
<1>5. ASSUME NEW c \in cfg.crtcs
      PROVE  Cardinality(new.primary[c]) = 1
  BY <1>3 DEF IsValid, ValidPlanesForCrtc
<1> QED
  BY <1>1, <1>2, <1>3, <1>4, <1>5 DEF Usable

\* A status that is written changes its connector of the device and nothing else.
LEMMA LiveStatusSet ==
  ASSUME NEW dev, Usable(dev), NEW n \in DOMAIN dev.connectors, NEW v \in Statuses
  PROVE  LET new == [dev EXCEPT !.connectors[n].status = v]
         IN  /\ Usable(new)
             /\ DOMAIN new.connectors = DOMAIN dev.connectors
             /\ \A m \in DOMAIN dev.connectors :
                   /\ new.connectors[m].status = IF m = n THEN v ELSE dev.connectors[m].status
                   /\ new.connectors[m].requested = dev.connectors[m].requested
<1> DEFINE T == [status : Statuses, requested : Modes \cup {NoMode}]
<1>1. dev.connectors \in PartialFunctions(Connectors, T)
  BY DEF Usable, Live
<1> HIDE DEF T
<1>2. PICK w : w = [dev.connectors[n] EXCEPT !.status = v]
  OBVIOUS
<1>3. PICK old : old = dev.connectors[n] /\ old \in T
  BY <1>1, PartialFacts
<1>4. w \in T /\ w.status = v /\ w.requested = old.requested
  BY <1>2, <1>3 DEF T
<1>5. PICK f : f = [dev.connectors EXCEPT ![n] = w]
  OBVIOUS
<1>6. /\ f \in PartialFunctions(Connectors, T) /\ DOMAIN f = DOMAIN dev.connectors
      /\ \A m \in DOMAIN dev.connectors : f[m] = IF m = n THEN w ELSE dev.connectors[m]
  BY <1>1, <1>4, <1>5, ChangeFacts
<1>7. PICK new : new = [dev EXCEPT !.connectors = f]
  OBVIOUS
<1>8. new \in Live /\ new.connectors = f /\ new.primary = dev.primary /\ new.routes = dev.routes
  BY <1>6, <1>7 DEF Usable, Live, T
<1>9. [dev EXCEPT !.connectors[n].status = v] = new
  BY <1>2, <1>5, <1>7
<1>10. Usable(new)
  BY <1>6, <1>8 DEF Usable
<1> QED
  BY <1>3, <1>4, <1>6, <1>8, <1>9, <1>10

\* So does a requested mode.
LEMMA LiveModeSet ==
  ASSUME NEW dev, Usable(dev), NEW n \in DOMAIN dev.connectors, NEW v \in Modes \cup {NoMode}
  PROVE  LET new == [dev EXCEPT !.connectors[n].requested = v]
         IN  /\ Usable(new)
             /\ DOMAIN new.connectors = DOMAIN dev.connectors
             /\ \A m \in DOMAIN dev.connectors :
                   /\ new.connectors[m].requested = IF m = n THEN v ELSE dev.connectors[m].requested
                   /\ new.connectors[m].status = dev.connectors[m].status
<1> DEFINE T == [status : Statuses, requested : Modes \cup {NoMode}]
<1>1. dev.connectors \in PartialFunctions(Connectors, T)
  BY DEF Usable, Live
<1> HIDE DEF T
<1>2. PICK w : w = [dev.connectors[n] EXCEPT !.requested = v]
  OBVIOUS
<1>3. PICK old : old = dev.connectors[n] /\ old \in T
  BY <1>1, PartialFacts
<1>4. w \in T /\ w.requested = v /\ w.status = old.status
  BY <1>2, <1>3 DEF T
<1>5. PICK f : f = [dev.connectors EXCEPT ![n] = w]
  OBVIOUS
<1>6. /\ f \in PartialFunctions(Connectors, T) /\ DOMAIN f = DOMAIN dev.connectors
      /\ \A m \in DOMAIN dev.connectors : f[m] = IF m = n THEN w ELSE dev.connectors[m]
  BY <1>1, <1>4, <1>5, ChangeFacts
<1>7. PICK new : new = [dev EXCEPT !.connectors = f]
  OBVIOUS
<1>8. new \in Live /\ new.connectors = f /\ new.primary = dev.primary /\ new.routes = dev.routes
  BY <1>6, <1>7 DEF Usable, Live, T
<1>9. [dev EXCEPT !.connectors[n].requested = v] = new
  BY <1>2, <1>5, <1>7 DEF Usable, Live
<1>10. Usable(new)
  BY <1>6, <1>8 DEF Usable
<1> QED
  BY <1>3, <1>4, <1>6, <1>8, <1>9, <1>10
-----------------------------------------------------------------------------
(* The callbacks.                                                          *)

\* The references stay counted when none comes and none goes.
LEMMA CountedSame ==
  ASSUME Counted, references' = references, held' = held, Configured' <=> Configured,
         Configured => device'.address = device.address,
         live' # NoDevice <=> live # NoDevice
  PROVE  Counted'
<1>1. ASSUME NEW a
      PROVE  /\ (Configured /\ device.address = a)' <=> Configured /\ device.address = a
             /\ (Configured /\ device.address = a /\ live # NoDevice)'
                    <=> Configured /\ device.address = a /\ live # NoDevice
  OBVIOUS
<1> QED
  BY <1>1 DEF Counted, ReferencesCounted

\* A callback that leaves the DRM device alone keeps the invariant if the new configuration
\* is sound and the device still has the connectors of it.
LEMMA BecomesKeeps ==
  ASSUME Inv, Configured, NEW cfg, Becomes(cfg), Sound(cfg), live # NoDevice => Mirrors(live, cfg)
  PROVE  Inv'
<1>1. cfg \in Configs /\ device \in Devices
  BY DEF Inv, Sound
<1>2. PICK new : new = [device EXCEPT !.config = cfg]
  OBVIOUS
<1>3. new \in Devices /\ new.config = cfg /\ new.enabled = device.enabled
      /\ new.address = device.address
  BY <1>1, <1>2 DEF Devices
<1>4. device' = new /\ new # NoDevice /\ live' = live /\ references' = references /\ held' = held
  BY <1>2, <1>3, NoDeviceAssumption DEF Becomes
<1>5. Configured'
  BY <1>4 DEF Configured
<1>6. Counted'
  BY <1>3, <1>4, <1>5, CountedSame DEF Inv
<1> QED
  BY <1>3, <1>4, <1>5, <1>6 DEF Inv

\* A device that is not enabled has no DRM device: anything sound may be added to it.
LEMMA AddingKeeps ==
  ASSUME Inv, Open, NEW cfg, Becomes(cfg), Sound(cfg)
  PROVE  Inv'
<1>1. Configured /\ live = NoDevice
  BY DEF Inv, Open
<1> QED
  BY <1>1, BecomesKeeps

\* What is removed from a configuration leaves the DRM device with the connectors of the rest.
LEMMA RemovingKeeps ==
  ASSUME Inv, Configured, NEW old, old = device.config, NEW cfg, Becomes(cfg), Sound(cfg), Trims(cfg, old)
  PROVE  Inv'
<1>1. live # NoDevice => Mirrors(live, cfg)
  BY DEF Inv, Mirrors, Trims
<1> QED
  BY <1>1, BecomesKeeps

\* A new directory.
LEMMA MakesKeep ==
  ASSUME Inv,
         \/ \E p \in Planes : MakePlane(p)
         \/ \E c \in Crtcs : MakeCrtc(c)
         \/ \E e \in Encoders : MakeEncoder(e)
         \/ \E n \in Connectors : MakeConnector(n)
  PROVE  Inv'
<1>1. PICK old : old = device.config
  OBVIOUS
<1>2. Open /\ Sound(old)
  BY <1>1 DEF Inv, Open, MakePlane, MayMakePlane, MakeCrtc, MayMakeCrtc, MakeEncoder,
         MayMakeEncoder, MakeConnector, MayMakeConnector
<1>3. CASE \E p \in Planes : MakePlane(p)
  <2>1. PICK p \in Planes : MakePlane(p)
    BY <1>3
  <2>2. PICK new : new = CreatePlane(old, p)
    OBVIOUS
  <2>3. Sound(new) /\ Becomes(new)
    BY <1>1, <1>2, <2>1, <2>2, PlaneCreated DEF MakePlane, MayMakePlane
  <2> QED
    BY <1>2, <2>3, AddingKeeps
<1>4. CASE \E c \in Crtcs : MakeCrtc(c)
  <2>1. PICK c \in Crtcs : MakeCrtc(c)
    BY <1>4
  <2>2. PICK new : new = CreateCrtc(old, c)
    OBVIOUS
  <2>3. Sound(new) /\ Becomes(new)
    BY <1>1, <1>2, <2>1, <2>2, CrtcCreated DEF MakeCrtc, MayMakeCrtc
  <2> QED
    BY <1>2, <2>3, AddingKeeps
<1>5. CASE \E e \in Encoders : MakeEncoder(e)
  <2>1. PICK e \in Encoders : MakeEncoder(e)
    BY <1>5
  <2>2. PICK new : new = CreateEncoder(old, e)
    OBVIOUS
  <2>3. Sound(new) /\ Becomes(new)
    BY <1>1, <1>2, <2>1, <2>2, EncoderCreated DEF MakeEncoder, MayMakeEncoder
  <2> QED
    BY <1>2, <2>3, AddingKeeps
<1>6. CASE \E n \in Connectors : MakeConnector(n)
  <2>1. PICK n \in Connectors : MakeConnector(n)
    BY <1>6
  <2>2. PICK new : new = CreateConnector(old, n)
    OBVIOUS
  <2>3. Sound(new) /\ Becomes(new)
    BY <1>1, <1>2, <2>1, <2>2, ConnectorCreated DEF MakeConnector, MayMakeConnector
  <2> QED
    BY <1>2, <2>3, AddingKeeps
<1> QED
  BY <1>3, <1>4, <1>5, <1>6

\* A new link, or the type of a plane.
LEMMA LinksKeep ==
  ASSUME Inv,
         \/ \E p \in Planes, type \in PlaneTypes : StoreType(p, type)
         \/ \E p \in Planes, c \in Crtcs : LinkPlane(p, c)
         \/ \E e \in Encoders, c \in Crtcs : LinkEncoder(e, c)
         \/ \E n \in Connectors, e \in Encoders : LinkConnector(n, e)
  PROVE  Inv'
<1>1. PICK old : old = device.config
  OBVIOUS
<1>2. Open /\ Sound(old)
  BY <1>1 DEF Inv, Open, StoreType, MayStoreType, LinkPlane, MayLinkPlane, LinkEncoder,
         MayLinkEncoder, LinkConnector, MayLinkConnector
<1>3. CASE \E p \in Planes, type \in PlaneTypes : StoreType(p, type)
  <2>1. PICK p \in Planes, type \in PlaneTypes : StoreType(p, type)
    BY <1>3
  <2>2. PICK new : new = [old EXCEPT !.types[p] = type]
    OBVIOUS
  <2>3. p \in DOMAIN old.types /\ Becomes(new)
    BY <1>1, <2>1, <2>2 DEF StoreType, MayStoreType, PlanesOf
  <2>4. Sound(new)
    BY <1>2, <2>2, <2>3, TypeStored
  <2> QED
    BY <1>2, <2>3, <2>4, AddingKeeps
<1>4. CASE \E p \in Planes, c \in Crtcs : LinkPlane(p, c)
  <2>1. PICK p \in Planes, c \in Crtcs : LinkPlane(p, c)
    BY <1>4
  <2>2. PICK new : new = AttachPlane(old, p, c)
    OBVIOUS
  <2>3. p \in DOMAIN old.types /\ c \in old.crtcs /\ Becomes(new)
    BY <1>1, <2>1, <2>2 DEF LinkPlane, MayLinkPlane, PlanesOf
  <2>4. Sound(new)
    BY <1>2, <2>2, <2>3, PlaneAttached
  <2> QED
    BY <1>2, <2>3, <2>4, AddingKeeps
<1>5. CASE \E e \in Encoders, c \in Crtcs : LinkEncoder(e, c)
  <2>1. PICK e \in Encoders, c \in Crtcs : LinkEncoder(e, c)
    BY <1>5
  <2>2. PICK new : new = AttachEncoder(old, e, c)
    OBVIOUS
  <2>3. e \in old.encoders /\ c \in old.crtcs /\ Becomes(new)
    BY <1>1, <2>1, <2>2 DEF LinkEncoder, MayLinkEncoder
  <2>4. Sound(new)
    BY <1>2, <2>2, <2>3, EncoderAttached
  <2> QED
    BY <1>2, <2>3, <2>4, AddingKeeps
<1>6. CASE \E n \in Connectors, e \in Encoders : LinkConnector(n, e)
  <2>1. PICK n \in Connectors, e \in Encoders : LinkConnector(n, e)
    BY <1>6
  <2>2. PICK new : new = AttachConnector(old, n, e)
    OBVIOUS
  <2>3. n \in DOMAIN old.status /\ e \in old.encoders /\ Becomes(new)
    BY <1>1, <2>1, <2>2 DEF LinkConnector, MayLinkConnector, ConnectorsOf
  <2>4. Sound(new)
    BY <1>2, <2>2, <2>3, ConnectorAttached
  <2> QED
    BY <1>2, <2>3, <2>4, AddingKeeps
<1> QED
  BY <1>3, <1>4, <1>5, <1>6

\* A link that is removed.
LEMMA UnlinksKeep ==
  ASSUME Inv,
         \/ \E p \in Planes, c \in Crtcs : UnlinkPlane(p, c)
         \/ \E e \in Encoders, c \in Crtcs : UnlinkEncoder(e, c)
         \/ \E n \in Connectors, e \in Encoders : UnlinkConnector(n, e)
  PROVE  Inv'
<1>1. PICK old : old = device.config
  OBVIOUS
<1>2. Configured /\ Sound(old)
  BY <1>1 DEF Inv, UnlinkPlane, MayUnlinkPlane, UnlinkEncoder, MayUnlinkEncoder, UnlinkConnector,
         MayUnlinkConnector
<1>3. CASE \E p \in Planes, c \in Crtcs : UnlinkPlane(p, c)
  <2>1. PICK p \in Planes, c \in Crtcs : UnlinkPlane(p, c)
    BY <1>3
  <2>2. PICK new : new = DetachPlane(old, p, c)
    OBVIOUS
  <2>3. Sound(new) /\ Trims(new, old)
    BY <1>2, <2>2, PlaneDetached
  <2>4. Becomes(new)
    BY <1>1, <2>1, <2>2 DEF UnlinkPlane, MayUnlinkPlane
  <2> QED
    BY <1>1, <1>2, <2>3, <2>4, RemovingKeeps
<1>4. CASE \E e \in Encoders, c \in Crtcs : UnlinkEncoder(e, c)
  <2>1. PICK e \in Encoders, c \in Crtcs : UnlinkEncoder(e, c)
    BY <1>4
  <2>2. PICK new : new = DetachEncoder(old, e, c)
    OBVIOUS
  <2>3. Sound(new) /\ Trims(new, old)
    BY <1>2, <2>2, EncoderDetached
  <2>4. Becomes(new)
    BY <1>1, <2>1, <2>2 DEF UnlinkEncoder, MayUnlinkEncoder
  <2> QED
    BY <1>1, <1>2, <2>3, <2>4, RemovingKeeps
<1>5. CASE \E n \in Connectors, e \in Encoders : UnlinkConnector(n, e)
  <2>1. PICK n \in Connectors, e \in Encoders : UnlinkConnector(n, e)
    BY <1>5
  <2>2. PICK new : new = DetachConnector(old, n, e)
    OBVIOUS
  <2>3. Sound(new) /\ Trims(new, old)
    BY <1>2, <2>2, ConnectorDetached
  <2>4. Becomes(new)
    BY <1>1, <2>1, <2>2 DEF UnlinkConnector, MayUnlinkConnector
  <2> QED
    BY <1>1, <1>2, <2>3, <2>4, RemovingKeeps
<1> QED
  BY <1>3, <1>4, <1>5

\* A directory that is removed.
LEMMA ReleasesKeep ==
  ASSUME Inv,
         \/ \E p \in Planes : ReleasePlane(p)
         \/ \E c \in Crtcs : ReleaseCrtc(c)
         \/ \E e \in Encoders : ReleaseEncoder(e)
         \/ \E n \in Connectors : ReleaseConnector(n)
  PROVE  Inv'
<1>1. PICK old : old = device.config
  OBVIOUS
<1>2. Configured /\ Sound(old)
  BY <1>1 DEF Inv, ReleasePlane, MayReleasePlane, ReleaseCrtc, MayReleaseCrtc, ReleaseEncoder,
         MayReleaseEncoder, ReleaseConnector, MayReleaseConnector
<1>3. CASE \E p \in Planes : ReleasePlane(p)
  <2>1. PICK p \in Planes : ReleasePlane(p)
    BY <1>3
  <2>2. PICK new : new = DestroyPlane(old, p)
    OBVIOUS
  <2>3. Sound(new) /\ Trims(new, old)
    BY <1>2, <2>2, PlaneDestroyed
  <2>4. Becomes(new)
    BY <1>1, <2>1, <2>2 DEF ReleasePlane, MayReleasePlane
  <2> QED
    BY <1>1, <1>2, <2>3, <2>4, RemovingKeeps
<1>4. CASE \E c \in Crtcs : ReleaseCrtc(c)
  <2>1. PICK c \in Crtcs : ReleaseCrtc(c)
    BY <1>4
  <2>2. PICK new : new = DestroyCrtc(old, c)
    OBVIOUS
  <2>3. Sound(new) /\ Trims(new, old)
    BY <1>2, <2>2, CrtcDestroyed
  <2>4. Becomes(new)
    BY <1>1, <2>1, <2>2 DEF ReleaseCrtc, MayReleaseCrtc
  <2> QED
    BY <1>1, <1>2, <2>3, <2>4, RemovingKeeps
<1>5. CASE \E e \in Encoders : ReleaseEncoder(e)
  <2>1. PICK e \in Encoders : ReleaseEncoder(e)
    BY <1>5
  <2>2. PICK new : new = DestroyEncoder(old, e)
    OBVIOUS
  <2>3. Sound(new) /\ Trims(new, old)
    BY <1>2, <2>2, EncoderDestroyed
  <2>4. Becomes(new)
    BY <1>1, <2>1, <2>2 DEF ReleaseEncoder, MayReleaseEncoder
  <2> QED
    BY <1>1, <1>2, <2>3, <2>4, RemovingKeeps
<1>6. CASE \E n \in Connectors : ReleaseConnector(n)
  <2>1. PICK n \in Connectors : ReleaseConnector(n)
    BY <1>6
  <2>2. PICK new : new = DestroyConnector(old, n)
    OBVIOUS
  <2>3. Sound(new) /\ Trims(new, old)
    BY <1>2, <2>2, ConnectorDestroyed
  <2>4. Becomes(new)
    BY <1>1, <2>1, <2>2 DEF ReleaseConnector, MayReleaseConnector
  <2> QED
    BY <1>1, <1>2, <2>3, <2>4, RemovingKeeps
<1> QED
  BY <1>3, <1>4, <1>5, <1>6

\* A status goes to the configuration and to the connector of the DRM device.
LEMMA StatusKeeps ==
  ASSUME Inv, NEW n \in Connectors, NEW v \in Statuses, StoreStatus(n, v)
  PROVE  Inv'
<1>1. PICK old : old = device.config
  OBVIOUS
<1>2. /\ Configured /\ device \in Devices /\ Sound(old) /\ n \in DOMAIN old.status
      /\ references' = references /\ held' = held
  BY <1>1 DEF Inv, StoreStatus, MayStoreStatus, ConnectorsOf
<1>3. PICK new : new = [old EXCEPT !.status[n] = v]
  OBVIOUS
<1>4. /\ Sound(new) /\ new.modes = old.modes /\ DOMAIN new.status = DOMAIN old.status
      /\ \A y \in DOMAIN old.status : new.status[y] = IF y = n THEN v ELSE old.status[y]
  BY <1>2, <1>3, StatusStored
<1>5. PICK dev : dev = [device EXCEPT !.config = new]
  OBVIOUS
<1>6. dev \in Devices /\ dev.config = new /\ dev.enabled = device.enabled
      /\ dev.address = device.address
  BY <1>2, <1>4, <1>5 DEF Devices, Sound
<1>7. device' = dev /\ dev # NoDevice
  <2>1. device' = [device EXCEPT !.config.status[n] = v]
    BY DEF StoreStatus, MayStoreStatus
  <2> QED
    BY <1>1, <1>3, <1>5, <1>6, <2>1, NoDeviceAssumption
<1>8. CASE device.enabled
  <2>1. live # NoDevice /\ Usable(live) /\ Mirrors(live, old)
    BY <1>1, <1>2, <1>8 DEF Inv
  <2>2. n \in DOMAIN live.connectors
    BY <1>2, <2>1 DEF Mirrors
  <2>3. PICK out : out = live
    OBVIOUS
  <2>4. PICK next : next = [out EXCEPT !.connectors[n].status = v]
    OBVIOUS
  <2>5. /\ Usable(next) /\ DOMAIN next.connectors = DOMAIN out.connectors
        /\ \A m \in DOMAIN out.connectors :
              /\ next.connectors[m].status = IF m = n THEN v ELSE out.connectors[m].status
              /\ next.connectors[m].requested = out.connectors[m].requested
    BY <2>1, <2>2, <2>3, <2>4, LiveStatusSet
  <2>6. live' = next /\ next # NoDevice
    BY <1>8, <2>3, <2>4, <2>5, NoDeviceAssumption DEF StoreStatus, MayStoreStatus, SetStatus,
           Usable
  <2>7. Mirrors(next, new)
    BY <1>4, <2>1, <2>3, <2>5 DEF Mirrors
  <2>8. Configured'
    BY <1>7 DEF Configured
  <2>9. Counted'
    BY <1>2, <1>6, <1>7, <2>1, <2>6, <2>8, CountedSame DEF Inv
  <2> QED
    BY <1>2, <1>4, <1>6, <1>7, <1>8, <2>5, <2>6, <2>7, <2>8, <2>9 DEF Inv
<1>9. CASE ~device.enabled
  <2>1. live' = NoDevice /\ live = NoDevice
    BY <1>2, <1>9 DEF StoreStatus, MayStoreStatus, Inv
  <2>2. Configured'
    BY <1>7 DEF Configured
  <2>3. Counted'
    BY <1>2, <1>6, <1>7, <2>1, <2>2, CountedSame DEF Inv
  <2> QED
    BY <1>2, <1>4, <1>6, <1>7, <1>9, <2>1, <2>2, <2>3 DEF Inv
<1> QED
  BY <1>8, <1>9

\* So does a requested mode.
LEMMA ModeKeeps ==
  ASSUME Inv, NEW n \in Connectors, NEW v \in Modes, StoreRequestedMode(n, v)
  PROVE  Inv'
<1>1. PICK old : old = device.config
  OBVIOUS
<1>2. /\ Configured /\ device \in Devices /\ Sound(old) /\ n \in DOMAIN old.status /\ n \in DOMAIN old.modes
      /\ references' = references /\ held' = held /\ v \in Modes \cup {NoMode}
  BY <1>1 DEF Inv, StoreRequestedMode, ConnectorsOf, Sound
<1>3. PICK new : new = [old EXCEPT !.modes[n] = v]
  OBVIOUS
<1>4. /\ Sound(new) /\ new.status = old.status /\ DOMAIN new.modes = DOMAIN old.modes
      /\ \A y \in DOMAIN old.modes : new.modes[y] = IF y = n THEN v ELSE old.modes[y]
  BY <1>2, <1>3, ModeStored
<1>5. PICK dev : dev = [device EXCEPT !.config = new]
  OBVIOUS
<1>6. dev \in Devices /\ dev.config = new /\ dev.enabled = device.enabled
      /\ dev.address = device.address
  BY <1>2, <1>4, <1>5 DEF Devices, Sound
<1>7. device' = dev /\ dev # NoDevice
  <2>1. device' = [device EXCEPT !.config.modes[n] = v]
    BY DEF StoreRequestedMode
  <2> QED
    BY <1>1, <1>3, <1>5, <1>6, <2>1, NoDeviceAssumption
<1>8. CASE device.enabled
  <2>1. live # NoDevice /\ Usable(live) /\ Mirrors(live, old)
    BY <1>1, <1>2, <1>8 DEF Inv
  <2>2. n \in DOMAIN live.connectors
    BY <1>2, <2>1 DEF Mirrors
  <2>3. PICK out : out = live
    OBVIOUS
  <2>4. PICK next : next = [out EXCEPT !.connectors[n].requested = v]
    OBVIOUS
  <2>5. /\ Usable(next) /\ DOMAIN next.connectors = DOMAIN out.connectors
        /\ \A m \in DOMAIN out.connectors :
              /\ next.connectors[m].requested = IF m = n THEN v ELSE out.connectors[m].requested
              /\ next.connectors[m].status = out.connectors[m].status
    BY <1>2, <2>1, <2>2, <2>3, <2>4, LiveModeSet
  <2>6. live' = next /\ next # NoDevice
    BY <1>8, <2>3, <2>4, <2>5, NoDeviceAssumption DEF StoreRequestedMode, SetRequestedMode, Usable
  <2>7. Mirrors(next, new)
    <3>1. DOMAIN old.modes = DOMAIN old.status
      BY <1>2 DEF Sound
    <3> QED
      BY <1>4, <2>1, <2>3, <2>5, <3>1 DEF Mirrors
  <2>8. Configured'
    BY <1>7 DEF Configured
  <2>9. Counted'
    BY <1>2, <1>6, <1>7, <2>1, <2>6, <2>8, CountedSame DEF Inv
  <2> QED
    BY <1>2, <1>4, <1>6, <1>7, <1>8, <2>5, <2>6, <2>7, <2>8, <2>9 DEF Inv
<1>9. CASE ~device.enabled
  <2>1. live' = NoDevice /\ live = NoDevice
    BY <1>2, <1>9 DEF StoreRequestedMode, Inv
  <2>2. Configured'
    BY <1>7 DEF Configured
  <2>3. Counted'
    BY <1>2, <1>6, <1>7, <2>1, <2>2, CountedSame DEF Inv
  <2> QED
    BY <1>2, <1>4, <1>6, <1>7, <1>9, <2>1, <2>2, <2>3 DEF Inv
<1> QED
  BY <1>8, <1>9

\* The directory of the device comes and goes, the DRM device is made and unplugged, and a
\* client closes one that is gone: the references stay counted.
LEMMA DeviceKeeps ==
  ASSUME Inv,
         \/ MakeDevice \/ ReleaseDevice \/ StoreEnabled \/ StoreDisabled
         \/ \E a \in Addresses : LastClose(a)
  PROVE  Inv'
<1> DEFINE Uses(a) == Configured /\ device.address = a
<1>0. /\ held \in [Addresses -> Nat] /\ references \in [Addresses -> Nat]
      /\ \A a \in Addresses :
            references[a] = held[a] + (IF Uses(a) THEN 1 ELSE 0)
                                    + (IF Uses(a) /\ live # NoDevice THEN 1 ELSE 0)
  BY DEF Inv, Counted, ReferencesCounted
<1>1. CASE MakeDevice
  <2>1. ~Configured /\ live = NoDevice /\ live' = NoDevice /\ held' = held
    BY <1>1 DEF MakeDevice, MayMakeDevice, Inv
  <2>2. PICK empty : empty = EmptyConfig
    OBVIOUS
  <2>3. Sound(empty)
    <3>1. DOMAIN << >> = {} /\ << >> = [x \in {} |-> x]
      OBVIOUS
    <3>2. ASSUME NEW S, NEW T
          PROVE  << >> \in PartialFunctions(S, T)
      BY <3>1 DEF PartialFunctions
    <3>3. /\ << >> \in PartialFunctions(Planes, PlaneTypes)
          /\ << >> \in PartialFunctions(Connectors, Statuses)
          /\ << >> \in PartialFunctions(Connectors, Modes \cup {NoMode})
      BY <3>2
    <3> QED
      BY <2>2, <3>1, <3>3 DEF EmptyConfig, Sound, Configs
  <2>4. PICK a \in Addresses :
           /\ references[a] = 0
           /\ device' = [enabled |-> FALSE, config |-> empty, address |-> a]
           /\ references' = [references EXCEPT ![a] = 1]
    BY <1>1, <2>2 DEF MakeDevice
  <2>5. PICK dev : dev = [enabled |-> FALSE, config |-> empty, address |-> a]
    OBVIOUS
  <2>6. dev \in Devices /\ dev.config = empty /\ ~dev.enabled /\ dev.address = a
    BY <2>3, <2>5 DEF Devices, Sound
  <2>7. device' = dev /\ dev # NoDevice
    BY <2>4, <2>5, <2>6, NoDeviceAssumption
  <2>8. Configured' /\ \A b : Uses(b)' <=> b = a
    BY <2>6, <2>7 DEF Configured
  <2>9. \A b \in Addresses : references[b] = held[b]
    <3>1. \A b \in Addresses : ~Uses(b)
      BY <2>1
    <3> HIDE DEF Uses
    <3> QED
      BY <1>0, <3>1
  <2>10. references' \in [Addresses -> Nat]
         /\ \A b \in Addresses : references'[b] = held[b] + (IF b = a THEN 1 ELSE 0)
    BY <1>0, <2>4, <2>9
  <2>11. Counted'
    BY <1>0, <2>1, <2>8, <2>10 DEF Counted, ReferencesCounted
  <2> QED
    BY <2>1, <2>3, <2>6, <2>7, <2>8, <2>11 DEF Inv
<1>2. CASE ReleaseDevice
  <2>1. device' = NoDevice /\ Configured /\ ~Configured' /\ device \in Devices
    BY <1>2 DEF ReleaseDevice, MayReleaseDevice, Configured, Inv
  <2>2. PICK a \in Addresses : a = device.address
    BY <2>1 DEF Devices
  <2>3. \A b : Uses(b) <=> b = a
    BY <2>1, <2>2
  <2>4. live' = NoDevice
    BY <1>2 DEF ReleaseDevice, DestroyDevice, MayReleaseDevice, Inv
  <2>5. /\ held' \in [Addresses -> Nat] /\ references' \in [Addresses -> Nat]
        /\ \A b \in Addresses : references'[b] = held'[b]
    <3>1. CASE device.enabled
      <4>1. live # NoDevice
        BY <2>1, <3>1 DEF Inv
      <4>2. \A b \in Addresses : references[b] = held[b] + (IF b = a THEN 2 ELSE 0)
        <5> HIDE DEF Uses
        <5> QED
          BY <1>0, <2>3, <4>1
      <4>3. \/ references' = [references EXCEPT ![a] = @ - 1 - 1] /\ held' = held
            \/ held' = [held EXCEPT ![a] = @ + 1] /\ references' = [references EXCEPT ![a] = @ - 1]
        BY <1>2, <2>2, <3>1 DEF ReleaseDevice, DestroyDevice
      <4> QED
        BY <1>0, <2>2, <4>2, <4>3
    <3>2. CASE ~device.enabled
      <4>1. live = NoDevice
        BY <2>1, <3>2 DEF Inv
      <4>2. \A b \in Addresses : references[b] = held[b] + (IF b = a THEN 1 ELSE 0)
        <5> HIDE DEF Uses
        <5> QED
          BY <1>0, <2>3, <4>1
      <4>3. references' = [references EXCEPT ![a] = @ - 1] /\ held' = held
        BY <1>2, <2>2, <3>2 DEF ReleaseDevice
      <4> QED
        BY <1>0, <2>2, <4>2, <4>3
    <3> QED
      BY <3>1, <3>2
  <2>6. Counted'
    BY <2>1, <2>5 DEF Counted, ReferencesCounted
  <2> QED
    BY <2>1, <2>4, <2>6 DEF Inv
<1>3. CASE StoreEnabled
  <2>1. PICK cfg : cfg = device.config
    OBVIOUS
  <2>2. Configured /\ device \in Devices /\ Sound(cfg) /\ IsValid(cfg) /\ live = NoDevice
    BY <1>3, <2>1 DEF StoreEnabled, MayEnable, Open, Inv
  <2>3. PICK out : out = OutputInit(cfg)
    OBVIOUS
  <2>4. Usable(out) /\ Mirrors(out, cfg)
    BY <2>2, <2>3, OutputUsable, OutputMirrors
  <2>5. PICK a \in Addresses : a = device.address
    BY <2>2 DEF Devices
  <2>6. /\ live' = out /\ out # NoDevice /\ held' = held
        /\ references' = [references EXCEPT ![a] = @ + 1]
    BY <1>3, <2>1, <2>3, <2>4, <2>5, NoDeviceAssumption DEF StoreEnabled, MayEnable, CreateDevice, Usable
  <2>7. PICK dev : dev = [device EXCEPT !.enabled = TRUE]
    OBVIOUS
  <2>8. dev \in Devices /\ dev.config = cfg /\ dev.enabled /\ dev.address = a
    BY <2>1, <2>2, <2>5, <2>7 DEF Devices
  <2>9. device' = dev /\ dev # NoDevice
    BY <1>3, <2>7, <2>8, NoDeviceAssumption DEF StoreEnabled, MayEnable
  <2>10. Configured' /\ (\A b : Uses(b) <=> b = a) /\ \A b : Uses(b)' <=> b = a
    BY <2>2, <2>5, <2>8, <2>9 DEF Configured
  <2>11. \A b \in Addresses : references[b] = held[b] + (IF b = a THEN 1 ELSE 0)
    <3> HIDE DEF Uses
    <3> QED
      BY <1>0, <2>2, <2>10
  <2>12. references' \in [Addresses -> Nat]
         /\ \A b \in Addresses : references'[b] = held[b] + (IF b = a THEN 2 ELSE 0)
    BY <1>0, <2>6, <2>11
  <2>13. Counted'
    BY <1>0, <2>6, <2>10, <2>12 DEF Counted, ReferencesCounted
  <2> QED
    BY <2>2, <2>4, <2>6, <2>8, <2>9, <2>10, <2>13 DEF Inv
<1>4. CASE StoreDisabled
  <2>1. Configured /\ device \in Devices /\ live # NoDevice /\ live' = NoDevice
    BY <1>4 DEF StoreDisabled, MayDisable, DestroyDevice, Inv
  <2>2. PICK dev : dev = [device EXCEPT !.enabled = FALSE]
    OBVIOUS
  <2>3. PICK a \in Addresses : a = device.address
    BY <2>1 DEF Devices
  <2>4. dev \in Devices /\ dev.config = device.config /\ ~dev.enabled /\ dev.address = a
    BY <2>1, <2>2, <2>3 DEF Devices
  <2>5. device' = dev /\ dev # NoDevice
    BY <1>4, <2>2, <2>4, NoDeviceAssumption DEF StoreDisabled, MayDisable
  <2>6. Configured' /\ (\A b : Uses(b) <=> b = a) /\ \A b : Uses(b)' <=> b = a
    BY <2>1, <2>3, <2>4, <2>5 DEF Configured
  <2>7. \A b \in Addresses : references[b] = held[b] + (IF b = a THEN 2 ELSE 0)
    <3> HIDE DEF Uses
    <3> QED
      BY <1>0, <2>1, <2>6
  <2>8. \/ references' = [references EXCEPT ![a] = @ - 1 - 0] /\ held' = held
        \/ held' = [held EXCEPT ![a] = @ + 1] /\ references' = [references EXCEPT ![a] = @ - 0]
    BY <1>4, <2>3 DEF StoreDisabled, DestroyDevice
  <2>9. /\ held' \in [Addresses -> Nat] /\ references' \in [Addresses -> Nat]
        /\ \A b \in Addresses : references'[b] = held'[b] + (IF b = a THEN 1 ELSE 0)
    BY <1>0, <2>7, <2>8
  <2>10. Counted'
    BY <2>1, <2>6, <2>9 DEF Counted, ReferencesCounted
  <2> QED
    BY <2>1, <2>4, <2>5, <2>6, <2>10 DEF Inv
<1>5. CASE \E a \in Addresses : LastClose(a)
  <2>1. PICK a \in Addresses : LastClose(a)
    BY <1>5
  <2>2. /\ device' = device /\ live' = live /\ held[a] > 0
        /\ held' = [held EXCEPT ![a] = @ - 1] /\ references' = [references EXCEPT ![a] = @ - 1]
    BY <2>1 DEF LastClose
  <2>3. Configured' <=> Configured
    BY <2>2 DEF Configured
  <2>4. Counted'
    BY <1>0, <2>2, <2>3 DEF Counted, ReferencesCounted
  <2> QED
    BY <2>2, <2>3, <2>4 DEF Inv
<1> QED
  BY <1>1, <1>2, <1>3, <1>4, <1>5

-----------------------------------------------------------------------------
(* The devices of the module's own.                                        *)

\* vkms_config_default_create makes a valid configuration with each choice of its parameters.
LEMMA DefaultsValid ==
  ASSUME NEW cursor \in BOOLEAN, NEW overlays \in {0, 8}
  PROVE  IsValid(DefaultConfig(cursor, overlays))
<1>1. PICK top \in 0..9 : top = overlays + (IF cursor THEN 1 ELSE 0)
  OBVIOUS
<1>2. PICK cfg : cfg = DefaultConfig(cursor, overlays)
  OBVIOUS
<1>3. PICK types : types = [p \in 0..top |->
                          IF p = 0 THEN "primary" ELSE IF p <= overlays THEN "overlay" ELSE "cursor"]
  OBVIOUS
<1>4. /\ cfg.types = types /\ cfg.crtcs = {0} /\ cfg.encoders = {0} /\ DOMAIN cfg.status = {0}
      /\ cfg.planeCrtcs = (0..top) \X {0} /\ cfg.encoderCrtcs = {<<0, 0>>} /\ cfg.connectorEncoders = {<<0, 0>>}
  BY <1>1, <1>2, <1>3 DEF DefaultConfig
<1>5. /\ DOMAIN types = 0..top /\ types[0] = "primary"
      /\ \A p \in 1..top : types[p] = IF p <= overlays THEN "overlay" ELSE "cursor"
  BY <1>1, <1>3
<1>6. ValidNumber({0})
  <2>1. Cardinality({0}) = 1 /\ 1 \in 1..31
    BY FS_Singleton
  <2> QED
    BY <2>1, Zenon DEF ValidNumber, MaxItems
<1>7. ValidNumber(0..top)
  <2>1. Cardinality(0..top) = top + 1
    BY <1>1, FS_Interval
  <2>2. top + 1 \in 1..31
    BY <1>1
  <2> QED
    BY <2>1, <2>2, Zenon DEF ValidNumber, MaxItems
<1>8. \A items \in {PlanesOf(cfg), cfg.crtcs, cfg.encoders, ConnectorsOf(cfg)} : ValidNumber(items)
  BY <1>4, <1>5, <1>6, <1>7 DEF PlanesOf, ConnectorsOf
<1>9. AllLinked(PlanesOf(cfg), cfg.planeCrtcs)
  <2>1. ASSUME NEW p \in 0..top
        PROVE  \E link \in cfg.planeCrtcs : link[1] = p
    <3>1. <<p, 0>> \in cfg.planeCrtcs
      BY <1>4
    <3> QED
      BY <3>1
  <2> QED
    BY <1>4, <1>5, <2>1 DEF AllLinked, PlanesOf
<1>10. AllLinked({0}, {<<0, 0>>}) /\ \A c \in {0} : \E link \in {<<0, 0>>} : link[2] = c
  BY DEF AllLinked
<1>11. ValidPlanesForCrtc(cfg, 0)
  <2>1. PlanesOfType(cfg, 0, "primary") = {0}
    <3>1. \A p \in 0..top : types[p] = "primary" <=> p = 0
      BY <1>1, <1>5
    <3>2. \A p \in 0..top : <<p, 0>> \in cfg.planeCrtcs
      BY <1>4
    <3> QED
      BY <1>1, <1>4, <1>5, <3>1, <3>2 DEF PlanesOfType, PlanesOf
  <2>2. PlanesOfType(cfg, 0, "cursor") \in {{}, {overlays + 1}}
    <3>1. \A p \in 0..top : types[p] = "cursor" => p = overlays + 1
      BY <1>1, <1>5
    <3>2. \A p \in PlanesOfType(cfg, 0, "cursor") : p = overlays + 1
      BY <1>4, <1>5, <3>1 DEF PlanesOfType, PlanesOf
    <3> QED
      BY <3>2
  <2>3. Cardinality(PlanesOfType(cfg, 0, "primary")) = 1
    BY <2>1, FS_Singleton
  <2>4. Cardinality(PlanesOfType(cfg, 0, "cursor")) \in {0, 1}
    BY <2>2, FS_Singleton, FS_EmptySet
  <2> QED
    BY <2>3, <2>4 DEF ValidPlanesForCrtc
<1>12. ValidEncoderPossibleCrtcs(cfg) /\ AllLinked(ConnectorsOf(cfg), cfg.connectorEncoders)
  BY <1>4, <1>10 DEF ValidEncoderPossibleCrtcs, ConnectorsOf
<1>13. IsValid(cfg)
  BY <1>4, <1>8, <1>9, <1>11, <1>12 DEF IsValid
<1> QED
  BY <1>2, <1>13
-----------------------------------------------------------------------------
(* The theorems.                                                           *)

\* The invariant holds in every state: each callback of configfs keeps it.
THEOREM ConfigurationInvariant == ConfigfsSpec => []Inv
<1>1. ConfigfsInit => Inv
  BY DEF ConfigfsInit, Inv, Counted, ReferencesCounted, Configured
<1>2. ASSUME Inv, [ConfigfsNext]_configfsVars
      PROVE  Inv'
  <2>1. CASE UNCHANGED configfsVars
    <3>1. Configured' <=> Configured
      BY <2>1 DEF configfsVars, Configured
    <3>2. Counted'
      BY <1>2, <2>1, <3>1, CountedSame DEF configfsVars, Inv
    <3> QED
      BY <1>2, <2>1, <3>1, <3>2 DEF configfsVars, Inv
  <2>2. CASE \/ MakeDevice \/ ReleaseDevice \/ StoreEnabled \/ StoreDisabled
             \/ \E a \in Addresses : LastClose(a)
    BY <1>2, <2>2, DeviceKeeps
  <2>3. CASE \E p \in Planes : ChangePlane(p)
    BY <1>2, <2>3, MakesKeep, LinksKeep, UnlinksKeep, ReleasesKeep DEF ChangePlane
  <2>4. CASE \E c \in Crtcs : MakeCrtc(c) \/ ReleaseCrtc(c)
    BY <1>2, <2>4, MakesKeep, ReleasesKeep
  <2>5. CASE \E e \in Encoders : ChangeEncoder(e)
    BY <1>2, <2>5, MakesKeep, LinksKeep, UnlinksKeep, ReleasesKeep DEF ChangeEncoder
  <2>6. CASE \E n \in Connectors : ChangeConnector(n)
    BY <1>2, <2>6, MakesKeep, LinksKeep, UnlinksKeep, ReleasesKeep, StatusKeeps, ModeKeeps
    DEF ChangeConnector
  <2> QED
    BY <1>2, <2>1, <2>2, <2>3, <2>4, <2>5, <2>6 DEF ConfigfsNext
<1> QED
  BY <1>1, <1>2, PTL DEF ConfigfsSpec

\* A rate that is offered twice over is still one that may be asked for.
LEMMA DoubledValid ==
  ASSUME NEW mode \in Modes
  PROVE  \A twice \in Doubled(mode) : ValidMode(twice)
<1>1. mode = [size |-> mode.size, rate |-> mode.rate] /\ mode.rate \in MinRate..MaxRate
  BY ModesAssumption DEF ValidMode
<1>2. MinRate \in Nat /\ MaxRate \in Nat
  BY SMT DEF MinRate, MaxRate
<1>3. ASSUME mode.rate <= MaxRate \div 2
      PROVE  ValidMode([mode EXCEPT !.rate = 2 * @])
  <2>1. PICK rate \in MinRate..MaxRate : rate = mode.rate
    BY <1>1
  <2>2. [mode EXCEPT !.rate = 2 * @].rate = 2 * rate
    BY <1>1, <2>1
  <2>3. 2 * rate \in MinRate..MaxRate
    BY <1>2, <1>3, <2>1
  <2> QED
    BY <2>2, <2>3 DEF ValidMode
<1> QED
  BY <1>3 DEF Doubled

\* What the invariant says of a configuration makes it sound.
LEMMA InvariantSound ==
  ASSUME Inv
  PROVE  ConfigurationSound
<1>1. LinksResolve
  BY DEF Inv, Sound, LinksResolve, PlanesOf, ConnectorsOf
<1>2. OutputsRoutable
  BY DefaultsValid DEF Inv, Usable, OutputsRoutable
<1>3. ASSUME live # NoDevice, NEW n \in ConnectorsOf(device.config)
      PROVE  /\ n \in DOMAIN live.connectors
             /\ Detect(n) = device.config.status[n]
             /\ IF device.config.modes[n] = NoMode
                THEN \A mode \in GetModes(n).preferred : mode.size = UsualSize
                ELSE GetModes(n).preferred = {device.config.modes[n]}
             /\ GetModes(n).preferred # {} /\ GetModes(n).preferred \subseteq GetModes(n).modes
             /\ \A mode \in GetModes(n).modes : ValidMode(mode)
  <2>1. PICK cfg : cfg = device.config
    OBVIOUS
  <2>2. Sound(cfg) /\ Mirrors(live, cfg) /\ n \in DOMAIN cfg.status
    BY <1>3, <2>1 DEF Inv, ConnectorsOf
  <2>3. PICK mode : mode = cfg.modes[n]
    OBVIOUS
  <2>4. mode \in Modes \cup {NoMode}
    <3> DEFINE T == Modes \cup {NoMode}
    <3>1. cfg.modes \in PartialFunctions(Connectors, T) /\ n \in DOMAIN cfg.modes
      BY <2>2 DEF Sound, Configs
    <3> HIDE DEF T
    <3>2. cfg.modes[n] \in T
      BY <3>1, PartialFacts
    <3> QED
      BY <2>3, <3>2 DEF T
  <2>5. n \in DOMAIN live.connectors /\ Detect(n) = cfg.status[n] /\ live.connectors[n].requested = mode
    BY <2>2, <2>3 DEF Mirrors, Detect
  <2>6. CASE mode = NoMode
    <3>1. PICK all, some : all = PoolModes /\ some = {m \in PoolModes : m.size = UsualSize}
      OBVIOUS
    <3>2. GetModes(n) = [modes |-> all, preferred |-> some]
      BY <2>5, <2>6, <3>1 DEF GetModes
    <3>3. /\ some # {} /\ some \subseteq all /\ \A m \in some : m.size = UsualSize
          /\ \A m \in all : ValidMode(m)
      BY <3>1, ModesAssumption
    <3> QED
      BY <2>1, <2>3, <2>5, <2>6, <3>2, <3>3
  <2>7. CASE mode # NoMode
    <3>1. mode \in Modes
      BY <2>4, <2>7
    <3>2. PICK all : all = PoolModes \cup {mode} \cup Doubled(mode)
      OBVIOUS
    <3>3. GetModes(n) = [modes |-> all, preferred |-> {mode}]
      BY <2>5, <2>7, <3>2 DEF GetModes
    <3>4. \A m \in all : ValidMode(m)
      BY <3>1, <3>2, DoubledValid, ModesAssumption
    <3> QED
      BY <2>1, <2>3, <2>5, <2>7, <3>2, <3>3, <3>4
  <2> QED
    BY <2>6, <2>7
<1>4. ItemsWriteThrough
  BY <1>3 DEF Inv, ItemsWriteThrough
<1> QED
  BY <1>1, <1>2, <1>4 DEF Inv, Counted, ConfigurationSound

\* The configuration is sound in every order of what root does: the references to it are
\* counted, its links resolve, a DRM device made of it can light up, and what is written to the
\* attributes of a connector is what a probe of the live one reports.
THEOREM ConfigurationAlwaysSound == ConfigfsSpec => []ConfigurationSound
<1>1. Inv => ConfigurationSound
  BY InvariantSound
<1> QED
  BY <1>1, ConfigurationInvariant, PTL

-----------------------------------------------------------------------------
(* The pool and its broker (ConnectorBroker).                                *)

\* The places of an instance that has the lock of its output.
LockedPcs == {"locked", "claim", "write lease", "connect", "report connected",
              "disconnect", "release", "mode"}

Instance ==
    [pc : LockedPcs \cup {"free", "received", "locking"}, user : Uids \cup {NoUser},
     verb : {"none", "status", "connect", "disconnect", "mode"}, output : 0..OutputCount,
     mode : Modes \cup {NoMode}]

Call ==
    [instance : Instances \cup {NoInstance}, verb : {"none", "any", "connected", "disconnected"},
     output : 0..OutputCount,
     answer : {"none", "error", "connected", "disconnected", "unknown", "mode"}]

\* The steps of a job: those on one output, and the others.
ItemOps == {"make_plane", "set_primary", "make_crtc", "make_encoder", "make_connector",
            "set_disconnected", "link_plane", "link_encoder", "link_connector"}
PoolOps == {"make_device", "validate", "enable", "disable", "give_up", "remove_device", "clear_leases"}
JobSteps ==
    {step \in [op : ItemOps \cup InGroup \cup PoolOps, item : 0..OutputCount] :
        step.op \in ItemOps \cup InGroup => step.item \in Outputs}

ItemSteps == {step \in JobSteps : step.op \in ItemOps}

JobRecord ==
    [kind : {"none", "start", "stop"}, phase : {"none", "keep", "clear", "remove", "build", "rollback"},
     todo : Seq(JobSteps), incomplete : BOOLEAN, faulted : BOOLEAN, result : {"none", "failed"}]

Types ==
    /\ service \in {"inactive", "starting", "active", "draining", "stopping"}
    /\ job \in JobRecord
    /\ retained \in BOOLEAN
    /\ lease \in [Outputs -> Uids \cup {NoUser}]
    /\ lock \in [Outputs -> Instances \cup {NoInstance}]
    /\ instance \in [Instances -> Instance]
    /\ client \in [Uids -> Call]
    /\ believes \subseteq Uids \X Outputs
    /\ revoked \subseteq Uids \X Outputs /\ unconfirmed \subseteq Outputs

-----------------------------------------------------------------------------
(* The jobs of the service.                                                *)

NoneConnected ==
    Configured => \A n \in ConnectorsOf(device.config) : device.config.status[n] # "connected"

\* What is left of a build is the end of it; what was validated stays.
Building ==
    LET all == Len(BuildSteps)
        left == Len(job.todo)
    IN /\ left <= all
       /\ \A k \in 1..left : job.todo[k] = BuildSteps[all - left + k]
       /\ left < all => NoneConnected
       /\ left <= 1 => ValidTopology
       /\ left = 0 => device.enabled

Keeping ==
    /\ retained /\ ValidTopology
    /\ \/ job.todo = << >> /\ device.enabled
       \/ job.todo = <<Step("enable", 0)>>

Jobs ==
    /\ service = "starting" <=> job.kind = "start"
    /\ service = "stopping" <=> job.kind = "stop"
    /\ job.kind = "none" => job.todo = << >>
    /\ job.kind = "start" /\ job.result = "none" =>
        /\ job.phase \in {"keep", "clear", "remove", "build"}
        /\ job.phase = "build" => Building
        /\ job.phase = "keep" => Keeping

\* A service that is active has the whole pool, and only then are there instances.
Whole == InService => ValidTopology /\ device.enabled
Idle == ~InService => \A i \in Instances : instance[i].pc = "free"

-----------------------------------------------------------------------------
(* The instances.                                                          *)

Kept(u, n) == Connected(n) /\ lease[n] = u

Locking == \A i \in Instances : instance[i].pc \in LockedPcs => lock[instance[i].output] = i

\* What an instance has seen of its output.
Seen(i) ==
    LET u == instance[i].user
        n == instance[i].output
    IN /\ instance[i].pc # "free" =>
            /\ u \in Uids /\ n \in Outputs
            /\ instance[i].verb = "mode" => instance[i].mode \in Modes
       /\ instance[i].pc = "claim" => u = Root /\ lease[n] = NoUser
       /\ instance[i].pc \in {"write lease", "connect", "release"} => ~Connected(n)
       /\ instance[i].pc = "connect" => lease[n] = u
       /\ instance[i].pc \in {"report connected", "mode"} => Kept(u, n)
       /\ instance[i].pc = "mode" => instance[i].verb = "mode"
       /\ instance[i].pc = "disconnect" => u \in {Root, lease[n]}

\* A call that waits for an instance waits for its own.
Calling(u) ==
    /\ client[u].instance # NoInstance =>
        /\ client[u].answer = "none"
        /\ instance[client[u].instance].pc # "free"
        /\ instance[client[u].instance].user = u
        /\ instance[client[u].instance].output = client[u].output
        /\ client[u].verb = "connected" => instance[client[u].instance].verb = "connect"
    /\ client[u] # NoCall => client[u].output \in Outputs /\ <<u, client[u].output>> \notin believes

-----------------------------------------------------------------------------
(* The promises.                                                           *)

\* What a user was told or is about to be told.
Promised(u, n) ==
    \/ <<u, n>> \in believes
    \/ client[u].verb = "connected" /\ client[u].answer = "connected" /\ client[u].output = n

PromisesKept ==
    InService => \A u \in Users, n \in Outputs :
        Promised(u, n) /\ <<u, n>> \notin revoked => Kept(u, n)

NoPromises ==
    service \in {"inactive", "starting"} =>
        \A u \in Users, n \in Outputs : Promised(u, n) => <<u, n>> \in revoked

IInv ==
    /\ Inv /\ Types /\ Jobs /\ Whole /\ Idle /\ Locking
    /\ \A i \in Instances : Seen(i)
    /\ \A u \in Uids : Calling(u)
    /\ PromisesKept /\ NoPromises
    /\ ConnectedHasOwner

-----------------------------------------------------------------------------
(* What the jobs consist of.                                               *)

\* The steps for each output are steps of a job.
LEMMA ForEachFacts ==
  ASSUME NEW ops, NEW len \in 1..4, Len(ops) = len,
         \A k \in 1..len : ops[k] \in ItemOps \cup InGroup
  PROVE  /\ ForEachOutput(ops) \in Seq(JobSteps)
         /\ \A k \in 1..Len(ForEachOutput(ops)) : \E j \in 1..len : ForEachOutput(ops)[k].op = ops[j]
<1>1. OutputCount \in Nat
  BY PoolAssumption
<1>2. PICK size \in Nat : size = OutputCount * len
  BY <1>1
<1>3. ASSUME NEW k \in 1..size
      PROVE  /\ ((k - 1) % len) + 1 \in 1..len
             /\ ((k - 1) \div len) + 1 \in Outputs
  <2>1. PICK j \in 0..size : j = k - 1 /\ j < size
    OBVIOUS
  <2>2. j % len \in 0..len - 1
    BY <2>1
  <2>3. j \div len \in 0..OutputCount - 1
    <3>1. CASE len = 1
      BY <1>1, <1>2, <2>1, <3>1
    <3>2. CASE len = 2
      BY <1>1, <1>2, <2>1, <3>2
    <3>3. CASE len = 3
      BY <1>1, <1>2, <2>1, <3>3
    <3>4. CASE len = 4
      BY <1>1, <1>2, <2>1, <3>4
    <3> QED
      BY <3>1, <3>2, <3>3, <3>4
  <2> QED
    BY <1>1, <2>1, <2>2, <2>3 DEF Outputs
<1>4. PICK s : s = ForEachOutput(ops)
  OBVIOUS
<1>5. /\ s = [k \in 1..size |-> Step(ops[((k - 1) % len) + 1], ((k - 1) \div len) + 1)]
  BY <1>2, <1>4 DEF ForEachOutput
<1>6. ASSUME NEW k \in 1..size
      PROVE  /\ s[k] \in JobSteps
             /\ \E j \in 1..len : s[k].op = ops[j]
  <2>1. PICK j \in 1..len : j = ((k - 1) % len) + 1
    BY <1>3
  <2>2. PICK i \in Outputs : i = ((k - 1) \div len) + 1
    BY <1>3
  <2>3. s[k] = [op |-> ops[j], item |-> i]
    BY <1>5, <2>1, <2>2 DEF Step
  <2>4. i \in 0..OutputCount
    BY <1>1 DEF Outputs
  <2> QED
    BY <2>3, <2>4 DEF JobSteps
<1>7. s \in Seq(JobSteps) /\ Len(s) = size
  BY <1>5, <1>6
<1> QED
  BY <1>4, <1>6, <1>7

\* If they only make and link items, so does the whole group.
LEMMA ForEachItemFacts ==
  ASSUME NEW ops, NEW len \in 1..4, Len(ops) = len, \A k \in 1..len : ops[k] \in ItemOps
  PROVE  ForEachOutput(ops) \in Seq(ItemSteps)
<1>1. PICK s : s = ForEachOutput(ops)
  OBVIOUS
<1>2. s \in Seq(JobSteps) /\ \A k \in 1..Len(s) : \E j \in 1..len : s[k].op = ops[j]
  BY <1>1, ForEachFacts
<1>3. \A k \in 1..Len(s) : s[k] \in ItemSteps
  BY <1>2 DEF ItemSteps
<1>4. s \in Seq(ItemSteps)
  BY <1>2, <1>3
<1> QED
  BY <1>1, <1>4

\* The steps on the pool as a whole are steps of a job.
LEMMA PoolStepFacts ==
  /\ Step("make_device", 0) \in JobSteps /\ Step("validate", 0) \in JobSteps
  /\ Step("enable", 0) \in JobSteps /\ Step("disable", 0) \in JobSteps
  /\ Step("give_up", 0) \in JobSteps /\ Step("remove_device", 0) \in JobSteps
  /\ Step("clear_leases", 0) \in JobSteps
<1>1. ASSUME NEW op \in PoolOps
      PROVE  Step(op, 0) \in JobSteps
  <2>1. op \notin ItemOps \cup InGroup
    BY DEF PoolOps, ItemOps, InGroup
  <2>2. PICK step : step = [op |-> op, item |-> 0]
    OBVIOUS
  <2>3. step.op = op /\ step \in [op : ItemOps \cup InGroup \cup PoolOps, item : 0..OutputCount]
    BY <2>2, PoolAssumption
  <2> QED
    BY <2>1, <2>2, <2>3 DEF Step, JobSteps
<1>2. \A op \in {"make_device", "validate", "enable", "disable", "give_up", "remove_device", "clear_leases"} :
          op \in PoolOps
  BY DEF PoolOps
<1> QED
  BY <1>1, <1>2

\* More of the same kind at the end of a sequence.
LEMMA Appended ==
  ASSUME NEW S, NEW T, T \subseteq S, NEW x, NEW s \in Seq(S), Len(s) >= 1, s[1] = x,
         \A k \in 2..Len(s) : s[k] \in T, NEW t \in Seq(T)
  PROVE  /\ s \o t \in Seq(S) /\ Len(s \o t) >= 1 /\ (s \o t)[1] = x
         /\ \A k \in 2..Len(s \o t) : (s \o t)[k] \in T
<1>1. t \in Seq(S) /\ Len(s) \in Nat /\ Len(t) \in Nat
  OBVIOUS
<1>2. PICK all : all = s \o t
  OBVIOUS
<1>3. /\ all \in Seq(S) /\ Len(all) = Len(s) + Len(t)
      /\ \A k \in 1..Len(all) : all[k] = IF k <= Len(s) THEN s[k] ELSE t[k - Len(s)]
  BY <1>1, <1>2
<1>4. all[1] = x
  BY <1>1, <1>3
<1>5. ASSUME NEW k \in 2..Len(all)
      PROVE  all[k] \in T
  <2>1. CASE k <= Len(s)
    BY <1>1, <1>3, <2>1
  <2>2. CASE k > Len(s)
    <3>1. k - Len(s) \in 1..Len(t)
      BY <1>1, <1>3, <2>2
    <3>2. t[k - Len(s)] \in T
      BY <3>1
    <3> QED
      BY <1>1, <1>3, <2>2, <3>2
  <2> QED
    BY <1>1, <1>3, <2>1, <2>2
<1> QED
  BY <1>1, <1>2, <1>3, <1>4, <1>5

\* The beginning of a build: the device, and then its items.
Begun(s, make) ==
    /\ s \in Seq(JobSteps) /\ Len(s) >= 1
    /\ s[1] = make
    /\ \A k \in 2..Len(s) : s[k] \in ItemSteps

\* A job begun by making the pool stays one when steps on single items follow.
LEMMA BegunFacts ==
  ASSUME NEW s, NEW make, Begun(s, make), NEW t \in Seq(ItemSteps)
  PROVE  Begun(s \o t, make)
<1>1. ItemSteps \subseteq JobSteps
  BY DEF ItemSteps
<1>2. PICK all : all = s \o t
  OBVIOUS
<1>3. all \in Seq(JobSteps) /\ Len(all) >= 1 /\ all[1] = make /\ (\A k \in 2..Len(all) : all[k] \in ItemSteps)
  BY <1>1, <1>2, Appended DEF Begun
<1> QED
  BY <1>2, <1>3 DEF Begun

\* A build makes the device, then items and links; then it validates and enables.
LEMMA BuildFacts ==
  ASSUME NEW steps, steps = BuildSteps
  PROVE  /\ steps \in Seq(JobSteps) /\ Len(steps) \in Nat /\ Len(steps) >= 3
         /\ steps[1].op = "make_device"
         /\ \A k \in 2..Len(steps) - 2 : steps[k] \in ItemSteps
         /\ steps[Len(steps) - 1].op = "validate"
         /\ steps[Len(steps)].op = "enable"
<1>1. PICK planes : planes = ForEachOutput(<<"make_plane", "set_primary">>)
  OBVIOUS
<1>2. PICK crtcs : crtcs = ForEachOutput(<<"make_crtc">>)
  OBVIOUS
<1>3. PICK encoders : encoders = ForEachOutput(<<"make_encoder">>)
  OBVIOUS
<1>4. PICK connectors : connectors = ForEachOutput(<<"make_connector", "set_disconnected">>)
  OBVIOUS
<1>5. PICK links : links = ForEachOutput(<<"link_plane", "link_encoder", "link_connector">>)
  OBVIOUS
<1>6. planes \in Seq(ItemSteps)
  <2>1. PICK ops : ops = <<"make_plane", "set_primary">>
    OBVIOUS
  <2>2. Len(ops) = 2 /\ ops[1] = "make_plane" /\ ops[2] = "set_primary"
    BY <2>1
  <2>3. "make_plane" \in ItemOps /\ "set_primary" \in ItemOps
    BY DEF ItemOps
  <2>4. PICK len \in 1..4 : len = 2
    OBVIOUS
  <2>5. ASSUME NEW k \in 1..len
        PROVE  ops[k] \in ItemOps
    <3>1. k = 1 \/ k = 2
      BY <2>4
    <3> QED
      BY <2>2, <2>3, <3>1, Zenon
  <2>6. Len(ops) = len
    BY <2>2, <2>4
  <2>7. ForEachOutput(ops) \in Seq(ItemSteps)
    BY <2>5, <2>6, ForEachItemFacts
  <2> QED
    BY <1>1, <2>1, <2>7
<1>7. crtcs \in Seq(ItemSteps)
  <2>1. PICK ops : ops = <<"make_crtc">>
    OBVIOUS
  <2>2. Len(ops) = 1 /\ ops[1] = "make_crtc"
    BY <2>1
  <2>3. "make_crtc" \in ItemOps
    BY DEF ItemOps
  <2>4. PICK len \in 1..4 : len = 1
    OBVIOUS
  <2>5. ASSUME NEW k \in 1..len
        PROVE  ops[k] \in ItemOps
    <3>1. k = 1
      BY <2>4
    <3> QED
      BY <2>2, <2>3, <3>1, Zenon
  <2>6. Len(ops) = len
    BY <2>2, <2>4
  <2>7. ForEachOutput(ops) \in Seq(ItemSteps)
    BY <2>5, <2>6, ForEachItemFacts
  <2> QED
    BY <1>2, <2>1, <2>7
<1>8. encoders \in Seq(ItemSteps)
  <2>1. PICK ops : ops = <<"make_encoder">>
    OBVIOUS
  <2>2. Len(ops) = 1 /\ ops[1] = "make_encoder"
    BY <2>1
  <2>3. "make_encoder" \in ItemOps
    BY DEF ItemOps
  <2>4. PICK len \in 1..4 : len = 1
    OBVIOUS
  <2>5. ASSUME NEW k \in 1..len
        PROVE  ops[k] \in ItemOps
    <3>1. k = 1
      BY <2>4
    <3> QED
      BY <2>2, <2>3, <3>1, Zenon
  <2>6. Len(ops) = len
    BY <2>2, <2>4
  <2>7. ForEachOutput(ops) \in Seq(ItemSteps)
    BY <2>5, <2>6, ForEachItemFacts
  <2> QED
    BY <1>3, <2>1, <2>7
<1>9. connectors \in Seq(ItemSteps)
  <2>1. PICK ops : ops = <<"make_connector", "set_disconnected">>
    OBVIOUS
  <2>2. Len(ops) = 2 /\ ops[1] = "make_connector" /\ ops[2] = "set_disconnected"
    BY <2>1
  <2>3. "make_connector" \in ItemOps /\ "set_disconnected" \in ItemOps
    BY DEF ItemOps
  <2>4. PICK len \in 1..4 : len = 2
    OBVIOUS
  <2>5. ASSUME NEW k \in 1..len
        PROVE  ops[k] \in ItemOps
    <3>1. k = 1 \/ k = 2
      BY <2>4
    <3> QED
      BY <2>2, <2>3, <3>1, Zenon
  <2>6. Len(ops) = len
    BY <2>2, <2>4
  <2>7. ForEachOutput(ops) \in Seq(ItemSteps)
    BY <2>5, <2>6, ForEachItemFacts
  <2> QED
    BY <1>4, <2>1, <2>7
<1>10. links \in Seq(ItemSteps)
  <2>1. PICK ops : ops = <<"link_plane", "link_encoder", "link_connector">>
    OBVIOUS
  <2>2. Len(ops) = 3 /\ ops[1] = "link_plane" /\ ops[2] = "link_encoder" /\ ops[3] = "link_connector"
    BY <2>1
  <2>3. "link_plane" \in ItemOps /\ "link_encoder" \in ItemOps /\ "link_connector" \in ItemOps
    BY DEF ItemOps
  <2>4. PICK len \in 1..4 : len = 3
    OBVIOUS
  <2>5. ASSUME NEW k \in 1..len
        PROVE  ops[k] \in ItemOps
    <3>1. k = 1 \/ k = 2 \/ k = 3
      BY <2>4
    <3> QED
      BY <2>2, <2>3, <3>1, Zenon
  <2>6. Len(ops) = len
    BY <2>2, <2>4
  <2>7. ForEachOutput(ops) \in Seq(ItemSteps)
    BY <2>5, <2>6, ForEachItemFacts
  <2> QED
    BY <1>5, <2>1, <2>7
<1>11. PICK make, validate, enable :
          make = Step("make_device", 0) /\ validate = Step("validate", 0) /\ enable = Step("enable", 0)
  OBVIOUS
<1>12. PICK first : first = <<make>> /\ Begun(first, make)
  <2>1. make \in JobSteps
    BY <1>11, PoolStepFacts
  <2>2. PICK first : first = <<make>>
    OBVIOUS
  <2>3. first \in Seq(JobSteps) /\ Len(first) = 1 /\ first[1] = make
    BY <2>1, <2>2
  <2>4. Begun(first, make)
    BY <2>3 DEF Begun
  <2> QED
    BY <2>2, <2>4
<1>13. PICK begun : begun = first \o planes \o crtcs \o encoders \o connectors \o links
  OBVIOUS
<1>14. Begun(begun, make)
  <2>1. PICK a : a = first \o planes
    OBVIOUS
  <2>2. PICK b : b = a \o crtcs
    OBVIOUS
  <2>3. PICK c : c = b \o encoders
    OBVIOUS
  <2>4. PICK d : d = c \o connectors
    OBVIOUS
  <2>5. Begun(a, make)
    BY <1>6, <1>12, <2>1, BegunFacts
  <2>6. Begun(b, make)
    BY <1>7, <2>2, <2>5, BegunFacts
  <2>7. Begun(c, make)
    BY <1>8, <2>3, <2>6, BegunFacts
  <2>8. Begun(d, make)
    BY <1>9, <2>4, <2>7, BegunFacts
  <2>9. begun = d \o links
    BY <1>13, <2>1, <2>2, <2>3, <2>4
  <2> QED
    BY <1>10, <2>8, <2>9, BegunFacts
<1>15. validate \in JobSteps /\ enable \in JobSteps
  BY <1>11, PoolStepFacts
<1>16. BuildSteps = begun \o <<validate, enable>>
  BY <1>1, <1>2, <1>3, <1>4, <1>5, <1>11, <1>12, <1>13, Zenon DEF BuildSteps
<1>17. PICK all : all = begun \o <<validate, enable>>
  OBVIOUS
<1>18. begun \in Seq(JobSteps) /\ Len(begun) \in Nat /\ Len(begun) >= 1
  BY <1>14 DEF Begun
<1>19. /\ all \in Seq(JobSteps) /\ Len(all) = Len(begun) + 2
       /\ \A k \in 1..Len(begun) : all[k] = begun[k]
       /\ all[Len(begun) + 1] = validate /\ all[Len(begun) + 2] = enable
  BY <1>15, <1>17, <1>18
<1>20. all[Len(all) - 1] = validate /\ all[Len(all)] = enable /\ Len(all) >= 3
  BY <1>18, <1>19
<1>21. all[1] = make /\ \A k \in 2..Len(all) - 2 : all[k] \in ItemSteps
  BY <1>14, <1>18, <1>19 DEF Begun
<1>22. steps = all
  BY <1>16, <1>17
<1>23. make.op = "make_device" /\ validate.op = "validate" /\ enable.op = "enable"
  BY <1>11 DEF Step
<1>24. Len(all) \in Nat
  BY <1>19
<1> QED
  BY <1>19, <1>20, <1>21, <1>22, <1>23, <1>24

\* A removal consists of steps of a job.
LEMMA RemoveFacts == RemovePool \in Seq(JobSteps)
<1>1. PICK links : links = ForEachOutput(<<"unlink_connector", "unlink_encoder", "unlink_plane">>)
  OBVIOUS
<1>2. PICK items : items = ForEachOutput(RemoveItems)
  OBVIOUS
<1>3. links \in Seq(JobSteps)
  <2>1. PICK ops : ops = <<"unlink_connector", "unlink_encoder", "unlink_plane">>
    OBVIOUS
  <2>2. Len(ops) = 3 /\ ops[1] = "unlink_connector" /\ ops[2] = "unlink_encoder" /\ ops[3] = "unlink_plane"
    BY <2>1
  <2>3. "unlink_connector" \in InGroup /\ "unlink_encoder" \in InGroup /\ "unlink_plane" \in InGroup
    BY DEF InGroup
  <2>4. PICK len \in 1..4 : len = 3
    OBVIOUS
  <2>5. ASSUME NEW k \in 1..len
        PROVE  ops[k] \in ItemOps \cup InGroup
    <3>1. k = 1 \/ k = 2 \/ k = 3
      BY <2>4
    <3> QED
      BY <2>2, <2>3, <3>1, Zenon
  <2>6. Len(ops) = len
    BY <2>2, <2>4
  <2>7. ForEachOutput(ops) \in Seq(JobSteps)
    BY <2>5, <2>6, ForEachFacts
  <2> QED
    BY <1>1, <2>1, <2>7
<1>4. items \in Seq(JobSteps)
  <2>1. PICK ops : ops = <<"remove_connector", "remove_encoder", "remove_plane", "remove_crtc">>
    OBVIOUS
  <2>2. /\ Len(ops) = 4
        /\ ops[1] = "remove_connector"
        /\ ops[2] = "remove_encoder"
        /\ ops[3] = "remove_plane"
        /\ ops[4] = "remove_crtc"
    BY <2>1
  <2>3. /\ "remove_connector" \in InGroup
        /\ "remove_encoder" \in InGroup
        /\ "remove_plane" \in InGroup
        /\ "remove_crtc" \in InGroup
    BY DEF InGroup
  <2>4. PICK len \in 1..4 : len = 4
    OBVIOUS
  <2>5. ASSUME NEW k \in 1..len
        PROVE  ops[k] \in ItemOps \cup InGroup
    <3>1. k = 1 \/ k = 2 \/ k = 3 \/ k = 4
      BY <2>4
    <3> QED
      BY <2>2, <2>3, <3>1, Zenon
  <2>6. Len(ops) = len
    BY <2>2, <2>4
  <2>7. ForEachOutput(ops) \in Seq(JobSteps)
    BY <2>5, <2>6, ForEachFacts
  <2> QED
    BY <1>2, <2>1, <2>7 DEF RemoveItems
<1>5. PICK disable, give, last, clear :
         /\ disable = Step("disable", 0) /\ give = Step("give_up", 0)
         /\ last = Step("remove_device", 0) /\ clear = Step("clear_leases", 0)
  OBVIOUS
<1>6. disable \in JobSteps /\ give \in JobSteps /\ last \in JobSteps /\ clear \in JobSteps
  BY <1>5, PoolStepFacts
<1>7. <<disable>> \in Seq(JobSteps) /\ <<give>> \in Seq(JobSteps)
      /\ <<last, clear>> \in Seq(JobSteps) /\ <<clear>> \in Seq(JobSteps)
  BY <1>6
<1>8. PICK all : all = <<disable>> \o links \o <<give>> \o items \o <<give>> \o <<last, clear>>
  OBVIOUS
<1>9. all \in Seq(JobSteps)
  BY <1>3, <1>4, <1>7, <1>8
<1>10. RemoveSteps = all
  BY <1>1, <1>2, <1>5, <1>8, Zenon DEF RemoveSteps, RemoveGroups
<1> QED
  BY <1>5, <1>7, <1>9, <1>10 DEF RemovePool

-----------------------------------------------------------------------------
(* What a step of a job does to configfs.                                  *)

\* What leaves configfs alone keeps its invariant.
LEMMA UnchangedKeeps ==
  ASSUME Inv, UNCHANGED configfsVars
  PROVE  Inv'
<1>1. Configured' <=> Configured
  BY DEF configfsVars, Configured
<1>2. Counted'
  BY <1>1, CountedSame DEF configfsVars, Inv
<1> QED
  BY <1>1, <1>2 DEF configfsVars, Inv

\* A step of a job is one that root may make.
LEMMA PerformKeeps ==
  ASSUME Inv, NEW step \in JobSteps, Perform(step)
  PROVE  Inv'
<1>1. step.op \in ItemOps \cup InGroup => step.item \in Planes /\ step.item \in Crtcs /\ step.item \in Encoders /\ step.item \in Connectors
  BY PoolAssumption DEF JobSteps
<1>2. \/ step.op = "make_plane" /\ MakePlane(step.item)
      \/ step.op = "make_crtc" /\ MakeCrtc(step.item)
      \/ step.op = "make_encoder" /\ MakeEncoder(step.item)
      \/ step.op = "make_connector" /\ MakeConnector(step.item)
      \/ step.op = "set_primary" /\ StoreType(step.item, "primary")
      \/ step.op = "link_plane" /\ LinkPlane(step.item, step.item)
      \/ step.op = "link_encoder" /\ LinkEncoder(step.item, step.item)
      \/ step.op = "link_connector" /\ LinkConnector(step.item, step.item)
      \/ step.op = "unlink_plane" /\ UnlinkPlane(step.item, step.item)
      \/ step.op = "unlink_encoder" /\ UnlinkEncoder(step.item, step.item)
      \/ step.op = "unlink_connector" /\ UnlinkConnector(step.item, step.item)
      \/ step.op = "remove_plane" /\ ReleasePlane(step.item)
      \/ step.op = "remove_crtc" /\ ReleaseCrtc(step.item)
      \/ step.op = "remove_encoder" /\ ReleaseEncoder(step.item)
      \/ step.op = "remove_connector" /\ ReleaseConnector(step.item)
      \/ step.op = "set_disconnected" /\ StoreStatus(step.item, "disconnected")
      \/ MakeDevice \/ ReleaseDevice \/ StoreEnabled \/ StoreDisabled \/ UNCHANGED configfsVars
  BY Zenon DEF Perform
<1>3. CASE \/ step.op = "make_plane" /\ MakePlane(step.item)
           \/ step.op = "make_crtc" /\ MakeCrtc(step.item)
           \/ step.op = "make_encoder" /\ MakeEncoder(step.item)
           \/ step.op = "make_connector" /\ MakeConnector(step.item)
  <2>1. step.item \in Planes /\ step.item \in Crtcs /\ step.item \in Encoders /\ step.item \in Connectors
    BY <1>1, <1>3 DEF ItemOps
  <2> QED
    BY <1>3, <2>1, MakesKeep
<1>4. CASE \/ step.op = "set_primary" /\ StoreType(step.item, "primary")
           \/ step.op = "link_plane" /\ LinkPlane(step.item, step.item)
           \/ step.op = "link_encoder" /\ LinkEncoder(step.item, step.item)
           \/ step.op = "link_connector" /\ LinkConnector(step.item, step.item)
  <2>1. /\ step.item \in Planes
        /\ step.item \in Crtcs
        /\ step.item \in Encoders
        /\ step.item \in Connectors
        /\ "primary" \in PlaneTypes
    BY <1>1, <1>4 DEF ItemOps, PlaneTypes
  <2> QED
    BY <1>4, <2>1, LinksKeep
<1>5. CASE \/ step.op = "unlink_plane" /\ UnlinkPlane(step.item, step.item)
           \/ step.op = "unlink_encoder" /\ UnlinkEncoder(step.item, step.item)
           \/ step.op = "unlink_connector" /\ UnlinkConnector(step.item, step.item)
  <2>1. step.item \in Planes /\ step.item \in Crtcs /\ step.item \in Encoders /\ step.item \in Connectors
    BY <1>1, <1>5 DEF InGroup
  <2> QED
    BY <1>5, <2>1, UnlinksKeep
<1>6. CASE \/ step.op = "remove_plane" /\ ReleasePlane(step.item)
           \/ step.op = "remove_crtc" /\ ReleaseCrtc(step.item)
           \/ step.op = "remove_encoder" /\ ReleaseEncoder(step.item)
           \/ step.op = "remove_connector" /\ ReleaseConnector(step.item)
  <2>1. step.item \in Planes /\ step.item \in Crtcs /\ step.item \in Encoders /\ step.item \in Connectors
    BY <1>1, <1>6 DEF InGroup
  <2> QED
    BY <1>6, <2>1, ReleasesKeep
<1>7. CASE step.op = "set_disconnected" /\ StoreStatus(step.item, "disconnected")
  <2>1. step.item \in Connectors /\ "disconnected" \in Statuses
    BY <1>1, <1>7 DEF ItemOps, Statuses
  <2> QED
    BY <1>7, <2>1, StatusKeeps
<1>8. CASE MakeDevice \/ ReleaseDevice \/ StoreEnabled \/ StoreDisabled
  BY <1>8, DeviceKeeps
<1>9. CASE UNCHANGED configfsVars
  BY <1>9, UnchangedKeeps
<1> QED
  BY <1>2, <1>3, <1>4, <1>5, <1>6, <1>7, <1>8, <1>9

\* A status that is written is that of one connector; everything else of the pool stays.
LEMMA StatusWritten ==
  ASSUME Inv, NEW n \in Outputs, NEW v \in Statuses, StoreStatus(n, v)
  PROVE  /\ Configured' /\ device'.enabled = device.enabled
         /\ ConnectorsOf(device'.config) = ConnectorsOf(device.config)
         /\ \A m \in ConnectorsOf(device.config) :
               device'.config.status[m] = IF m = n THEN v ELSE device.config.status[m]
         /\ ValidTopology /\ v \in {"connected", "disconnected"} => ValidTopology'
<1>1. PICK old : old = device.config
  OBVIOUS
<1>2. Configured /\ device \in Devices /\ Sound(old) /\ n \in DOMAIN old.status
  BY <1>1 DEF Inv, StoreStatus, MayStoreStatus, ConnectorsOf
<1>3. PICK new : new = [old EXCEPT !.status[n] = v]
  OBVIOUS
<1>4. /\ Sound(new) /\ DOMAIN new.status = DOMAIN old.status
      /\ new.types = old.types /\ new.crtcs = old.crtcs /\ new.encoders = old.encoders
      /\ new.planeCrtcs = old.planeCrtcs /\ new.encoderCrtcs = old.encoderCrtcs
      /\ new.connectorEncoders = old.connectorEncoders
      /\ \A y \in DOMAIN old.status : new.status[y] = IF y = n THEN v ELSE old.status[y]
  BY <1>2, <1>3, StatusStored
<1>5. PICK dev : dev = [device EXCEPT !.config = new]
  OBVIOUS
<1>6. dev \in Devices /\ dev.config = new /\ dev.enabled = device.enabled
      /\ dev.address = device.address
  BY <1>2, <1>4, <1>5 DEF Devices, Sound
<1>7. device' = dev /\ dev # NoDevice
  <2>1. device' = [device EXCEPT !.config.status[n] = v]
    BY DEF StoreStatus, MayStoreStatus
  <2> QED
    BY <1>1, <1>3, <1>5, <1>6, <2>1, NoDeviceAssumption
<1>8. ASSUME NEW m \in Outputs, CompletePipeline(old, m), v \in {"connected", "disconnected"}
      PROVE  CompletePipeline(new, m)
  BY <1>4, <1>8 DEF CompletePipeline, PlanesOf, ConnectorsOf
<1> QED
  BY <1>1, <1>4, <1>6, <1>7, <1>8 DEF ConnectorsOf, Configured, ValidTopology

\* The statuses of a configuration that got an item or a link more.
LEMMA StatusesAfterEdit ==
  ASSUME NEW cfg, Sound(cfg), NEW i
  PROVE  /\ CreatePlane(cfg, i).status = cfg.status /\ CreateCrtc(cfg, i).status = cfg.status
         /\ CreateEncoder(cfg, i).status = cfg.status
         /\ [cfg EXCEPT !.types[i] = "primary"].status = cfg.status
         /\ AttachPlane(cfg, i, i).status = cfg.status /\ AttachEncoder(cfg, i, i).status = cfg.status
         /\ AttachConnector(cfg, i, i).status = cfg.status
         /\ CreateConnector(cfg, i).status = Put(cfg.status, i, "disconnected")
<1>1. cfg \in Configs
  BY DEF Sound
<1>2. CreatePlane(cfg, i).status = cfg.status
  BY <1>1 DEF CreatePlane, Configs
<1>3. CreateCrtc(cfg, i).status = cfg.status
  BY <1>1 DEF CreateCrtc, Configs
<1>4. CreateEncoder(cfg, i).status = cfg.status
  BY <1>1 DEF CreateEncoder, Configs
<1>5. [cfg EXCEPT !.types[i] = "primary"].status = cfg.status
  BY <1>1 DEF Configs
<1>6. AttachPlane(cfg, i, i).status = cfg.status
  BY <1>1 DEF AttachPlane, Configs
<1>7. AttachEncoder(cfg, i, i).status = cfg.status
  BY <1>1 DEF AttachEncoder, Configs
<1>8. AttachConnector(cfg, i, i).status = cfg.status
  BY <1>1 DEF AttachConnector, Configs
<1>9. CreateConnector(cfg, i).status = Put(cfg.status, i, "disconnected")
  BY <1>1 DEF CreateConnector, Configs
<1> QED
  BY <1>2, <1>3, <1>4, <1>5, <1>6, <1>7, <1>8, <1>9

\* What a pool is built of connects nothing.
LEMMA BuildKeepsNone ==
  ASSUME Inv, NoneConnected, NEW step \in ItemSteps, Perform(step)
  PROVE  NoneConnected'
<1>1. PICK old, i : old = device.config /\ i = step.item
  OBVIOUS
<1>2. i \in Outputs /\ step.op \in ItemOps
  BY <1>1 DEF ItemSteps, JobSteps
<1>3. ASSUME NEW cfg, Configured, Becomes(cfg),
             cfg.status = old.status \/ cfg.status = Put(old.status, i, "disconnected")
      PROVE  NoneConnected'
  <2>1. device \in Devices /\ device' = [device EXCEPT !.config = cfg]
    BY <1>3 DEF Inv, Becomes
  <2>2. device'.config = cfg
    BY <2>1 DEF Devices
  <2>3. \A n \in DOMAIN old.status : old.status[n] # "connected"
    BY <1>1, <1>3 DEF NoneConnected, ConnectorsOf
  <2>4. CASE cfg.status = old.status
    BY <2>2, <2>3, <2>4 DEF NoneConnected, ConnectorsOf
  <2>5. CASE cfg.status = Put(old.status, i, "disconnected")
    <3>1. \A n \in DOMAIN cfg.status : cfg.status[n] # "connected"
      BY <2>3, <2>5 DEF Put
    <3> QED
      BY <2>2, <3>1 DEF NoneConnected, ConnectorsOf
  <2> QED
    BY <1>3, <2>4, <2>5
<1>4. \/ MakePlane(step.item) \/ MakeCrtc(step.item) \/ MakeEncoder(step.item)
      \/ StoreType(step.item, "primary") \/ MakeConnector(step.item)
      \/ LinkPlane(step.item, step.item) \/ LinkEncoder(step.item, step.item)
      \/ LinkConnector(step.item, step.item) \/ StoreStatus(step.item, "disconnected")
  BY <1>2, Zenon DEF Perform, ItemOps
<1>5. CASE \/ MakePlane(step.item) \/ MakeCrtc(step.item) \/ MakeEncoder(step.item)
           \/ StoreType(step.item, "primary") \/ MakeConnector(step.item)
           \/ LinkPlane(step.item, step.item) \/ LinkEncoder(step.item, step.item)
           \/ LinkConnector(step.item, step.item)
  <2>1. Configured /\ Sound(old)
    BY <1>1, <1>5 DEF Open, Inv, MakePlane, MayMakePlane, MakeCrtc, MayMakeCrtc, MakeEncoder,
           MayMakeEncoder, StoreType, MayStoreType, MakeConnector, MayMakeConnector, LinkPlane,
           MayLinkPlane, LinkEncoder, MayLinkEncoder, LinkConnector, MayLinkConnector
  <2>2. PICK plane, crtc, encoder, typed, a, b, c, connector :
          /\ plane = CreatePlane(old, i) /\ crtc = CreateCrtc(old, i) /\ encoder = CreateEncoder(old, i)
          /\ typed = [old EXCEPT !.types[i] = "primary"]
          /\ a = AttachPlane(old, i, i) /\ b = AttachEncoder(old, i, i) /\ c = AttachConnector(old, i, i)
          /\ connector = CreateConnector(old, i)
    OBVIOUS
  <2>3. /\ plane.status = old.status /\ crtc.status = old.status /\ encoder.status = old.status
        /\ typed.status = old.status /\ a.status = old.status /\ b.status = old.status
        /\ c.status = old.status /\ connector.status = Put(old.status, i, "disconnected")
    BY <2>1, <2>2, StatusesAfterEdit
  <2>4. \/ Becomes(plane) \/ Becomes(crtc) \/ Becomes(encoder) \/ Becomes(typed)
        \/ Becomes(a) \/ Becomes(b) \/ Becomes(c) \/ Becomes(connector)
    BY <1>1, <1>5, <2>2 DEF MakePlane, MayMakePlane, MakeCrtc, MayMakeCrtc, MakeEncoder,
           MayMakeEncoder, StoreType, MayStoreType, MakeConnector, MayMakeConnector, LinkPlane,
           MayLinkPlane, LinkEncoder, MayLinkEncoder, LinkConnector, MayLinkConnector, Becomes
  <2> QED
    BY <1>3, <2>1, <2>3, <2>4
<1>6. CASE StoreStatus(step.item, "disconnected")
  <2>1. "disconnected" \in Statuses /\ Configured
    BY <1>6 DEF Statuses, StoreStatus, MayStoreStatus
  <2>2. \A m \in ConnectorsOf(device.config) :
               device'.config.status[m] = IF m = i THEN "disconnected" ELSE device.config.status[m]
    BY <1>1, <1>2, <1>6, <2>1, StatusWritten
  <2>3. ConnectorsOf(device'.config) = ConnectorsOf(device.config)
    BY <1>1, <1>2, <1>6, <2>1, StatusWritten
  <2> QED
    BY <2>1, <2>2, <2>3 DEF NoneConnected
<1> QED
  BY <1>4, <1>5, <1>6

\* Enabling the device leaves its configuration.
LEMMA EnabledWritten ==
  ASSUME Inv, StoreEnabled
  PROVE  /\ Configured' /\ device'.enabled /\ device'.config = device.config
         /\ ValidTopology => ValidTopology'
<1>1. device \in Devices /\ device' = [device EXCEPT !.enabled = TRUE]
  BY DEF StoreEnabled, MayEnable, Open, Inv
<1>2. device' \in Devices /\ device'.enabled /\ device'.config = device.config
  BY <1>1 DEF Devices
<1>3. Configured'
  BY <1>2, NoDeviceAssumption DEF Configured
<1> QED
  BY <1>2, <1>3 DEF ValidTopology

\* In a pool that is enabled every output has a live connector.
LEMMA OutputsLive ==
  ASSUME Inv, ValidTopology, device.enabled
  PROVE  /\ live # NoDevice /\ Usable(live)
         /\ \A n \in Outputs : n \in DOMAIN live.connectors
<1>1. live # NoDevice /\ Usable(live) /\ Mirrors(live, device.config)
  BY DEF Inv, ValidTopology
<1>2. \A n \in Outputs : n \in DOMAIN device.config.status
  BY DEF ValidTopology, CompletePipeline, ConnectorsOf
<1> QED
  BY <1>1, <1>2 DEF Mirrors

\* A status that is written leaves the requested modes.
LEMMA StatusLeavesModes ==
  ASSUME Inv, ValidTopology, device.enabled, NEW n \in Outputs, NEW v \in Statuses, StoreStatus(n, v)
  PROVE  \A m \in Outputs : live'.connectors[m].requested = live.connectors[m].requested
<1>1. Usable(live) /\ \A m \in Outputs : m \in DOMAIN live.connectors
  BY OutputsLive
<1>2. live' = [live EXCEPT !.connectors[n].status = v]
  BY DEF StoreStatus, MayStoreStatus, SetStatus
<1>3. PICK dev : dev = live
  OBVIOUS
<1>4. PICK new : new = [dev EXCEPT !.connectors[n].status = v]
  OBVIOUS
<1>5. \A m \in DOMAIN dev.connectors : new.connectors[m].requested = dev.connectors[m].requested
  BY <1>1, <1>3, <1>4, LiveStatusSet
<1> QED
  BY <1>1, <1>2, <1>3, <1>4, <1>5

\* A requested mode that is written is that of one connector; everything else of the pool stays.
LEMMA ModeWritten ==
  ASSUME Inv, ValidTopology, device.enabled, NEW n \in Outputs, NEW v \in Modes, StoreRequestedMode(n, v)
  PROVE  /\ ValidTopology' /\ device'.enabled
         /\ device'.config.status = device.config.status
         /\ \A m \in Outputs \ {n} : live'.connectors[m].requested = live.connectors[m].requested
<1>1. PICK old : old = device.config
  OBVIOUS
<1>2. Configured /\ device \in Devices /\ Sound(old) /\ n \in DOMAIN old.modes /\ v \in Modes \cup {NoMode}
  BY <1>1 DEF Inv, StoreRequestedMode, ConnectorsOf, Sound
<1>3. PICK new : new = [old EXCEPT !.modes[n] = v]
  OBVIOUS
<1>4. /\ Sound(new) /\ new.status = old.status
      /\ new.types = old.types /\ new.crtcs = old.crtcs /\ new.encoders = old.encoders
      /\ new.planeCrtcs = old.planeCrtcs /\ new.encoderCrtcs = old.encoderCrtcs
      /\ new.connectorEncoders = old.connectorEncoders
  BY <1>2, <1>3, ModeStored
<1>5. PICK dev : dev = [device EXCEPT !.config = new]
  OBVIOUS
<1>6. dev \in Devices /\ dev.config = new /\ dev.enabled = device.enabled
      /\ dev.address = device.address
  BY <1>2, <1>4, <1>5 DEF Devices, Sound
<1>7. device' = dev /\ dev # NoDevice
  <2>1. device' = [device EXCEPT !.config.modes[n] = v]
    BY DEF StoreRequestedMode
  <2> QED
    BY <1>1, <1>3, <1>5, <1>6, <2>1, NoDeviceAssumption
<1>8. ASSUME NEW m \in Outputs, CompletePipeline(old, m)
      PROVE  CompletePipeline(new, m)
  BY <1>4, <1>8 DEF CompletePipeline, PlanesOf, ConnectorsOf
<1>9. \A m \in Outputs \ {n} : live'.connectors[m].requested = live.connectors[m].requested
  <2>1. Usable(live) /\ \A m \in Outputs : m \in DOMAIN live.connectors
    BY OutputsLive
  <2>2. live' = [live EXCEPT !.connectors[n].requested = v]
    BY DEF StoreRequestedMode, SetRequestedMode
  <2>3. PICK have : have = live
    OBVIOUS
  <2>4. PICK next : next = [have EXCEPT !.connectors[n].requested = v]
    OBVIOUS
  <2>5. \A m \in DOMAIN have.connectors :
            next.connectors[m].requested = IF m = n THEN v ELSE have.connectors[m].requested
    BY <1>2, <2>1, <2>3, <2>4, LiveModeSet
  <2> QED
    BY <2>1, <2>2, <2>3, <2>4, <2>5
<1> QED
  BY <1>1, <1>4, <1>6, <1>7, <1>8, <1>9 DEF Configured, ValidTopology

-----------------------------------------------------------------------------
(* The service.                                                            *)

\* A job as it starts, and as it goes on.
LEMMA JobFacts ==
  ASSUME NEW todo \in Seq(JobSteps), NEW j,
         \/ j = Job("start", "keep", todo) \/ j = Job("start", "clear", todo)
         \/ j = Job("start", "remove", todo)
         \/ j = Job("stop", "keep", todo) \/ j = Job("stop", "remove", todo)
  PROVE  /\ j \in JobRecord /\ j.todo = todo
         /\ j = Job("start", "keep", todo) => j.kind = "start" /\ j.phase = "keep"
         /\ j = Job("start", "clear", todo) => j.kind = "start" /\ j.phase = "clear"
         /\ j = Job("start", "remove", todo) => j.kind = "start" /\ j.phase = "remove"
         /\ j = Job("stop", "keep", todo) \/ j = Job("stop", "remove", todo) => j.kind = "stop"
BY DEF Job, NoJob, JobRecord

\* A job that goes on to its next phase keeps its kind and its result.
LEMMA RunFacts ==
  ASSUME job \in JobRecord, NEW phase \in {"none", "keep", "clear", "remove", "build", "rollback"},
         NEW todo \in Seq(JobSteps)
  PROVE  /\ Run(phase, todo) \in JobRecord
         /\ Run(phase, todo).kind = job.kind /\ Run(phase, todo).phase = phase
         /\ Run(phase, todo).todo = todo /\ Run(phase, todo).result = job.result
BY DEF Run, JobRecord

\* What remains of a sequence without its first element.
LEMMA RestFacts ==
  ASSUME NEW S, NEW s \in Seq(S), s # << >>
  PROVE  /\ Head(s) \in S /\ Head(s) = s[1] /\ Tail(s) \in Seq(S)
         /\ Len(s) \in Nat \ {0} /\ Len(Tail(s)) = Len(s) - 1
         /\ \A k \in 1..Len(s) - 1 : Tail(s)[k] = s[k + 1]
OBVIOUS

\* Nothing but the job changes while there are no instances.
LEMMA OutOfService ==
  ASSUME IInv, Inv', Types', Jobs', ~InService', \A i \in Instances : instance[i].pc = "free",
         UNCHANGED <<lock, instance, client, believes, revoked>>,
         service' \in {"inactive", "starting"} => service \in {"inactive", "starting"}
  PROVE  IInv'
<1>1. Whole' /\ Idle' /\ PromisesKept' /\ ConnectedHasOwner'
  BY DEF Whole, Idle, PromisesKept, ConnectedHasOwner, InService
<1>2. Locking' /\ \A i \in Instances : Seen(i)'
  BY DEF Locking, Seen, LockedPcs
<1>3. \A u \in Uids : Calling(u)'
  BY DEF IInv, Calling
<1>4. NoPromises'
  BY DEF IInv, NoPromises, Promised
<1> QED
  BY <1>1, <1>2, <1>3, <1>4 DEF IInv

\* There is no job while the service is in service, and none to instances while it is not.
LEMMA JobMeansIdle ==
  ASSUME IInv, job.kind # "none"
  PROVE  ~InService /\ \A i \in Instances : instance[i].pc = "free"
<1>1. service \in {"starting", "stopping"}
  BY DEF IInv, Jobs, Types, JobRecord
<1> QED
  BY <1>1 DEF IInv, Idle, InService

\* A start begins with the pool out of service, and only the service and its job change.
LEMMA StartKeeps ==
  ASSUME IInv, StartService
  PROVE  IInv'
<1>1. Inv'
  BY UnchangedKeeps DEF IInv, StartService
<1>2. PICK steps : steps = RemovePool
  OBVIOUS
<1>3. PICK clear, enable : clear = Step("clear_leases", 0) /\ enable = Step("enable", 0)
  OBVIOUS
<1>4. /\ steps \in Seq(JobSteps) /\ << >> \in Seq(JobSteps)
      /\ <<clear>> \in Seq(JobSteps) /\ <<enable>> \in Seq(JobSteps)
  <2>1. clear \in JobSteps /\ enable \in JobSteps
    BY <1>3, PoolStepFacts
  <2>2. steps \in Seq(JobSteps)
    BY <1>2, RemoveFacts
  <2> QED
    BY <2>1, <2>2
<1>5. /\ job' \in JobRecord /\ job'.kind = "start"
      /\ job'.phase \in {"clear", "keep", "remove"}
      /\ job'.phase = "keep" => /\ ValidTopology
                                /\ \/ job'.todo = << >> /\ device.enabled
                                   \/ job'.todo = <<enable>>
  <2>1. CASE ~Configured
    <3>1. PICK todo \in Seq(JobSteps) : todo = <<clear>>
      BY <1>4
    <3>2. job' = Job("start", "clear", todo)
      BY <1>3, <2>1, <3>1 DEF StartService, StartJob
    <3>3. job' \in JobRecord /\ job'.kind = "start" /\ job'.phase = "clear"
      BY <3>2, JobFacts
    <3> QED
      BY <3>3
  <2>2. CASE Configured /\ ValidTopology /\ device.enabled
    <3>1. PICK todo \in Seq(JobSteps) : todo = << >>
      BY <1>4
    <3>2. job' = Job("start", "keep", todo)
      BY <2>2, <3>1 DEF StartService, StartJob
    <3>3. job' \in JobRecord /\ job'.kind = "start" /\ job'.phase = "keep" /\ job'.todo = << >>
      BY <3>1, <3>2, JobFacts
    <3> QED
      BY <2>2, <3>3
  <2>3. CASE Configured /\ ValidTopology /\ ~device.enabled
    <3>1. PICK todo \in Seq(JobSteps) : todo = <<enable>>
      BY <1>4
    <3>2. job' = Job("start", "keep", todo)
      BY <1>3, <2>3, <3>1 DEF StartService, StartJob
    <3>3. job' \in JobRecord /\ job'.kind = "start" /\ job'.phase = "keep" /\ job'.todo = todo
      BY <3>2, JobFacts
    <3> QED
      BY <2>3, <3>1, <3>3
  <2>4. CASE Configured /\ ~ValidTopology
    <3>1. PICK todo \in Seq(JobSteps) : todo = steps
      BY <1>4
    <3>2. job' = Job("start", "remove", todo)
      BY <1>2, <2>4, <3>1 DEF StartService, StartJob
    <3>3. job' \in JobRecord /\ job'.kind = "start" /\ job'.phase = "remove"
      BY <3>2, JobFacts
    <3> QED
      BY <3>3
  <2> QED
    BY <2>1, <2>2, <2>3, <2>4
<1>6. /\ service = "inactive" /\ service' = "starting" /\ retained' = ValidTopology
      /\ UNCHANGED <<device, lock, instance, client, believes, revoked, lease>> /\ unconfirmed' = {}
  BY DEF StartService, configfsVars, brokerVars, clientVars
<1>7. ~InService' /\ \A i \in Instances : instance[i].pc = "free"
  BY <1>6 DEF IInv, Idle, InService
<1>8. retained' \in BOOLEAN
  BY <1>6 DEF ValidTopology, Configured
<1>9. Types'
  BY <1>5, <1>6, <1>8 DEF IInv, Types
<1>10. ASSUME job'.phase = "keep"
       PROVE  Keeping'
  <2>1. ValidTopology /\ ValidTopology' /\ retained'
    BY <1>5, <1>6, <1>10 DEF ValidTopology, Configured
  <2> QED
    BY <1>3, <1>5, <1>6, <1>10, <2>1 DEF Keeping
<1>11. Jobs'
  BY <1>5, <1>6, <1>10 DEF Jobs
<1> QED
  BY <1>1, <1>6, <1>7, <1>9, <1>11, OutOfService

\* The last instances are gone before the stop begins.
LEMMA StopKeeps ==
  ASSUME IInv, StopService
  PROVE  IInv'
<1>1. Inv'
  BY UnchangedKeeps DEF IInv, StopService
<1>2. PICK steps : steps = RemovePool
  OBVIOUS
<1>3. steps \in Seq(JobSteps) /\ << >> \in Seq(JobSteps)
  BY <1>2, RemoveFacts
<1>4. job' = Job("stop", "keep", << >>) \/ job' = Job("stop", "remove", steps)
  BY <1>2 DEF StopService
<1>5. job' \in JobRecord /\ job'.kind = "stop"
  <2>1. CASE job' = Job("stop", "keep", << >>)
    <3>1. PICK todo \in Seq(JobSteps) : todo = << >>
      BY <1>3
    <3>2. job' = Job("stop", "keep", todo)
      BY <2>1, <3>1
    <3> QED
      BY <3>2, JobFacts
  <2>2. CASE job' = Job("stop", "remove", steps)
    <3>1. PICK todo \in Seq(JobSteps) : todo = steps
      BY <1>3
    <3>2. job' = Job("stop", "remove", todo)
      BY <2>2, <3>1
    <3> QED
      BY <3>2, JobFacts
  <2> QED
    BY <1>4, <2>1, <2>2
<1>6. /\ service' = "stopping" /\ \A i \in Instances : instance[i].pc = "free"
      /\ UNCHANGED <<retained, lock, instance, client, believes, revoked, unconfirmed, lease>>
  BY DEF StopService, brokerVars, clientVars
<1>7. Types'
  BY <1>5, <1>6 DEF IInv, Types
<1>8. Jobs' /\ ~InService'
  BY <1>5, <1>6 DEF Jobs, InService
<1> QED
  BY <1>1, <1>6, <1>7, <1>8, OutOfService

\* A step that is there to be done has been done.
Done(step) == step.op # "give_up" /\ ~Absent(step) => Perform(step)

\* A build gets on by one step: what it has made connects nothing, what it hands over is whole.
LEMMA BuildAdvances ==
  ASSUME Inv, job \in JobRecord, Building, job.todo # << >>,
         NEW step, step = job.todo[1], Done(step),
         job'.todo = Tail(job.todo)
  PROVE  Building'
<1>1. PICK todo \in Seq(JobSteps) : todo = job.todo
  BY DEF JobRecord
<1>2. PICK steps : steps = BuildSteps
  OBVIOUS
<1>a. /\ Len(steps) \in Nat /\ Len(steps) >= 3
      /\ steps[1].op = "make_device"
      /\ \A k \in 2..Len(steps) - 2 : steps[k] \in ItemSteps
      /\ steps[Len(steps) - 1].op = "validate" /\ steps[Len(steps)].op = "enable"
  BY <1>2, BuildFacts
<1>b. PICK all \in Nat : all = Len(steps) /\ all >= 3
  BY <1>a
<1>c. PICK left \in Nat : left = Len(todo) /\ left >= 1
  <2>1. todo # << >>
    BY <1>1
  <2>2. Len(todo) \in Nat \ {0}
    BY <2>1, RestFacts
  <2> QED
    BY <2>2
<1>3. left <= all /\ \A k \in 1..left : todo[k] = steps[all - left + k]
  BY <1>1, <1>2, <1>b, <1>c DEF Building
<1>4. PICK rest : rest = Tail(todo)
  OBVIOUS
<1>5. /\ rest \in Seq(JobSteps) /\ Len(rest) = left - 1
      /\ \A k \in 1..left - 1 : rest[k] = todo[k + 1]
  BY <1>1, <1>b, <1>c, <1>4, RestFacts
<1>6. \A k \in 1..left - 1 : rest[k] = steps[all - (left - 1) + k]
  BY <1>b, <1>c, <1>3, <1>5
<1>7. PICK at \in 1..all : at = all - left + 1 /\ step = steps[at]
  <2>1. PICK at \in 1..all : at = all - left + 1
    BY <1>b, <1>c, <1>3
  <2>2. 1 \in 1..left
    BY <1>c
  <2>3. todo[1] = steps[all - left + 1]
    BY <1>3, <2>2
  <2>4. step = steps[at]
    BY <1>1, <2>1, <2>3, Zenon
  <2> QED
    BY <2>1, <2>4
<1>8. NoneConnected' /\ (left - 1 <= 1 => ValidTopology') /\ (left - 1 = 0 => device'.enabled)
  <2>1. CASE left = all
    <3>0. at = 1
      BY <1>7, <2>1, <1>b, <1>c
    <3>1. step.op = "make_device"
      BY <1>7, <1>a, <3>0, Zenon
    <3>2. MakeDevice
      BY <3>1 DEF Done, Perform, Absent
    <3>3. device'.config = EmptyConfig
      BY <3>2 DEF MakeDevice, MayMakeDevice
    <3>4. ConnectorsOf(EmptyConfig) = {}
      BY DEF ConnectorsOf, EmptyConfig
    <3>5. NoneConnected'
      BY <3>3, <3>4 DEF NoneConnected
    <3> QED
      BY <1>b, <1>c, <2>1, <3>5
  <2>2. CASE left < all /\ left > 2
    <3>1. at \in 2..all - 2
      BY <1>b, <1>c, <1>7, <2>2
    <3>2. step \in ItemSteps
      BY <1>a, <1>b, <1>7, <3>1, Zenon
    <3>3. step.op # "give_up" /\ ~Absent(step)
      BY <3>2 DEF ItemSteps, ItemOps, Absent
    <3>4. NoneConnected
      BY <1>1, <1>2, <1>b, <1>c, <2>2 DEF Building
    <3>5. NoneConnected'
      BY <3>2, <3>3, <3>4, BuildKeepsNone DEF Done
    <3> QED
      BY <1>b, <1>c, <2>2, <3>5
  <2>3. CASE left = 2
    <3>1. at = all - 1
      BY <1>b, <1>c, <1>7, <2>3
    <3>2. step.op = "validate"
      BY <1>a, <1>b, <1>7, <3>1, Zenon
    <3>3. ValidTopology /\ UNCHANGED configfsVars
      BY <3>2 DEF Done, Perform, Absent
    <3>4. NoneConnected
      BY <1>1, <1>2, <1>b, <1>c, <2>3 DEF Building
    <3>5. NoneConnected' /\ ValidTopology'
      BY <3>3, <3>4 DEF configfsVars, NoneConnected, ValidTopology, Configured
    <3> QED
      BY <2>3, <3>5
  <2>4. CASE left = 1
    <3>1. at = all
      BY <1>b, <1>c, <1>7, <2>4
    <3>2. step.op = "enable"
      BY <1>a, <1>b, <1>7, <3>1, Zenon
    <3>3. StoreEnabled
      BY <3>2 DEF Done, Perform, Absent
    <3>4. NoneConnected /\ ValidTopology
      BY <1>1, <1>2, <1>b, <1>c, <2>4 DEF Building
    <3>5. NoneConnected' /\ ValidTopology' /\ device'.enabled
      BY <3>3, <3>4, EnabledWritten DEF NoneConnected, ValidTopology
    <3> QED
      BY <3>5
  <2> QED
    BY <1>b, <1>c, <1>3, <2>1, <2>2, <2>3, <2>4
<1>9. job'.todo = rest
  BY <1>1, <1>4
<1>10. left - 1 <= all /\ (left - 1 < all => NoneConnected')
  BY <1>b, <1>c, <1>3, <1>8
<1>11. PICK less \in Nat : less = left - 1
  BY <1>c
<1>12. \A k \in 1..less : rest[k] = steps[all - less + k]
  BY <1>6, <1>11
<1>13. Len(rest) = less
  BY <1>5, <1>11
<1> QED
  BY <1>2, <1>b, <1>8, <1>9, <1>10, <1>11, <1>12, <1>13, Zenon DEF Building

\* A pool that is kept is enabled in one step.
LEMMA KeepAdvances ==
  ASSUME Inv, Keeping, job.todo # << >>, retained' = retained,
         NEW step, step = Head(job.todo), Done(step),
         job'.todo = Tail(job.todo)
  PROVE  Keeping'
<1>1. PICK enable : enable = Step("enable", 0)
  OBVIOUS
<1>2. job.todo = <<enable>> /\ retained /\ ValidTopology
  BY <1>1 DEF Keeping
<1>3. step = enable /\ job'.todo = << >>
  BY <1>2
<1>4. step.op = "enable"
  BY <1>1, <1>3 DEF Step
<1>5. StoreEnabled
  BY <1>4 DEF Done, Perform, Absent
<1> QED
  BY <1>2, <1>3, <1>5, EnabledWritten DEF Keeping

\* A step of a job that succeeds.
LEMMA RunKeeps ==
  ASSUME IInv, RunStep
  PROVE  IInv'
<1>1. PICK todo \in Seq(JobSteps) : todo = job.todo /\ todo # << >>
  BY DEF IInv, Types, JobRecord, RunStep
<1>2. PICK step : step = Head(todo)
  OBVIOUS
<1>3. /\ step \in JobSteps /\ step = todo[1] /\ Tail(todo) \in Seq(JobSteps)
  BY <1>1, <1>2, RestFacts
<1>4. Perform(step) \/ UNCHANGED configfsVars
  BY <1>1, <1>2 DEF RunStep
<1>5. Done(step)
  BY <1>1, <1>2 DEF RunStep, Done
<1>6. Inv'
  BY <1>3, <1>4, PerformKeeps, UnchangedKeeps DEF IInv
<1>7. /\ UNCHANGED <<service, retained, lock, instance, client, believes, revoked, unconfirmed>>
      /\ job' = Run(job.phase, Tail(todo))
      /\ ClearLeases \/ UNCHANGED lease
  BY <1>1 DEF RunStep, clientVars
<1>8. job \in JobRecord /\ job.kind # "none"
  BY <1>1 DEF IInv, Types, Jobs
<1>9. job.phase \in {"none", "keep", "clear", "remove", "build", "rollback"}
  BY <1>8 DEF JobRecord
<1>10. /\ job' \in JobRecord /\ job'.kind = job.kind /\ job'.phase = job.phase
       /\ job'.todo = Tail(todo) /\ job'.result = job.result
  <2>1. PICK rest \in Seq(JobSteps) : rest = Tail(todo)
    BY <1>3
  <2>2. PICK phase \in {"none", "keep", "clear", "remove", "build", "rollback"} : phase = job.phase
    BY <1>9
  <2>3. job' = Run(phase, rest)
    BY <1>7, <2>1, <2>2
  <2>4. /\ Run(phase, rest) \in JobRecord /\ Run(phase, rest).kind = job.kind
        /\ Run(phase, rest).phase = phase /\ Run(phase, rest).todo = rest
        /\ Run(phase, rest).result = job.result
    BY <1>8, RunFacts
  <2> QED
    BY <2>1, <2>2, <2>3, <2>4, Zenon
<1>11. lease' \in [Outputs -> Uids \cup {NoUser}]
  BY <1>7 DEF ClearLeases, IInv, Types
<1>12. Types'
  BY <1>7, <1>10, <1>11 DEF IInv, Types
<1>13. ASSUME job.phase = "build", Building
       PROVE  Building'
  BY <1>1, <1>3, <1>5, <1>8, <1>10, <1>13, BuildAdvances DEF IInv
<1>14. ASSUME Keeping
       PROVE  Keeping'
  BY <1>1, <1>2, <1>5, <1>7, <1>10, <1>14, KeepAdvances DEF IInv
<1>15. Jobs'
  BY <1>7, <1>8, <1>10, <1>13, <1>14 DEF IInv, Jobs
<1>16. ~InService /\ \A i \in Instances : instance[i].pc = "free"
  BY <1>8, JobMeansIdle
<1>17. ~InService'
  BY <1>7, <1>16 DEF InService
<1> QED
  BY <1>6, <1>7, <1>12, <1>15, <1>16, <1>17, OutOfService

\* A start that has removed the old pool clears the leases and builds the new one.
LEMMA NextPhaseKeeps ==
  ASSUME IInv, NextPhase
  PROVE  IInv'
<1>1. Inv'
  BY UnchangedKeeps DEF IInv, NextPhase
<1>2. job \in JobRecord /\ job.kind = "start" /\ job.result = "none"
  BY DEF IInv, Types, NextPhase, MorePhases
<1>3. PICK clear : clear = Step("clear_leases", 0)
  OBVIOUS
<1>4. <<clear>> \in Seq(JobSteps)
  <2>1. clear \in JobSteps
    BY <1>3, PoolStepFacts
  <2> QED
    BY <2>1
<1>5. /\ job' \in JobRecord /\ job'.kind = "start" /\ job'.result = "none"
      /\ job'.phase \in {"clear", "build"}
      /\ job'.phase = "build" => job'.todo = BuildSteps
  <2>1. CASE job.phase = "remove"
    <3>1. PICK todo \in Seq(JobSteps) : todo = <<clear>>
      BY <1>4
    <3>2. job' = Run("clear", todo)
      BY <1>3, <2>1, <3>1 DEF NextPhase
    <3> QED
      BY <1>2, <3>2 DEF Run, JobRecord
  <2>2. CASE job.phase # "remove"
    <3>1. PICK todo \in Seq(JobSteps) : todo = BuildSteps
      BY BuildFacts
    <3>2. job' = Run("build", todo)
      BY <2>2, <3>1 DEF NextPhase
    <3>3. job' \in JobRecord /\ job'.kind = "start" /\ job'.result = "none"
      BY <1>2, <3>2 DEF Run, JobRecord
    <3>4. job'.phase = "build" /\ job'.todo = todo
      BY <1>2, <3>2 DEF Run, JobRecord
    <3> QED
      BY <3>1, <3>3, <3>4
  <2> QED
    BY <2>1, <2>2
<1>6. UNCHANGED <<service, retained, lock, instance, client, believes, revoked, unconfirmed, lease>>
  BY DEF NextPhase, brokerVars, clientVars
<1>7. Types'
  BY <1>5, <1>6 DEF IInv, Types
<1>8. ASSUME job'.phase = "build"
      PROVE  Building'
  <2>1. PICK all \in Nat : all = Len(BuildSteps) /\ all >= 3
    BY BuildFacts
  <2>2. PICK todo : todo = BuildSteps
    OBVIOUS
  <2>3. \A k \in 1..all : todo[k] = BuildSteps[all - all + k]
    BY <2>1, <2>2
  <2>4. job'.todo = todo /\ Len(todo) = all
    BY <1>5, <1>8, <2>1, <2>2
  <2> QED
    BY <2>1, <2>3, <2>4 DEF Building
<1>9. Jobs'
  BY <1>2, <1>5, <1>6, <1>8 DEF IInv, Jobs
<1>10. ~InService /\ \A i \in Instances : instance[i].pc = "free"
  BY <1>2, JobMeansIdle
<1>11. ~InService'
  BY <1>6, <1>10 DEF InService
<1> QED
  BY <1>1, <1>6, <1>7, <1>9, <1>10, <1>11, OutOfService

\* A job that has gone wrong hands nothing over.
LEMMA FailedKeeps ==
  ASSUME IInv, job.kind # "none", job' \in JobRecord, job'.kind = job.kind, job'.result = "failed",
         UNCHANGED <<configfsVars, service, retained, brokerVars, clientVars>>
  PROVE  IInv'
<1>1. Inv'
  BY UnchangedKeeps DEF IInv
<1>2. UNCHANGED <<lock, instance, client, believes, revoked, unconfirmed, lease>>
  BY DEF brokerVars, clientVars
<1>3. Types'
  BY <1>2 DEF IInv, Types
<1>4. Jobs'
  BY DEF IInv, Jobs
<1>5. ~InService /\ \A i \in Instances : instance[i].pc = "free"
  BY JobMeansIdle
<1>6. ~InService'
  BY <1>5 DEF InService
<1> QED
  BY <1>1, <1>2, <1>3, <1>4, <1>5, <1>6, OutOfService

\* A step that fails ends its phase as any failure does.
LEMMA StepFailsKeeps ==
  ASSUME IInv, StepFails
  PROVE  IInv'
<1>1. PICK todo \in Seq(JobSteps) : todo = job.todo /\ todo # << >>
  BY DEF IInv, Types, JobRecord, StepFails
<1>2. job \in JobRecord /\ job.kind # "none"
  BY <1>1 DEF IInv, Types, Jobs
<1>3. PICK rest \in Seq(JobSteps) : rest = Tail(todo)
  BY <1>1, RestFacts
<1>4. PICK steps \in Seq(JobSteps) : steps = RemovePool
  BY RemoveFacts
<1>5. PICK step, next : step = Head(job.todo) /\ next = AfterFailure(step)
  OBVIOUS
<1>6. PICK failed : failed = [job EXCEPT !.result = "failed"]
  OBVIOUS
<1>7. /\ failed \in JobRecord /\ failed.kind = job.kind /\ failed.result = "failed"
      /\ failed.todo = todo
  BY <1>1, <1>2, <1>6 DEF JobRecord
<1>8. next \in JobRecord /\ next.kind = job.kind /\ next.result = "failed"
  <2>1. CASE step.op \in InGroup
    <3>1. next = [failed EXCEPT !.incomplete = TRUE, !.todo = Tail(failed.todo)]
      BY <1>5, <1>6, <2>1 DEF AfterFailure
    <3>2. next = [failed EXCEPT !.incomplete = TRUE, !.todo = rest]
      BY <1>3, <1>7, <3>1
    <3> QED
      BY <1>7, <3>2 DEF JobRecord
  <2>2. CASE step.op \notin InGroup /\ job.phase = "build"
    <3>1. next = [failed EXCEPT !.phase = "rollback", !.todo = steps]
      BY <1>4, <1>5, <1>6, <2>2 DEF AfterFailure
    <3> QED
      BY <1>7, <3>1 DEF JobRecord
  <2>3. CASE step.op \notin InGroup /\ job.phase # "build"
    <3>1. next = [failed EXCEPT !.todo = << >>]
      BY <1>5, <1>6, <2>3 DEF AfterFailure
    <3>2. << >> \in Seq(JobSteps)
      OBVIOUS
    <3> QED
      BY <1>7, <3>1, <3>2 DEF JobRecord
  <2> QED
    BY <2>1, <2>2, <2>3
<1>9. job' = next \/ job' = [next EXCEPT !.faulted = TRUE]
  BY <1>5, Zenon DEF StepFails
<1>10. job' \in JobRecord /\ job'.kind = job.kind /\ job'.result = "failed"
  <2>1. CASE job' = next
    BY <1>8, <2>1
  <2>2. CASE job' = [next EXCEPT !.faulted = TRUE]
    BY <1>8, <2>2 DEF JobRecord
  <2> QED
    BY <1>9, <2>1, <2>2
<1>11. UNCHANGED <<configfsVars, service, retained, brokerVars, clientVars>>
  BY Zenon DEF StepFails
<1> QED
  BY <1>2, <1>10, <1>11, FailedKeeps

\* A kill leaves configfs and the leases alone, and marks the job failed.
LEMMA KillKeeps ==
  ASSUME IInv, KillJob
  PROVE  IInv'
<1>1. job \in JobRecord /\ job.kind # "none"
  BY DEF IInv, Types, Jobs, KillJob
<1>2. job' = [job EXCEPT !.todo = << >>, !.faulted = TRUE, !.result = "failed"]
  BY DEF KillJob
<1>3. << >> \in Seq(JobSteps)
  OBVIOUS
<1>4. job' \in JobRecord /\ job'.kind = job.kind /\ job'.result = "failed"
  BY <1>1, <1>2, <1>3 DEF JobRecord
<1>5. UNCHANGED <<configfsVars, service, retained, brokerVars, clientVars>>
  BY DEF KillJob
<1> QED
  BY <1>1, <1>4, <1>5, FailedKeeps

\* A start that has not gone wrong hands over a whole pool, in which nothing is connected
\* that has no owner and nobody holds a promise; whatever else ends takes all outputs back.
LEMMA EndKeeps ==
  ASSUME IInv, EndJob
  PROVE  IInv'
<1>1. Inv'
  BY UnchangedKeeps DEF IInv, EndJob
<1>2. /\ job \in JobRecord /\ job.kind # "none" /\ job.todo = << >> /\ ~MorePhases
      /\ job' = NoJob
      /\ UNCHANGED <<device, retained, lock, instance, client, believes, unconfirmed>>
  BY DEF IInv, Types, EndJob, configfsVars
<1>3. NoJob \in JobRecord /\ NoJob.kind = "none" /\ NoJob.todo = << >>
  <2>1. << >> \in Seq(JobSteps)
    OBVIOUS
  <2> QED
    BY <2>1 DEF NoJob, JobRecord
<1>4. \A i \in Instances : instance[i].pc = "free"
  BY <1>2, JobMeansIdle
<1>5. Locking' /\ Idle' /\ \A i \in Instances : Seen(i)'
  BY <1>2, <1>4 DEF Locking, Seen, LockedPcs, Idle
<1>6. \A u \in Uids : Calling(u)'
  BY <1>2 DEF IInv, Calling
<1>7. CASE job.kind = "start" /\ job.result = "none"
  <2>1. service' = "active" /\ UNCHANGED <<lease, revoked, unconfirmed>> /\ service = "starting"
    BY <1>2, <1>7 DEF EndJob, IInv, Jobs
  <2>2. Types'
    BY <1>2, <1>3, <2>1 DEF IInv, Types
  <2>3. Jobs'
    BY <1>2, <1>3, <2>1 DEF Jobs
  <2>4. (job.phase = "build" /\ Building) \/ (job.phase = "keep" /\ Keeping)
    BY <1>2, <1>7 DEF IInv, Jobs, MorePhases
  <2>5. Building => ValidTopology /\ device.enabled /\ NoneConnected
    <3>1. PICK steps : steps = BuildSteps
      OBVIOUS
    <3>2. Len(steps) \in Nat /\ Len(steps) >= 3
      BY <3>1, BuildFacts
    <3>3. Len(job.todo) = 0
      BY <1>2
    <3>4. 0 < Len(steps) /\ 0 <= 1
      BY <3>2
    <3> QED
      BY <3>1, <3>3, <3>4, Zenon DEF Building
  <2>6. Keeping => ValidTopology /\ device.enabled /\ retained
    BY <1>2 DEF Keeping
  <2>7. Whole'
    BY <1>2, <2>4, <2>5, <2>6 DEF Whole, ValidTopology, Configured
  <2>8. ConnectedHasOwner'
    <3>1. ASSUME ~retained, NEW n \in Outputs
          PROVE  ~Connected(n)
      BY <2>4, <2>5, <2>6, <3>1 DEF NoneConnected, Connected, ValidTopology, CompletePipeline
    <3> QED
      BY <1>2, <3>1 DEF ConnectedHasOwner, Connected
  <2>9. PromisesKept'
    BY <1>2, <2>1 DEF IInv, NoPromises, PromisesKept, Promised
  <2>10. NoPromises'
    BY <2>1 DEF NoPromises
  <2> QED
    BY <1>1, <1>5, <1>6, <2>2, <2>3, <2>7, <2>8, <2>9, <2>10 DEF IInv
<1>8. CASE ~(job.kind = "start" /\ job.result = "none")
  <2>1. service' = "inactive" /\ ClearLeases /\ revoked' = Users \X Outputs
    BY <1>8 DEF EndJob
  <2>2. lease' \in [Outputs -> Uids \cup {NoUser}]
    BY <2>1 DEF ClearLeases
  <2>3. Types'
    BY <1>2, <1>3, <2>1, <2>2 DEF IInv, Types, Uids
  <2>4. Jobs'
    BY <1>2, <1>3, <2>1 DEF Jobs
  <2>5. Whole' /\ ConnectedHasOwner' /\ PromisesKept'
    BY <2>1 DEF Whole, ConnectedHasOwner, PromisesKept, InService
  <2>6. NoPromises'
    BY <2>1 DEF NoPromises
  <2> QED
    BY <1>1, <1>5, <1>6, <2>3, <2>4, <2>5, <2>6 DEF IInv
<1> QED
  BY <1>7, <1>8

\* Draining the instances takes the pool out of service and changes no output.
LEMMA DrainKeeps ==
  ASSUME IInv, DrainInstances
  PROVE  IInv'
<1>1. Inv'
  BY UnchangedKeeps DEF IInv, DrainInstances
<1>2. /\ service = "active" /\ service' = "draining"
      /\ UNCHANGED <<device, job, retained, lease, lock, instance, client, believes, revoked, unconfirmed>>
  BY DEF DrainInstances, configfsVars, brokerVars, clientVars
<1>3. Types' /\ Locking'
  BY <1>2 DEF IInv, Types, Locking
<1>4. Jobs'
  BY <1>2 DEF IInv, Jobs
<1>5. Whole' /\ Idle' /\ ConnectedHasOwner'
  BY <1>2 DEF IInv, Whole, Idle, ConnectedHasOwner, InService, ValidTopology, Configured, Connected
<1>6. \A i \in Instances : Seen(i)'
  BY <1>2 DEF IInv, Seen, Kept, Connected
<1>7. \A u \in Uids : Calling(u)'
  BY <1>2 DEF IInv, Calling
<1>8. PromisesKept' /\ NoPromises'
  BY <1>2 DEF IInv, PromisesKept, NoPromises, Promised, Kept, Connected, InService
<1> QED
  BY <1>1, <1>3, <1>4, <1>5, <1>6, <1>7, <1>8 DEF IInv

-----------------------------------------------------------------------------
(* The clients.                                                            *)

\* The calls of the client: only connect asks for a connected output.
LEMMA CallFacts ==
  ASSUME NEW call \in Calls
  PROVE  /\ call.wanted \in {"any", "connected", "disconnected"}
         /\ call.verb \in {"status", "connect", "disconnect", "mode"}
         /\ call.wanted = "connected" => call.verb = "connect"
<1>1. \/ \E w \in {"connected", "disconnected"} : \E v \in SetConnector(w) : call = [wanted |-> w, verb |-> v]
      \/ \E v \in {"status", "mode"} : call = [wanted |-> "any", verb |-> v]
  <2>1. CASE call \in UNION {{[wanted |-> w, verb |-> v] : v \in SetConnector(w)} : w \in {"connected", "disconnected"}}
    <3>1. PICK some \in {{[wanted |-> w, verb |-> v] : v \in SetConnector(w)} : w \in {"connected", "disconnected"}} :
             call \in some
      BY <2>1
    <3>2. PICK w \in {"connected", "disconnected"} : some = {[wanted |-> w, verb |-> v] : v \in SetConnector(w)}
      OBVIOUS
    <3> QED
      BY <3>1, <3>2, Zenon
  <2>2. CASE call \in {[wanted |-> "any", verb |-> v] : v \in {"status", "mode"}}
    BY <2>2, Zenon
  <2> QED
    BY <2>1, <2>2 DEF Calls
<1>2. CASE \E w \in {"connected", "disconnected"} : \E v \in SetConnector(w) : call = [wanted |-> w, verb |-> v]
  <2>1. PICK w \in {"connected", "disconnected"} : \E v \in SetConnector(w) : call = [wanted |-> w, verb |-> v]
    BY <1>2
  <2>a. PICK v \in SetConnector(w) : call = [wanted |-> w, verb |-> v]
    BY <2>1
  <2>2. v \in {"connect", "disconnect"} /\ (w = "connected" => v = "connect")
    BY <2>1 DEF SetConnector
  <2> QED
    BY <2>1, <2>a, <2>2
<1>3. CASE \E v \in {"status", "mode"} : call = [wanted |-> "any", verb |-> v]
  BY <1>3
<1> QED
  BY <1>1, <1>2, <1>3

\* Only the client hears something: nothing is promised that was not.
LEMMA ClientKeeps ==
  ASSUME IInv, UNCHANGED <<configfsVars, poolVars, brokerVars, revoked, unconfirmed>>,
         client' \in [Uids -> Call], believes' \subseteq Uids \X Outputs,
         \A u \in Uids : Calling(u)',
         \A u \in Users, n \in Outputs : Promised(u, n)' => Promised(u, n)
  PROVE  IInv'
<1>1. UNCHANGED <<device, service, job, retained, lease, lock, instance>>
  BY DEF configfsVars, poolVars, brokerVars
<1>2. Inv'
  BY UnchangedKeeps DEF IInv
<1>3. Types' /\ Locking'
  BY <1>1 DEF IInv, Types, Locking
<1>4. Jobs'
  BY <1>1 DEF IInv, Jobs, Building, Keeping, NoneConnected, ValidTopology, Configured
<1>5. Whole' /\ Idle' /\ ConnectedHasOwner'
  BY <1>1 DEF IInv, Whole, Idle, ConnectedHasOwner, InService, ValidTopology, Configured, Connected
<1>6. \A i \in Instances : Seen(i)'
  BY <1>1 DEF IInv, Seen, Kept, Connected
<1>7. PromisesKept' /\ NoPromises'
  BY <1>1 DEF IInv, PromisesKept, NoPromises, Kept, Connected, InService
<1> QED
  BY <1>2, <1>3, <1>4, <1>5, <1>6, <1>7 DEF IInv

\* A client that gives up a call forgets it, and is promised nothing by it.
LEMMA TimeOutKeeps ==
  ASSUME IInv, NEW u \in Uids, TimeOut(u)
  PROVE  IInv'
<1>1. /\ client' = [client EXCEPT ![u] = NoCall] /\ believes' = believes /\ instance' = instance
      /\ UNCHANGED <<configfsVars, poolVars, brokerVars, revoked, unconfirmed>>
  BY DEF TimeOut, brokerVars
<1>2. client \in [Uids -> Call] /\ believes \subseteq Uids \X Outputs
  BY DEF IInv, Types
<1>3. /\ NoCall \in Call /\ NoCall.instance = NoInstance /\ NoCall.verb = "none"
  BY PoolAssumption DEF NoCall, Call
<1>4. /\ client' \in [Uids -> Call] /\ client'[u] = NoCall
      /\ \A v \in Uids : v # u => client'[v] = client[v]
  BY <1>1, <1>2, <1>3
<1>5. ASSUME NEW v \in Uids
      PROVE  Calling(v)'
  <2>1. CASE v = u
    BY <1>3, <1>4, <2>1 DEF Calling
  <2>2. CASE v # u
    BY <1>1, <1>4, <2>2 DEF IInv, Calling
  <2> QED
    BY <2>1, <2>2
<1>6. ASSUME NEW v \in Users, NEW n \in Outputs, Promised(v, n)'
      PROVE  Promised(v, n)
  BY <1>1, <1>3, <1>4, <1>6 DEF Promised, Uids
<1> QED
  BY <1>1, <1>2, <1>4, <1>5, <1>6, ClientKeeps

\* A compositor that closes an unplugged device changes nothing else.
LEMMA CloseKeeps ==
  ASSUME IInv, NEW a \in Addresses, CloseUnplugged(a)
  PROVE  IInv'
<1>1. LastClose(a) /\ UNCHANGED <<poolVars, brokerVars, clientVars>>
  BY DEF CloseUnplugged
<1>2. /\ UNCHANGED <<device, service, job, retained, lease, lock, instance, client, believes>>
      /\ UNCHANGED <<revoked, unconfirmed>>
  BY <1>1 DEF LastClose, poolVars, brokerVars, clientVars
<1>3. Inv'
  BY <1>1, DeviceKeeps DEF IInv
<1>4. Types' /\ Locking'
  BY <1>2 DEF IInv, Types, Locking
<1>5. Jobs'
  BY <1>2 DEF IInv, Jobs, Building, Keeping, NoneConnected, ValidTopology, Configured
<1>6. Whole' /\ Idle' /\ ConnectedHasOwner'
  BY <1>2 DEF IInv, Whole, Idle, ConnectedHasOwner, InService, ValidTopology, Configured, Connected
<1>7. \A i \in Instances : Seen(i)'
  BY <1>2 DEF IInv, Seen, Kept, Connected
<1>8. \A u \in Uids : Calling(u)'
  BY <1>2 DEF IInv, Calling
<1>9. PromisesKept' /\ NoPromises'
  BY <1>2 DEF IInv, PromisesKept, NoPromises, Promised, Kept, Connected, InService
<1> QED
  BY <1>3, <1>4, <1>5, <1>6, <1>7, <1>8, <1>9 DEF IInv

\* What a user believes now is what it was about to be told.
LEMMA ReceiveKeeps ==
  ASSUME IInv, NEW u \in Uids, Receive(u)
  PROVE  IInv'
<1>1. /\ client' = [client EXCEPT ![u] = NoCall] /\ instance' = instance
      /\ UNCHANGED <<configfsVars, poolVars, brokerVars, revoked, unconfirmed>>
  BY DEF Receive, brokerVars
<1>2. client \in [Uids -> Call] /\ believes \subseteq Uids \X Outputs
  BY DEF IInv, Types
<1>3. /\ NoCall \in Call /\ NoCall.instance = NoInstance /\ NoCall.verb = "none" /\ NoCall.answer = "none"
  BY PoolAssumption DEF NoCall, Call
<1>4. /\ client' \in [Uids -> Call] /\ client'[u] = NoCall
      /\ \A v \in Uids : v # u => client'[v] = client[v]
  BY <1>1, <1>2, <1>3
<1>5. client[u].output \in Outputs
  <2>1. client[u] # NoCall
    BY <1>3 DEF Receive
  <2> QED
    BY <2>1 DEF IInv, Calling
<1>6. \/ believes' = believes
      \/ /\ client[u].verb = "connected" /\ client[u].answer = "connected"
         /\ believes' = believes \cup {<<u, client[u].output>>}
  BY DEF Receive
<1>7. believes' \subseteq Uids \X Outputs
  BY <1>2, <1>5, <1>6
<1>8. ASSUME NEW v \in Uids
      PROVE  Calling(v)'
  <2>1. CASE v = u
    BY <1>3, <1>4, <2>1 DEF Calling
  <2>2. CASE v # u
    <3>1. Calling(v)
      BY DEF IInv
    <3>2. \A n : <<v, n>> \in believes' => <<v, n>> \in believes
      BY <1>6, <2>2
    <3> QED
      BY <1>1, <1>4, <2>2, <3>1, <3>2 DEF Calling
  <2> QED
    BY <2>1, <2>2
<1>9. ASSUME NEW v \in Users, NEW n \in Outputs, Promised(v, n)'
      PROVE  Promised(v, n)
  <2>1. CASE v = u
    BY <1>3, <1>4, <1>6, <1>9, <2>1 DEF Promised, Uids
  <2>2. CASE v # u
    <3>1. <<v, n>> \in believes' => <<v, n>> \in believes
      BY <1>6, <2>2
    <3>2. client'[v] = client[v]
      BY <1>4, <2>2 DEF Uids
    <3> QED
      BY <1>9, <3>1, <3>2 DEF Promised
  <2> QED
    BY <2>1, <2>2
<1> QED
  BY <1>1, <1>4, <1>7, <1>8, <1>9, ClientKeeps

\* A request starts a free instance, which holds no lock and has promised nothing.
LEMMA RequestKeeps ==
  ASSUME IInv, NEW u \in Uids, NEW n \in Outputs, Request(u, n)
  PROVE  IInv'
<1>1. PICK i \in Instances, call \in Calls, mode \in Modes :
        /\ instance[i].pc = "free"
        /\ instance' = [instance EXCEPT ![i] =
              [pc |-> "received", user |-> u, verb |-> call.verb, output |-> n,
               mode |-> IF call.verb = "mode" THEN mode ELSE NoMode]]
        /\ client' = [client EXCEPT ![u] =
              [instance |-> i, verb |-> call.wanted, output |-> n, answer |-> "none"]]
  BY DEF Request
<1>2. /\ service = "active" /\ believes' = believes \ {<<u, n>>}
      /\ UNCHANGED <<device, service, job, retained, lease, lock, revoked, unconfirmed>>
  BY DEF Request, configfsVars, poolVars
<1>3. /\ call.wanted \in {"any", "connected", "disconnected"}
      /\ call.verb \in {"status", "connect", "disconnect", "mode"}
      /\ call.wanted = "connected" => call.verb = "connect"
  BY CallFacts
<1>4. PICK heard, asked :
        /\ heard = [pc |-> "received", user |-> u, verb |-> call.verb, output |-> n,
                    mode |-> IF call.verb = "mode" THEN mode ELSE NoMode]
        /\ asked = [instance |-> i, verb |-> call.wanted, output |-> n, answer |-> "none"]
  OBVIOUS
<1>5. n \in 0..OutputCount
  BY PoolAssumption DEF Outputs
<1>6. /\ heard \in Instance /\ heard.pc = "received" /\ heard.user = u /\ heard.output = n
      /\ heard.verb = call.verb
      /\ heard.verb = "mode" => heard.mode \in Modes
  BY <1>3, <1>4, <1>5 DEF Instance
<1>7. /\ asked \in Call /\ asked.instance = i /\ asked.verb = call.wanted /\ asked.output = n
      /\ asked.answer = "none"
  BY <1>3, <1>4, <1>5 DEF Call
<1>8. /\ instance \in [Instances -> Instance] /\ client \in [Uids -> Call]
      /\ believes \subseteq Uids \X Outputs
  BY DEF IInv, Types
<1>9. /\ instance' \in [Instances -> Instance] /\ instance'[i] = heard
      /\ \A j \in Instances : j # i => instance'[j] = instance[j]
  BY <1>1, <1>4, <1>6, <1>8
<1>10. /\ client' \in [Uids -> Call] /\ client'[u] = asked
       /\ \A v \in Uids : v # u => client'[v] = client[v]
  BY <1>1, <1>4, <1>7, <1>8
<1>11. Inv'
  BY UnchangedKeeps DEF IInv, Request
<1>12. believes' \subseteq Uids \X Outputs
  BY <1>2, <1>8
<1>13. Types'
  BY <1>2, <1>9, <1>10, <1>12 DEF IInv, Types
<1>14. Jobs'
  BY <1>2 DEF IInv, Jobs, Building, Keeping, NoneConnected, ValidTopology, Configured
<1>15. Whole' /\ Idle' /\ ConnectedHasOwner'
  BY <1>2 DEF IInv, Whole, Idle, ConnectedHasOwner, InService, ValidTopology, Configured, Connected
<1>16. Locking'
  BY <1>2, <1>6, <1>9 DEF IInv, Locking, LockedPcs
<1>17. ASSUME NEW j \in Instances
       PROVE  Seen(j)'
  <2>1. CASE j = i
    BY <1>6, <1>9, <2>1 DEF Seen
  <2>2. CASE j # i
    BY <1>2, <1>9, <2>2 DEF IInv, Seen, Kept, Connected
  <2> QED
    BY <2>1, <2>2
<1>18. ASSUME NEW v \in Uids
       PROVE  Calling(v)'
  <2>1. CASE v = u
    <3>1. <<u, n>> \notin believes'
      BY <1>2
    <3> QED
      BY <1>3, <1>6, <1>7, <1>9, <1>10, <2>1, <3>1 DEF Calling
  <2>2. CASE v # u
    <3>1. Calling(v) /\ client'[v] = client[v]
      BY <1>10, <2>2 DEF IInv
    <3>2. \A m : <<v, m>> \in believes' => <<v, m>> \in believes
      BY <1>2
    <3>3. client[v].instance # NoInstance =>
            client[v].instance # i /\ instance'[client[v].instance] = instance[client[v].instance]
      <4>1. client[v].instance \in Instances \cup {NoInstance}
        BY <1>8 DEF Call
      <4> QED
        BY <1>1, <1>9, <3>1, <4>1 DEF Calling
    <3> QED
      BY <3>1, <3>2, <3>3 DEF Calling
  <2> QED
    BY <2>1, <2>2
<1>19. ASSUME NEW v \in Users, NEW m \in Outputs, Promised(v, m)'
       PROVE  Promised(v, m)
  <2>1. <<v, m>> \in believes' => <<v, m>> \in believes
    BY <1>2
  <2> QED
    BY <1>7, <1>10, <1>19, <2>1 DEF Promised, Uids
<1>20. PromisesKept' /\ NoPromises'
  BY <1>2, <1>19 DEF IInv, PromisesKept, NoPromises, Kept, Connected, InService
<1> QED
  BY <1>11, <1>13, <1>14, <1>15, <1>16, <1>17, <1>18, <1>20 DEF IInv

-----------------------------------------------------------------------------
(* The instances.                                                          *)

\* An instance that runs serves a user's request for an output of a whole pool.
LEMMA RunningFacts ==
  ASSUME IInv, NEW i \in Instances, instance[i].pc # "free"
  PROVE  /\ InService /\ ValidTopology /\ device.enabled
         /\ instance[i].user \in Uids /\ instance[i].output \in Outputs
         /\ Users \subseteq Uids /\ NoUser \notin Uids /\ i # NoInstance
<1>1. Idle /\ Whole /\ Seen(i)
  BY DEF IInv
<1> QED
  BY <1>1, UsersAssumption DEF Idle, Whole, Seen, Uids

\* A step changes only the output of which the instance has the lock.
OthersUntouched(i) ==
    \A m \in Outputs :
        \/ m = instance[i].output /\ instance[i].pc \in LockedPcs
        \/ lease'[m] = lease[m] /\ device'.config.status[m] = device.config.status[m]

\* What was promised and is not taken back is still so.
OldPromisesKept ==
    \A u \in Users, n \in Outputs : Promised(u, n) /\ <<u, n>> \notin revoked' => Kept(u, n)'

\* What is promised now is so.
NewPromiseKept(i, answer) ==
    answer = "connected" /\ instance[i].verb = "connect" =>
        \A u \in Users, n \in Outputs :
            instance[i].user = u /\ instance[i].output = n => Kept(u, n)'

\* What the others have seen of their outputs stays true.
LEMMA OthersSee ==
  ASSUME IInv, NEW i \in Instances, instance[i].pc # "free", OthersUntouched(i),
         NEW j \in Instances, j # i, instance'[j] = instance[j]
  PROVE  Seen(j)'
<1>1. Seen(j) /\ Locking /\ instance[i].output \in Outputs
  BY RunningFacts DEF IInv
<1>2. CASE instance[j].pc \in LockedPcs
  <2>1. instance[j].output \in Outputs
    BY <1>1, <1>2 DEF Seen, LockedPcs
  <2>2. ~(instance[j].output = instance[i].output /\ instance[i].pc \in LockedPcs)
    BY <1>1, <1>2 DEF Locking
  <2>3. /\ lease'[instance[j].output] = lease[instance[j].output]
        /\ device'.config.status[instance[j].output] = device.config.status[instance[j].output]
    BY <2>1, <2>2 DEF OthersUntouched
  <2> QED
    BY <1>1, <2>3 DEF Seen, Kept, Connected
<1>3. CASE instance[j].pc \notin LockedPcs
  BY <1>1, <1>3 DEF Seen, LockedPcs
<1> QED
  BY <1>2, <1>3

\* The service and its job do not change while instances run.
LEMMA ServiceUntouched ==
  ASSUME IInv, InService, UNCHANGED poolVars
  PROVE  Jobs' /\ Idle' /\ NoPromises' /\ InService' /\ retained' = retained
<1>1. UNCHANGED <<service, job, retained>>
  BY DEF poolVars
<1>2. job.kind # "start"
  BY DEF IInv, Jobs, InService
<1>3. Jobs'
  BY <1>1, <1>2 DEF IInv, Jobs
<1> QED
  BY <1>1, <1>3 DEF Idle, NoPromises, InService

\* A step that goes on.
LEMMA GoesOnKeeps ==
  ASSUME IInv, NEW i \in Instances, instance[i].pc # "free", NEW pc \in LockedPcs \cup {"locking"},
         GoesOn(i, pc), Inv', Whole', ConnectedHasOwner',
         lock' \in [Outputs -> Instances \cup {NoInstance}], lease' \in [Outputs -> Uids \cup {NoUser}],
         revoked' \subseteq Uids \X Outputs /\ unconfirmed' \subseteq Outputs, OthersUntouched(i), Locking', Seen(i)', OldPromisesKept
  PROVE  IInv'
<1>1. /\ instance' = [instance EXCEPT ![i].pc = pc]
      /\ UNCHANGED poolVars /\ client' = client /\ believes' = believes
  BY DEF GoesOn
<1>2. instance \in [Instances -> Instance]
  BY DEF IInv, Types
<1>3. PICK new : new = [instance[i] EXCEPT !.pc = pc]
  OBVIOUS
<1>4. /\ new \in Instance /\ new.pc = pc /\ new.user = instance[i].user /\ new.verb = instance[i].verb
      /\ new.output = instance[i].output
  BY <1>2, <1>3 DEF Instance
<1>5. /\ instance' \in [Instances -> Instance] /\ instance'[i] = new
      /\ \A j \in Instances : j # i => instance'[j] = instance[j]
  BY <1>1, <1>2, <1>3, <1>4
<1>6. InService
  BY RunningFacts
<1>7. Jobs' /\ Idle' /\ NoPromises'
  BY <1>1, <1>6, ServiceUntouched
<1>8. Types'
  BY <1>1, <1>5 DEF IInv, Types, poolVars
<1>9. \A j \in Instances : Seen(j)'
  BY <1>5, OthersSee
<1>10. ASSUME NEW u \in Uids
       PROVE  Calling(u)'
  <2>1. Calling(u)
    BY DEF IInv
  <2>2. client[u].instance \in Instances \cup {NoInstance}
    BY DEF IInv, Types, Call
  <2>3. new.pc # "free"
    BY <1>4 DEF LockedPcs
  <2> QED
    BY <1>1, <1>4, <1>5, <2>1, <2>2, <2>3 DEF Calling
<1>11. PromisesKept'
  BY <1>1 DEF PromisesKept, OldPromisesKept, Promised
<1> QED
  BY <1>7, <1>8, <1>9, <1>10, <1>11 DEF IInv

\* A step that ends with an answer.
LEMMA AnswerKeeps ==
  ASSUME IInv, NEW i \in Instances, instance[i].pc # "free",
         NEW answer \in {"error", "connected", "disconnected", "unknown", "mode"},
         Answering(i, answer), Inv', Whole', ConnectedHasOwner',
         lease' \in [Outputs -> Uids \cup {NoUser}], revoked' \subseteq Uids \X Outputs /\ unconfirmed' \subseteq Outputs,
         OthersUntouched(i), OldPromisesKept,
         NewPromiseKept(i, answer)
  PROVE  IInv'
<1>1. /\ instance' = [instance EXCEPT ![i] = Free]
      /\ lock' = [n \in Outputs |-> IF lock[n] = i THEN NoInstance ELSE lock[n]]
      /\ client' = [u \in Uids |-> IF client[u].instance = i
                                   THEN [client[u] EXCEPT !.instance = NoInstance, !.answer = answer]
                                   ELSE client[u]]
      /\ UNCHANGED poolVars /\ believes' = believes
  BY DEF Answering
<1>2. /\ instance \in [Instances -> Instance] /\ client \in [Uids -> Call]
      /\ lock \in [Outputs -> Instances \cup {NoInstance}]
  BY DEF IInv, Types
<1>3. Free \in Instance /\ Free.pc = "free"
  BY PoolAssumption DEF Free, Instance
<1>4. /\ instance' \in [Instances -> Instance] /\ instance'[i] = Free
      /\ \A j \in Instances : j # i => instance'[j] = instance[j]
  BY <1>1, <1>2, <1>3
<1>5. /\ lock' \in [Outputs -> Instances \cup {NoInstance}]
      /\ \A n \in Outputs : lock'[n] = IF lock[n] = i THEN NoInstance ELSE lock[n]
  BY <1>1, <1>2
<1>6. ASSUME NEW u \in Uids
      PROVE  /\ client'[u] \in Call
             /\ client[u].instance # i => client'[u] = client[u]
             /\ client[u].instance = i =>
                    /\ client'[u].instance = NoInstance /\ client'[u].answer = answer
                    /\ client'[u].verb = client[u].verb /\ client'[u].output = client[u].output
  <2>1. client[u] \in Call
    BY <1>2
  <2>2. PICK call : call = [client[u] EXCEPT !.instance = NoInstance, !.answer = answer]
    OBVIOUS
  <2>3. /\ call \in Call /\ call.instance = NoInstance /\ call.answer = answer
        /\ call.verb = client[u].verb /\ call.output = client[u].output
    BY <2>1, <2>2 DEF Call
  <2>4. client'[u] = IF client[u].instance = i THEN call ELSE client[u]
    BY <1>1, <2>2
  <2> QED
    BY <2>1, <2>3, <2>4
<1>7. client' \in [Uids -> Call]
  BY <1>1, <1>6
<1>8. InService
  BY RunningFacts
<1>9. Jobs' /\ Idle' /\ NoPromises'
  BY <1>1, <1>8, ServiceUntouched
<1>10. Types'
  BY <1>1, <1>4, <1>5, <1>7 DEF IInv, Types, poolVars
<1>11. Seen(i)'
  BY <1>3, <1>4 DEF Seen
<1>12. \A j \in Instances : Seen(j)'
  BY <1>4, <1>11, OthersSee
<1>13. Locking'
  <2>1. ASSUME NEW j \in Instances, instance'[j].pc \in LockedPcs
        PROVE  lock'[instance'[j].output] = j
    <3>1. j # i /\ instance'[j] = instance[j]
      BY <1>3, <1>4, <2>1 DEF LockedPcs
    <3>2. instance[j].output \in Outputs
      BY <2>1, <3>1 DEF IInv, Seen, LockedPcs
    <3>3. lock[instance[j].output] = j
      BY <2>1, <3>1 DEF IInv, Locking
    <3> QED
      BY <1>5, <3>1, <3>2, <3>3
  <2> QED
    BY <2>1 DEF Locking
<1>14. ASSUME NEW u \in Uids
       PROVE  Calling(u)'
  <2>1. Calling(u) /\ i # NoInstance
    BY RunningFacts DEF IInv
  <2>2. client[u].instance \in Instances \cup {NoInstance}
    BY <1>2 DEF Call
  <2>3. CASE client[u].instance = i
    <3>1. client[u] # NoCall
      BY <2>1, <2>3 DEF NoCall
    <3>2. client[u].output \in Outputs /\ <<u, client[u].output>> \notin believes
      BY <2>1, <3>1 DEF Calling
    <3>3. client'[u].instance = NoInstance /\ client'[u].output = client[u].output
      BY <1>6, <2>3
    <3>4. believes' = believes
      BY <1>1
    <3> QED
      BY <3>2, <3>3, <3>4 DEF Calling
  <2>4. CASE client[u].instance # i
    BY <1>1, <1>4, <1>6, <2>1, <2>2, <2>4 DEF Calling
  <2> QED
    BY <2>3, <2>4
<1>15. ASSUME NEW u \in Users, NEW n \in Outputs, Promised(u, n)', <<u, n>> \notin revoked'
       PROVE  Kept(u, n)'
  <2>1. u \in Uids /\ Calling(u) /\ i # NoInstance
    BY RunningFacts DEF IInv
  <2>2. CASE Promised(u, n)
    BY <1>15, <2>2 DEF OldPromisesKept
  <2>3. CASE ~Promised(u, n)
    <3>1. /\ client[u].instance = i /\ answer = "connected"
          /\ client[u].verb = "connected" /\ client[u].output = n
      BY <1>1, <1>6, <1>15, <2>1, <2>3 DEF Promised
    <3>2. instance[i].user = u /\ instance[i].output = n /\ instance[i].verb = "connect"
      BY <2>1, <3>1 DEF Calling
    <3> QED
      BY <3>1, <3>2 DEF NewPromiseKept
  <2> QED
    BY <2>2, <2>3
<1>16. PromisesKept'
  BY <1>15 DEF PromisesKept
<1> QED
  BY <1>5, <1>9, <1>10, <1>12, <1>13, <1>14, <1>16 DEF IInv

\* Where an instance is after a step that goes on.
LEMMA GoneOn ==
  ASSUME IInv, NEW i \in Instances, NEW pc \in LockedPcs \cup {"locking"}, GoesOn(i, pc)
  PROVE  /\ instance'[i].pc = pc /\ instance'[i].user = instance[i].user
         /\ instance'[i].verb = instance[i].verb /\ instance'[i].output = instance[i].output
         /\ instance'[i].mode = instance[i].mode
         /\ \A j \in Instances : j # i => instance'[j] = instance[j]
<1>1. instance' = [instance EXCEPT ![i].pc = pc] /\ instance \in [Instances -> Instance]
  BY DEF GoesOn, IInv, Types
<1>2. PICK new : new = [instance[i] EXCEPT !.pc = pc]
  OBVIOUS
<1>3. /\ new.pc = pc /\ new.user = instance[i].user /\ new.verb = instance[i].verb
      /\ new.output = instance[i].output /\ new.mode = instance[i].mode
  BY <1>1, <1>2 DEF Instance
<1>4. instance'[i] = new /\ \A j \in Instances : j # i => instance'[j] = instance[j]
  BY <1>1, <1>2
<1> QED
  BY <1>3, <1>4

\* An instance that has the lock and goes on still has it.
LEMMA LockStays ==
  ASSUME IInv, NEW i \in Instances, instance[i].pc \in LockedPcs, NEW pc \in LockedPcs, GoesOn(i, pc), lock' = lock
  PROVE  Locking'
<1>1. /\ instance'[i].output = instance[i].output
      /\ \A j \in Instances : j # i => instance'[j] = instance[j]
  BY GoneOn
<1> QED
  BY <1>1 DEF IInv, Locking

\* While configfs, the leases and what was taken back stay, so do the promises.
LEMMA NothingWritten ==
  ASSUME IInv, NEW i \in Instances, instance[i].pc # "free", UNCHANGED <<configfsVars, poolVars>>
  PROVE  /\ Inv' /\ Whole' /\ device' = device /\ InService /\ retained' = retained
         /\ lease' = lease /\ unconfirmed' = unconfirmed => ConnectedHasOwner' /\ OthersUntouched(i)
         /\ UNCHANGED <<lease, revoked>> => OldPromisesKept
<1>1. /\ Inv' /\ device' = device /\ UNCHANGED <<service, job, retained>>
  BY UnchangedKeeps DEF IInv, configfsVars, poolVars
<1>2. InService
  BY RunningFacts
<1>3. Whole'
  BY <1>1 DEF IInv, Whole, InService, ValidTopology, Configured
<1>4. lease' = lease /\ unconfirmed' = unconfirmed => ConnectedHasOwner' /\ OthersUntouched(i)
  BY <1>1 DEF IInv, ConnectedHasOwner, InService, Connected, OthersUntouched
<1>5. UNCHANGED <<lease, revoked>> => OldPromisesKept
  BY <1>1, <1>2 DEF IInv, PromisesKept, OldPromisesKept, Kept, Connected
<1> QED
  BY <1>1, <1>2, <1>3, <1>4, <1>5

\* A step that only answers.
LEMMA OnlyAnswers ==
  ASSUME IInv, NEW i \in Instances, instance[i].pc # "free",
         NEW answer \in {"error", "connected", "disconnected", "unknown", "mode"},
         Answering(i, answer), UNCHANGED <<configfsVars, lease, revoked, unconfirmed>>, NewPromiseKept(i, answer)
  PROVE  IInv'
<1>1. UNCHANGED poolVars
  BY DEF Answering
<1>2. Inv' /\ Whole' /\ ConnectedHasOwner' /\ OthersUntouched(i) /\ OldPromisesKept
  BY <1>1, NothingWritten
<1>3. lease' \in [Outputs -> Uids \cup {NoUser}] /\ revoked' \subseteq Uids \X Outputs /\ unconfirmed' \subseteq Outputs
  BY DEF IInv, Types
<1> QED
  BY <1>2, <1>3, AnswerKeeps

\* A step with the lock that only goes on.
LEMMA OnlyGoesOn ==
  ASSUME IInv, NEW i \in Instances, instance[i].pc \in LockedPcs, NEW pc \in LockedPcs,
         GoesOn(i, pc), UNCHANGED <<configfsVars, lease, revoked, unconfirmed, lock>>, Seen(i)'
  PROVE  IInv'
<1>1. UNCHANGED poolVars /\ instance[i].pc # "free"
  BY DEF GoesOn, LockedPcs
<1>2. Inv' /\ Whole' /\ ConnectedHasOwner' /\ OthersUntouched(i) /\ OldPromisesKept
  BY <1>1, NothingWritten
<1>3. /\ lease' \in [Outputs -> Uids \cup {NoUser}] /\ revoked' \subseteq Uids \X Outputs /\ unconfirmed' \subseteq Outputs
      /\ lock' \in [Outputs -> Instances \cup {NoInstance}]
  BY DEF IInv, Types
<1>4. Locking'
  BY LockStays
<1> QED
  BY <1>1, <1>2, <1>3, <1>4, GoesOnKeeps

\* What an instance answers or goes on with after it checked the pool keeps the invariant.
LEMMA CheckPoolKeeps ==
  ASSUME IInv, NEW i \in Instances, CheckPool(i)
  PROVE  IInv'
<1>1. instance[i].pc = "received" /\ UNCHANGED <<configfsVars, lease, revoked, unconfirmed>>
  BY DEF CheckPool
<1>2. PICK n : n = instance[i].output
  OBVIOUS
<1>3. n \in Outputs /\ ValidTopology /\ device.enabled
  BY <1>1, <1>2, RunningFacts
<1>4. Configured /\ device.config.status[n] \in {"connected", "disconnected"}
  BY <1>3 DEF ValidTopology, CompletePipeline
<1>5. CASE instance[i].verb = "status"
  <2>1. PICK answer \in {"connected", "disconnected"} : answer = device.config.status[n]
    BY <1>4
  <2>2. Answering(i, answer)
    BY <1>2, <1>3, <1>4, <1>5, <2>1 DEF CheckPool
  <2>3. NewPromiseKept(i, answer)
    BY <1>5 DEF NewPromiseKept
  <2>4. answer \in {"error", "connected", "disconnected", "unknown", "mode"}
    OBVIOUS
  <2> QED
    BY <1>1, <2>2, <2>3, <2>4, OnlyAnswers
<1>6. CASE instance[i].verb # "status"
  <2>1. PICK pc \in LockedPcs \cup {"locking"} : pc = "locking"
    OBVIOUS
  <2>2. GoesOn(i, pc) /\ lock' = lock
    BY <1>2, <1>3, <1>4, <1>6, <2>1 DEF CheckPool
  <2>3. UNCHANGED poolVars
    BY <2>2 DEF GoesOn
  <2>4. Inv' /\ Whole' /\ ConnectedHasOwner' /\ OthersUntouched(i) /\ OldPromisesKept
    BY <1>1, <2>3, NothingWritten
  <2>5. /\ lease' \in [Outputs -> Uids \cup {NoUser}] /\ revoked' \subseteq Uids \X Outputs /\ unconfirmed' \subseteq Outputs
        /\ lock' \in [Outputs -> Instances \cup {NoInstance}]
    BY <1>1, <2>2 DEF IInv, Types
  <2>6. /\ instance'[i].pc = "locking" /\ instance'[i].user = instance[i].user
        /\ instance'[i].verb = instance[i].verb /\ instance'[i].output = instance[i].output
        /\ instance'[i].mode = instance[i].mode
        /\ \A j \in Instances : j # i => instance'[j] = instance[j]
    BY <2>1, <2>2, GoneOn
  <2>7. Locking'
    BY <2>2, <2>6 DEF IInv, Locking, LockedPcs
  <2>8. Seen(i)'
    BY <1>1, <2>6 DEF IInv, Seen
  <2> QED
    BY <1>1, <2>2, <2>4, <2>5, <2>7, <2>8, GoesOnKeeps
<1> QED
  BY <1>5, <1>6

\* An instance takes the lock of its output only when no other holds it.
LEMMA LockKeeps ==
  ASSUME IInv, NEW i \in Instances, Lock(i)
  PROVE  IInv'
<1>1. /\ instance[i].pc = "locking" /\ lock[instance[i].output] = NoInstance
      /\ lock' = [lock EXCEPT ![instance[i].output] = i]
      /\ UNCHANGED <<configfsVars, lease, revoked, unconfirmed>>
  BY DEF Lock
<1>2. PICK pc \in LockedPcs \cup {"locking"} : pc = "locked"
  BY DEF LockedPcs
<1>3. GoesOn(i, pc) /\ UNCHANGED poolVars
  BY <1>2 DEF Lock, GoesOn
<1>4. Inv' /\ Whole' /\ ConnectedHasOwner' /\ OthersUntouched(i) /\ OldPromisesKept
  BY <1>1, <1>3, NothingWritten
<1>5. instance[i].output \in Outputs /\ lock \in [Outputs -> Instances \cup {NoInstance}]
  BY <1>1, RunningFacts DEF IInv, Types
<1>6. /\ lease' \in [Outputs -> Uids \cup {NoUser}] /\ revoked' \subseteq Uids \X Outputs /\ unconfirmed' \subseteq Outputs
      /\ lock' \in [Outputs -> Instances \cup {NoInstance}]
  BY <1>1, <1>5 DEF IInv, Types
<1>7. /\ instance'[i].pc = "locked" /\ instance'[i].user = instance[i].user
      /\ instance'[i].verb = instance[i].verb /\ instance'[i].output = instance[i].output
      /\ instance'[i].mode = instance[i].mode
      /\ \A j \in Instances : j # i => instance'[j] = instance[j]
  BY <1>2, <1>3, GoneOn
<1>8. ASSUME NEW j \in Instances, instance'[j].pc \in LockedPcs
      PROVE  lock'[instance'[j].output] = j
  <2>1. CASE j = i
    BY <1>1, <1>5, <1>7, <2>1
  <2>2. CASE j # i
    <3>1. instance[j].pc \in LockedPcs
      BY <1>7, <1>8, <2>2
    <3>2. lock[instance[j].output] = j /\ instance[j].output \in Outputs
      BY <3>1 DEF IInv, Locking, Seen, LockedPcs
    <3>3. j # NoInstance
      BY UsersAssumption
    <3> QED
      BY <1>1, <1>5, <1>7, <2>2, <3>2, <3>3
  <2> QED
    BY <2>1, <2>2
<1>9. Locking'
  BY <1>8 DEF Locking
<1>10. Seen(i)'
  BY <1>1, <1>7 DEF IInv, Seen
<1> QED
  BY <1>1, <1>3, <1>4, <1>6, <1>9, <1>10, GoesOnKeeps

\* Any step that gives up.
LEMMA ErrorKeeps ==
  ASSUME IInv, NEW i \in Instances, instance[i].pc # "free", Answering(i, "error"),
         UNCHANGED <<configfsVars, lease, revoked, unconfirmed>>
  PROVE  IInv'
<1>1. PICK answer \in {"error", "connected", "disconnected", "unknown", "mode"} : answer = "error"
  OBVIOUS
<1>2. Answering(i, answer) /\ NewPromiseKept(i, answer)
  BY <1>1 DEF NewPromiseKept
<1> QED
  BY <1>2, OnlyAnswers

\* On a connected output the owner is told so, and root takes over one that is lost.
LEMMA ConnectConnectedKeeps ==
  ASSUME IInv, NEW i \in Instances, ConnectConnected(i)
  PROVE  IInv'
<1>1. PICK n, u : n = instance[i].output /\ u = instance[i].user
  OBVIOUS
<1>2. /\ instance[i].pc = "locked" /\ Connected(n) /\ instance[i].verb = "connect"
      /\ UNCHANGED <<configfsVars, lease, unconfirmed>>
  BY <1>1 DEF ConnectConnected
<1>3. /\ n \in Outputs /\ u \in Uids /\ InService /\ instance[i].pc # "free"
      /\ instance[i].pc \in LockedPcs
  BY <1>1, <1>2, RunningFacts DEF LockedPcs
<1>4. CASE lease[n] = NoUser /\ u = Root
  <2>1. PICK pc \in LockedPcs : pc = "claim"
    BY DEF LockedPcs
  <2>2. GoesOn(i, pc) /\ UNCHANGED <<configfsVars, lease, revoked, unconfirmed, lock>>
    BY <1>1, <1>2, <1>4, <2>1 DEF ConnectConnected
  <2>3. /\ instance'[i].pc = "claim" /\ instance'[i].user = u
        /\ instance'[i].verb = instance[i].verb /\ instance'[i].output = n
        /\ instance'[i].mode = instance[i].mode
    BY <1>1, <2>1, <2>2, GoneOn
  <2>4. Seen(i)'
    BY <1>1, <1>2, <1>3, <1>4, <2>3 DEF IInv, Seen
  <2> QED
    BY <1>3, <2>2, <2>4, OnlyGoesOn
<1>5. CASE ~(lease[n] = NoUser /\ u = Root)
  <2>1. PICK answer \in {"error", "connected", "disconnected", "unknown", "mode"} :
            answer = IF MayKeep(u, n) THEN "connected" ELSE "error"
    OBVIOUS
  <2>2. /\ Answering(i, answer)
        /\ revoked' = IF u = lease[n] THEN revoked \ {<<u, n>>} ELSE revoked
    BY <1>1, <1>5, <2>1 DEF ConnectConnected
  <2>3. UNCHANGED poolVars
    BY <2>2 DEF Answering
  <2>4. Inv' /\ Whole' /\ ConnectedHasOwner' /\ OthersUntouched(i) /\ device' = device
    BY <1>2, <1>3, <2>3, NothingWritten
  <2>5. /\ lease' \in [Outputs -> Uids \cup {NoUser}] /\ revoked' \subseteq Uids \X Outputs /\ unconfirmed' \subseteq Outputs
    BY <1>2, <2>2 DEF IInv, Types
  <2>6. ASSUME NEW v \in Users, NEW m \in Outputs, Promised(v, m), <<v, m>> \notin revoked'
        PROVE  Kept(v, m)'
    <3>1. CASE <<v, m>> \notin revoked
      BY <1>2, <1>3, <2>4, <2>6, <3>1 DEF IInv, PromisesKept, Kept, Connected
    <3>2. CASE <<v, m>> \in revoked
      <4>1. v = u /\ m = n /\ u = lease[n]
        BY <2>2, <2>6, <3>2
      <4> QED
        BY <1>2, <2>4, <4>1 DEF Kept, Connected
    <3> QED
      BY <3>1, <3>2
  <2>7. ASSUME answer = "connected", NEW v \in Users, NEW m \in Outputs, u = v, n = m
        PROVE  Kept(v, m)'
    <3>1. u = lease[n]
      BY <2>1, <2>7, UsersAssumption DEF MayKeep
    <3> QED
      BY <1>2, <2>4, <2>7, <3>1 DEF Kept, Connected
  <2>8. NewPromiseKept(i, answer)
    BY <1>1, <2>7 DEF NewPromiseKept
  <2>9. OldPromisesKept
    BY <2>6 DEF OldPromisesKept
  <2> QED
    BY <1>3, <2>2, <2>4, <2>5, <2>8, <2>9, AnswerKeeps
<1> QED
  BY <1>4, <1>5

\* A lease that is written is that of one output.
LEMMA LeaseWritten ==
  ASSUME IInv, NEW n \in Outputs, NEW u \in Uids \cup {NoUser}, SetLease(n, u)
  PROVE  /\ lease' \in [Outputs -> Uids \cup {NoUser}]
         /\ \A m \in Outputs : lease'[m] = IF m = n THEN u ELSE lease[m]
BY DEF IInv, Types, SetLease

\* The lease of an output that is not connected may be written: nobody counts on it.
LEMMA LeaseOfDisconnected ==
  ASSUME IInv, NEW i \in Instances, instance[i].pc \in LockedPcs, NEW n, n = instance[i].output, ~Connected(n),
         NEW u \in Uids \cup {NoUser}, SetLease(n, u), UNCHANGED <<configfsVars, poolVars>>,
         revoked' \in {revoked, revoked \cup {<<instance[i].user, n>>}},
         unconfirmed' \in {unconfirmed, unconfirmed \ {n}}
  PROVE  /\ Inv' /\ Whole' /\ ConnectedHasOwner' /\ OthersUntouched(i) /\ OldPromisesKept
         /\ device' = device
         /\ lease' \in [Outputs -> Uids \cup {NoUser}] /\ revoked' \subseteq Uids \X Outputs /\ unconfirmed' \subseteq Outputs
         /\ lease'[n] = u
<1>1. instance[i].pc # "free"
  BY DEF LockedPcs
<1>2. n \in Outputs /\ InService /\ Inv' /\ Whole' /\ device' = device /\ retained' = retained
  BY <1>1, RunningFacts, NothingWritten
<1>3. /\ lease' \in [Outputs -> Uids \cup {NoUser}]
      /\ \A m \in Outputs : lease'[m] = IF m = n THEN u ELSE lease[m]
  BY <1>2, LeaseWritten
<1>4. ConnectedHasOwner'
  BY <1>2, <1>3 DEF IInv, ConnectedHasOwner, Connected
<1>5. OthersUntouched(i)
  BY <1>2, <1>3 DEF OthersUntouched
<1>6. ASSUME NEW v \in Users, NEW m \in Outputs, Promised(v, m), <<v, m>> \notin revoked'
      PROVE  Kept(v, m)'
  <2>1. Kept(v, m)
    BY <1>2, <1>6 DEF IInv, PromisesKept
  <2>2. m # n
    BY <2>1 DEF Kept
  <2> QED
    BY <1>2, <1>3, <2>1, <2>2 DEF Kept, Connected
<1>7. OldPromisesKept
  BY <1>6 DEF OldPromisesKept
<1>8. revoked' \subseteq Uids \X Outputs /\ unconfirmed' \subseteq Outputs
  BY <1>1, <1>2, RunningFacts DEF IInv, Types
<1> QED
  BY <1>2, <1>3, <1>4, <1>5, <1>7, <1>8

\* A stale lease of a disconnected output is removed under the lock, and takes no promise back.
LEMMA ConnectDisconnectedKeeps ==
  ASSUME IInv, NEW i \in Instances, ConnectDisconnected(i)
  PROVE  IInv'
<1>1. PICK n : n = instance[i].output
  OBVIOUS
<1>2. PICK pc \in LockedPcs : pc = "write lease"
  BY DEF LockedPcs
<1>3. /\ instance[i].pc = "locked" /\ ~Connected(n) /\ SetLease(n, NoUser)
      /\ GoesOn(i, pc) /\ UNCHANGED <<configfsVars, lock, revoked, unconfirmed>>
  BY <1>1, <1>2 DEF ConnectDisconnected
<1>4. UNCHANGED poolVars /\ instance[i].pc # "free" /\ instance[i].pc \in LockedPcs
  BY <1>3 DEF GoesOn, LockedPcs
<1>5. /\ Inv' /\ Whole' /\ ConnectedHasOwner' /\ OthersUntouched(i) /\ OldPromisesKept
      /\ device' = device
      /\ lease' \in [Outputs -> Uids \cup {NoUser}] /\ revoked' \subseteq Uids \X Outputs /\ unconfirmed' \subseteq Outputs
  <2>1. NoUser \in Uids \cup {NoUser}
    OBVIOUS
  <2> QED
    BY <1>1, <1>3, <1>4, <2>1, LeaseOfDisconnected
<1>6. /\ instance'[i].pc = "write lease" /\ instance'[i].user = instance[i].user
      /\ instance'[i].verb = instance[i].verb /\ instance'[i].output = n
      /\ instance'[i].mode = instance[i].mode
  BY <1>1, <1>2, <1>3, GoneOn
<1>7. Seen(i)'
  BY <1>1, <1>3, <1>4, <1>5, <1>6 DEF IInv, Seen, Connected
<1>8. Locking'
  BY <1>3, <1>4, LockStays
<1>9. lock' \in [Outputs -> Instances \cup {NoInstance}]
  BY <1>3 DEF IInv, Types
<1> QED
  BY <1>3, <1>4, <1>5, <1>7, <1>8, <1>9, GoesOnKeeps

\* The lease that is written first: root's of a lost output, or the user's of a disconnected one.
LEMMA WriteLeaseKeeps ==
  ASSUME IInv, NEW i \in Instances, WriteLease(i)
  PROVE  IInv'
<1>1. PICK n, u : n = instance[i].output /\ u = instance[i].user
  OBVIOUS
<1>2. CASE instance[i].pc = "claim"
  <2>1. PICK answer \in {"error", "connected", "disconnected", "unknown", "mode"} : answer = "connected"
    OBVIOUS
  <2>2. /\ SetLease(n, Root) /\ Answering(i, answer) /\ UNCHANGED <<configfsVars, revoked>>
        /\ unconfirmed' = unconfirmed \ {n}
    BY <1>1, <1>2, <2>1 DEF WriteLease
  <2>3. UNCHANGED poolVars /\ instance[i].pc # "free" /\ instance[i].pc \in LockedPcs
    BY <1>2, <2>2 DEF Answering, LockedPcs
  <2>4. /\ n \in Outputs /\ InService /\ Inv' /\ Whole' /\ device' = device /\ retained' = retained
        /\ Users \subseteq Uids /\ NoUser \notin Uids
    BY <1>1, <2>2, <2>3, RunningFacts, NothingWritten
  <2>5. u = Root /\ lease[n] = NoUser
    BY <1>1, <1>2 DEF IInv, Seen
  <2>6. Root \in Uids \cup {NoUser} /\ Root \in Uids
    BY DEF Uids
  <2>7. /\ lease' \in [Outputs -> Uids \cup {NoUser}]
        /\ \A m \in Outputs : lease'[m] = IF m = n THEN Root ELSE lease[m]
    BY <2>2, <2>4, <2>6, LeaseWritten
  <2>8. ConnectedHasOwner'
    BY <2>2, <2>4, <2>6, <2>7 DEF IInv, ConnectedHasOwner, Connected
  <2>9. OthersUntouched(i)
    BY <1>1, <2>3, <2>4, <2>7 DEF OthersUntouched
  <2>10. ASSUME NEW v \in Users, NEW m \in Outputs, Promised(v, m), <<v, m>> \notin revoked'
         PROVE  Kept(v, m)'
    <3>1. Kept(v, m)
      BY <2>2, <2>4, <2>10 DEF IInv, PromisesKept
    <3>2. m # n
      BY <2>4, <2>5, <3>1 DEF Kept
    <3> QED
      BY <2>4, <2>7, <3>1, <3>2 DEF Kept, Connected
  <2>11. OldPromisesKept
    BY <2>10 DEF OldPromisesKept
  <2>12. NewPromiseKept(i, answer)
    BY <1>1, <2>5, UsersAssumption DEF NewPromiseKept
  <2>13. revoked' \subseteq Uids \X Outputs /\ unconfirmed' \subseteq Outputs
    BY <2>2 DEF IInv, Types
  <2> QED
    BY <2>2, <2>3, <2>4, <2>7, <2>8, <2>9, <2>11, <2>12, <2>13, AnswerKeeps
<1>3. CASE instance[i].pc = "write lease"
  <2>1. PICK pc \in LockedPcs : pc = "connect"
    BY DEF LockedPcs
  <2>2. /\ SetLease(n, u) /\ GoesOn(i, pc) /\ UNCHANGED <<configfsVars, lock, revoked>>
        /\ unconfirmed' = unconfirmed \ {n}
    BY <1>1, <1>3, <2>1 DEF WriteLease
  <2>3. UNCHANGED poolVars /\ instance[i].pc # "free" /\ instance[i].pc \in LockedPcs
    BY <1>3, <2>2 DEF GoesOn, LockedPcs
  <2>4. ~Connected(n) /\ u \in Uids \cup {NoUser}
    BY <1>1, <1>3, <2>3, RunningFacts DEF IInv, Seen
  <2>5. /\ Inv' /\ Whole' /\ ConnectedHasOwner' /\ OthersUntouched(i) /\ OldPromisesKept
        /\ device' = device /\ lease'[n] = u
        /\ lease' \in [Outputs -> Uids \cup {NoUser}] /\ revoked' \subseteq Uids \X Outputs /\ unconfirmed' \subseteq Outputs
    BY <1>1, <2>2, <2>3, <2>4, LeaseOfDisconnected
  <2>6. /\ instance'[i].pc = "connect" /\ instance'[i].user = u
        /\ instance'[i].verb = instance[i].verb /\ instance'[i].output = n
        /\ instance'[i].mode = instance[i].mode
    BY <1>1, <2>1, <2>2, GoneOn
  <2>7. Seen(i)'
    BY <1>1, <2>3, <2>4, <2>5, <2>6 DEF IInv, Seen, Connected
  <2>8. Locking'
    BY <2>2, <2>3, LockStays
  <2>9. lock' \in [Outputs -> Instances \cup {NoInstance}]
    BY <2>2 DEF IInv, Types
  <2> QED
    BY <2>2, <2>3, <2>5, <2>7, <2>8, <2>9, GoesOnKeeps
<1> QED
  BY <1>2, <1>3 DEF WriteLease

\* A status that an instance writes is that of its own output, and the pool stays whole.
LEMMA StatusStep ==
  ASSUME IInv, NEW i \in Instances, instance[i].pc \in LockedPcs, NEW n, n = instance[i].output,
         NEW v \in {"connected", "disconnected"}, StoreStatus(n, v), UNCHANGED <<poolVars, lease>>
  PROVE  /\ Inv' /\ Whole' /\ OthersUntouched(i) /\ InService /\ retained' = retained
         /\ n \in Outputs
         /\ \A m \in Outputs : device'.config.status[m] = IF m = n THEN v ELSE device.config.status[m]
<1>1. /\ n \in Outputs /\ InService /\ ValidTopology /\ device.enabled /\ retained' = retained
      /\ service' = service
  BY RunningFacts DEF LockedPcs, poolVars
<1>2. n \in Connectors /\ v \in Statuses /\ Inv
  BY <1>1, PoolAssumption DEF Statuses, IInv
<1>3. Inv'
  BY <1>2, StatusKeeps
<1>4. /\ Configured' /\ device'.enabled = device.enabled /\ ValidTopology'
      /\ \A m \in ConnectorsOf(device.config) :
               device'.config.status[m] = IF m = n THEN v ELSE device.config.status[m]
  BY <1>1, <1>2, StatusWritten
<1>5. \A m \in Outputs : m \in ConnectorsOf(device.config)
  BY <1>1 DEF ValidTopology, CompletePipeline
<1>6. \A m \in Outputs : device'.config.status[m] = IF m = n THEN v ELSE device.config.status[m]
  BY <1>4, <1>5
<1>7. Whole'
  BY <1>1, <1>4 DEF Whole
<1>8. OthersUntouched(i)
  BY <1>6 DEF OthersUntouched
<1> QED
  BY <1>1, <1>3, <1>6, <1>7, <1>8

\* Connecting keeps the promise to the user, and there were none to others.
LEMMA WriteConnectedKeeps ==
  ASSUME IInv, NEW i \in Instances, WriteStatusConnected(i)
  PROVE  IInv'
<1>1. PICK n, u : n = instance[i].output /\ u = instance[i].user
  OBVIOUS
<1>2. PICK v \in {"connected", "disconnected"} : v = "connected"
  OBVIOUS
<1>3. PICK pc \in LockedPcs : pc = "report connected"
  BY DEF LockedPcs
<1>4. /\ instance[i].pc = "connect" /\ StoreStatus(n, v) /\ GoesOn(i, pc)
      /\ revoked' = revoked \ {<<u, n>>} /\ UNCHANGED <<lease, lock, unconfirmed>>
  BY <1>1, <1>2, <1>3 DEF WriteStatusConnected
<1>5. UNCHANGED <<poolVars, lease>> /\ instance[i].pc # "free" /\ instance[i].pc \in LockedPcs
  BY <1>4 DEF GoesOn, LockedPcs
<1>6. /\ Inv' /\ Whole' /\ OthersUntouched(i) /\ InService /\ retained' = retained /\ n \in Outputs
      /\ \A m \in Outputs : device'.config.status[m] = IF m = n THEN v ELSE device.config.status[m]
  BY <1>1, <1>4, <1>5, StatusStep
<1>7. /\ lease[n] = u /\ ~Connected(n) /\ u \in Uids /\ NoUser \notin Uids
  BY <1>1, <1>4, <1>5, RunningFacts DEF IInv, Seen
<1>8. ConnectedHasOwner'
  BY <1>4, <1>6, <1>7 DEF IInv, ConnectedHasOwner, Connected
<1>9. Kept(u, n)'
  BY <1>2, <1>4, <1>6, <1>7 DEF Kept, Connected
<1>10. ASSUME NEW w \in Users, NEW m \in Outputs, Promised(w, m), <<w, m>> \notin revoked'
       PROVE  Kept(w, m)'
  <2>1. CASE <<w, m>> \in revoked
    <3>1. w = u /\ m = n
      BY <1>4, <1>10, <2>1
    <3> QED
      BY <1>2, <1>4, <1>6, <1>7, <3>1 DEF Kept, Connected
  <2>2. CASE <<w, m>> \notin revoked
    <3>1. Kept(w, m)
      BY <1>6, <1>10, <2>2 DEF IInv, PromisesKept
    <3>2. m # n
      BY <1>7, <3>1 DEF Kept
    <3> QED
      BY <1>4, <1>6, <3>1, <3>2 DEF Kept, Connected
  <2> QED
    BY <2>1, <2>2
<1>11. OldPromisesKept
  BY <1>10 DEF OldPromisesKept
<1>12. /\ instance'[i].pc = "report connected" /\ instance'[i].user = u
       /\ instance'[i].verb = instance[i].verb /\ instance'[i].output = n
       /\ instance'[i].mode = instance[i].mode
  BY <1>1, <1>3, <1>4, GoneOn
<1>13. Seen(i)'
  BY <1>1, <1>2, <1>4, <1>5, <1>6, <1>7, <1>12 DEF IInv, Seen, Kept, Connected
<1>14. Locking'
  BY <1>4, <1>5, LockStays
<1>15. /\ lock' \in [Outputs -> Instances \cup {NoInstance}]
       /\ lease' \in [Outputs -> Uids \cup {NoUser}] /\ revoked' \subseteq Uids \X Outputs /\ unconfirmed' \subseteq Outputs
  BY <1>4 DEF IInv, Types
<1> QED
  BY <1>4, <1>5, <1>6, <1>8, <1>11, <1>13, <1>14, <1>15, GoesOnKeeps

\* The output is still the user's when it hears so.
LEMMA ReportKeeps ==
  ASSUME IInv, NEW i \in Instances, ReportConnected(i)
  PROVE  IInv'
<1>1. PICK answer \in {"error", "connected", "disconnected", "unknown", "mode"} : answer = "connected"
  OBVIOUS
<1>2. /\ instance[i].pc = "report connected" /\ instance[i].pc # "free"
      /\ Answering(i, answer) /\ UNCHANGED <<configfsVars, lease, revoked, unconfirmed>>
  BY <1>1 DEF ReportConnected
<1>3. PICK n, u : n = instance[i].output /\ u = instance[i].user
  OBVIOUS
<1>4. Kept(u, n)
  BY <1>2, <1>3 DEF IInv, Seen
<1>5. device' = device /\ lease' = lease
  BY <1>2 DEF configfsVars
<1>6. ASSUME NEW v \in Users, NEW m \in Outputs, u = v, n = m
      PROVE  Kept(v, m)'
  BY <1>4, <1>5, <1>6 DEF Kept, Connected
<1>7. NewPromiseKept(i, answer)
  BY <1>3, <1>6 DEF NewPromiseKept
<1> QED
  BY <1>2, <1>7, OnlyAnswers

\* An output that could not be connected is nobody's or keeps its lease; one that was
\* connected and could not be read back keeps it too, or is left unconfirmed.
LEMMA ConnectFailsKeeps ==
  ASSUME IInv, NEW i \in Instances, ConnectFails(i)
  PROVE  IInv'
<1>1. PICK n, u : n = instance[i].output /\ u = instance[i].user
  OBVIOUS
<1>2. PICK answer \in {"error", "connected", "disconnected", "unknown", "mode"} : answer = "error"
  OBVIOUS
<1>3. /\ instance[i].pc \in {"connect", "report connected"} /\ Answering(i, answer)
      /\ UNCHANGED configfsVars
  BY <1>2 DEF ConnectFails
<1>4. UNCHANGED poolVars /\ instance[i].pc # "free" /\ instance[i].pc \in LockedPcs
  BY <1>3 DEF Answering, LockedPcs
<1>5. /\ n \in Outputs /\ u \in Uids /\ InService /\ Inv' /\ Whole' /\ device' = device
      /\ retained' = retained
  BY <1>1, <1>3, <1>4, RunningFacts, NothingWritten
<1>6. NewPromiseKept(i, answer)
  BY <1>2 DEF NewPromiseKept
<1>7. CASE UNCHANGED <<lease, revoked, unconfirmed>>
  BY <1>2, <1>3, <1>4, <1>7, ErrorKeeps
<1>8. CASE ~UNCHANGED <<lease, revoked, unconfirmed>>
  <2>1. /\ SetLease(n, NoUser) /\ revoked' = revoked \cup {<<u, n>>}
        /\ unconfirmed' = IF instance[i].pc = "report connected"
                          THEN unconfirmed \cup {n} ELSE unconfirmed
    BY <1>1, <1>8 DEF ConnectFails
  <2>2. /\ lease' \in [Outputs -> Uids \cup {NoUser}]
        /\ \A m \in Outputs : lease'[m] = IF m = n THEN NoUser ELSE lease[m]
    BY <1>5, <2>1, LeaseWritten
  <2>3. revoked' \subseteq Uids \X Outputs /\ unconfirmed' \subseteq Outputs
    <3>1. unconfirmed' = unconfirmed \/ unconfirmed' = unconfirmed \cup {n}
      BY <2>1
    <3>2. revoked \subseteq Uids \X Outputs /\ unconfirmed \subseteq Outputs
      BY DEF IInv, Types
    <3>3. revoked' = revoked \cup {<<u, n>>}
      BY <2>1
    <3> QED
      BY <1>5, <3>1, <3>2, <3>3
  <2>4. Connected(n) => n \in unconfirmed'
    BY <1>1, <1>3, <2>1 DEF IInv, Seen
  <2>5. unconfirmed \subseteq unconfirmed'
    BY <2>1
  <2>6. ConnectedHasOwner'
    BY <1>5, <2>2, <2>4, <2>5 DEF IInv, ConnectedHasOwner, Connected
  <2>7. OthersUntouched(i)
    BY <1>1, <1>4, <1>5, <2>2 DEF OthersUntouched
  <2>8. ASSUME NEW w \in Users, NEW m \in Outputs, Promised(w, m), <<w, m>> \notin revoked'
        PROVE  Kept(w, m)'
    <3>1. Kept(w, m) /\ ~(w = u /\ m = n)
      BY <1>5, <2>1, <2>8 DEF IInv, PromisesKept
    <3>2. Connected(n) => lease[n] = u
      BY <1>1, <1>3 DEF IInv, Seen, Kept
    <3>3. m # n
      BY <3>1, <3>2 DEF Kept
    <3> QED
      BY <1>5, <2>2, <3>1, <3>3 DEF Kept, Connected
  <2>9. OldPromisesKept
    BY <2>8 DEF OldPromisesKept
  <2> QED
    BY <1>3, <1>4, <1>5, <1>6, <2>2, <2>3, <2>6, <2>7, <2>9, AnswerKeeps
<1> QED
  BY <1>7, <1>8

\* Only the owner and root get as far as disconnecting a connected output.
LEMMA DisconnectKeeps ==
  ASSUME IInv, NEW i \in Instances, Disconnect(i)
  PROVE  IInv'
<1>1. PICK n, u : n = instance[i].output /\ u = instance[i].user
  OBVIOUS
<1>2. /\ instance[i].pc = "locked" /\ instance[i].verb = "disconnect"
      /\ UNCHANGED <<configfsVars, lease, revoked, unconfirmed>>
  BY DEF Disconnect
<1>3. instance[i].pc # "free" /\ instance[i].pc \in LockedPcs
  BY <1>2 DEF LockedPcs
<1>4. CASE ~MayDisconnect(u, n)
  BY <1>1, <1>2, <1>3, <1>4, ErrorKeeps DEF Disconnect
<1>5. CASE MayDisconnect(u, n)
  <2>1. PICK pc \in LockedPcs : pc = IF Connected(n) THEN "disconnect" ELSE "release"
    BY DEF LockedPcs
  <2>2. GoesOn(i, pc) /\ lock' = lock
    BY <1>1, <1>5, <2>1 DEF Disconnect
  <2>3. /\ instance'[i].pc = pc /\ instance'[i].user = u
        /\ instance'[i].verb = instance[i].verb /\ instance'[i].output = n
        /\ instance'[i].mode = instance[i].mode
    BY <1>1, <2>2, GoneOn
  <2>4. device' = device /\ lease' = lease
    BY <1>2 DEF configfsVars
  <2>5. pc = "disconnect" => u \in {Root, lease[n]}
    BY <1>5, <2>1 DEF MayDisconnect
  <2>6. pc = "release" => ~Connected(n)
    BY <2>1
  <2>7. pc \in {"disconnect", "release"}
    BY <2>1
  <2>8. Seen(i)'
    BY <1>1, <1>3, <2>3, <2>4, <2>5, <2>6, <2>7 DEF IInv, Seen, Connected
  <2> QED
    BY <1>2, <1>3, <2>2, <2>8, OnlyGoesOn
<1> QED
  BY <1>4, <1>5

\* Disconnecting breaks no promise but those it takes back, and none to the user that asked
\* for it and still waits.
LEMMA WriteDisconnectedKeeps ==
  ASSUME IInv, NEW i \in Instances, WriteStatusDisconnected(i)
  PROVE  IInv'
<1>1. PICK n, u : n = instance[i].output /\ u = instance[i].user
  OBVIOUS
<1>2. PICK v \in {"connected", "disconnected"} : v = "disconnected"
  OBVIOUS
<1>3. PICK pc \in LockedPcs : pc = "release"
  BY DEF LockedPcs
<1>4. /\ instance[i].pc = "disconnect" /\ StoreStatus(n, v) /\ GoesOn(i, pc)
      /\ revoked' = IF u = Root \/ ~Awaited(i) THEN revoked \cup (Users \X {n}) ELSE revoked
      /\ unconfirmed' = unconfirmed \ {n} /\ UNCHANGED <<lease, lock>>
  BY <1>1, <1>2, <1>3 DEF WriteStatusDisconnected
<1>5. UNCHANGED <<poolVars, lease>> /\ instance[i].pc # "free" /\ instance[i].pc \in LockedPcs
  BY <1>4 DEF GoesOn, LockedPcs
<1>6. /\ Inv' /\ Whole' /\ OthersUntouched(i) /\ InService /\ retained' = retained /\ n \in Outputs
      /\ \A m \in Outputs : device'.config.status[m] = IF m = n THEN v ELSE device.config.status[m]
  BY <1>1, <1>4, <1>5, StatusStep
<1>7. u \in {Root, lease[n]} /\ i # NoInstance
  BY <1>1, <1>4, <1>5, RunningFacts DEF IInv, Seen
<1>8. ConnectedHasOwner'
  BY <1>2, <1>4, <1>6 DEF IInv, ConnectedHasOwner, Connected
<1>9. ASSUME NEW w \in Users, NEW m \in Outputs, Promised(w, m), <<w, m>> \notin revoked'
      PROVE  Kept(w, m)'
  <2>1. <<w, m>> \notin revoked
    BY <1>4, <1>9
  <2>2. Kept(w, m)
    BY <1>6, <1>9, <2>1 DEF IInv, PromisesKept
  <2>3. m # n
    <3>1. SUFFICES ASSUME m = n
                   PROVE  FALSE
      OBVIOUS
    <3>2. u # Root /\ Awaited(i)
      BY <1>4, <1>9, <3>1
    <3>3. u = w
      BY <1>7, <2>2, <3>1, <3>2 DEF Kept
    <3>4. PICK x \in Uids : client[x].instance = i
      BY <3>2 DEF Awaited
    <3>5. Calling(x)
      BY DEF IInv
    <3>6. /\ client[x].answer = "none" /\ x = u /\ client[x].output = n
      BY <1>1, <1>7, <3>4, <3>5 DEF Calling
    <3>7. <<x, n>> \notin believes
      <4>1. client[x] # NoCall
        BY <1>7, <3>4 DEF NoCall
      <4> QED
        BY <3>5, <3>6, <4>1 DEF Calling
    <3> QED
      BY <1>9, <3>1, <3>3, <3>6, <3>7 DEF Promised
  <2> QED
    BY <1>4, <1>6, <2>2, <2>3 DEF Kept, Connected
<1>10. OldPromisesKept
  BY <1>9 DEF OldPromisesKept
<1>11. /\ instance'[i].pc = "release" /\ instance'[i].user = u
       /\ instance'[i].verb = instance[i].verb /\ instance'[i].output = n
       /\ instance'[i].mode = instance[i].mode
  BY <1>1, <1>3, <1>4, GoneOn
<1>12. Seen(i)'
  BY <1>1, <1>2, <1>5, <1>6, <1>11 DEF IInv, Seen, Connected
<1>13. Locking'
  BY <1>4, <1>5, LockStays
<1>14. /\ lock' \in [Outputs -> Instances \cup {NoInstance}]
       /\ lease' \in [Outputs -> Uids \cup {NoUser}]
  BY <1>4 DEF IInv, Types
<1>15. revoked' \subseteq Uids \X Outputs /\ unconfirmed' \subseteq Outputs
  BY <1>4, <1>6 DEF IInv, Types, Uids
<1> QED
  BY <1>4, <1>5, <1>6, <1>8, <1>10, <1>12, <1>13, <1>14, <1>15, GoesOnKeeps

\* A lease is given back after its output was disconnected, by its owner.
LEMMA ReleaseKeeps ==
  ASSUME IInv, NEW i \in Instances, ReleaseLease(i)
  PROVE  IInv'
<1>1. PICK n : n = instance[i].output
  OBVIOUS
<1>2. PICK answer \in {"error", "connected", "disconnected", "unknown", "mode"} : answer = "disconnected"
  OBVIOUS
<1>3. /\ instance[i].pc = "release" /\ SetLease(n, NoUser) /\ Answering(i, answer)
      /\ UNCHANGED <<configfsVars, revoked, unconfirmed>>
  BY <1>1, <1>2 DEF ReleaseLease
<1>4. UNCHANGED poolVars /\ instance[i].pc # "free" /\ instance[i].pc \in LockedPcs
  BY <1>3 DEF Answering, LockedPcs
<1>5. ~Connected(n) /\ NoUser \in Uids \cup {NoUser}
  BY <1>1, <1>3 DEF IInv, Seen
<1>6. /\ Inv' /\ Whole' /\ ConnectedHasOwner' /\ OthersUntouched(i) /\ OldPromisesKept
      /\ lease' \in [Outputs -> Uids \cup {NoUser}] /\ revoked' \subseteq Uids \X Outputs /\ unconfirmed' \subseteq Outputs
  BY <1>1, <1>3, <1>4, <1>5, LeaseOfDisconnected
<1>7. NewPromiseKept(i, answer)
  BY <1>2 DEF NewPromiseKept
<1> QED
  BY <1>3, <1>4, <1>6, <1>7, AnswerKeeps

\* Only the owner of a connected output gets as far as its mode.
LEMMA CheckModeKeeps ==
  ASSUME IInv, NEW i \in Instances, CheckModeOwner(i)
  PROVE  IInv'
<1>1. PICK n, u : n = instance[i].output /\ u = instance[i].user
  OBVIOUS
<1>2. /\ instance[i].pc = "locked" /\ instance[i].verb = "mode"
      /\ UNCHANGED <<configfsVars, lease, revoked, unconfirmed>>
  BY DEF CheckModeOwner
<1>3. instance[i].pc # "free" /\ instance[i].pc \in LockedPcs
  BY <1>2 DEF LockedPcs
<1>4. CASE lease[n] # u \/ ~Connected(n)
  BY <1>1, <1>2, <1>3, <1>4, ErrorKeeps DEF CheckModeOwner
<1>5. CASE ~(lease[n] # u \/ ~Connected(n))
  <2>1. PICK pc \in LockedPcs : pc = "mode"
    BY DEF LockedPcs
  <2>2. GoesOn(i, pc) /\ lock' = lock
    BY <1>1, <1>5, <2>1 DEF CheckModeOwner
  <2>3. /\ instance'[i].pc = "mode" /\ instance'[i].user = u
        /\ instance'[i].verb = instance[i].verb /\ instance'[i].output = n
        /\ instance'[i].mode = instance[i].mode
    BY <1>1, <2>1, <2>2, GoneOn
  <2>4. device' = device /\ lease' = lease
    BY <1>2 DEF configfsVars
  <2>5. Seen(i)'
    BY <1>1, <1>2, <1>3, <1>5, <2>3, <2>4 DEF IInv, Seen, Kept, Connected
  <2> QED
    BY <1>2, <1>3, <2>2, <2>5, OnlyGoesOn
<1> QED
  BY <1>4, <1>5

\* A mode is written under the lock; the status and the lease of the output stay.
LEMMA WriteModeKeeps ==
  ASSUME IInv, NEW i \in Instances, WriteMode(i)
  PROVE  IInv'
<1>1. PICK n, v : n = instance[i].output /\ v = instance[i].mode
  OBVIOUS
<1>2. PICK answer \in {"error", "connected", "disconnected", "unknown", "mode"} : Answering(i, answer) /\ answer # "connected"
  <2>1. CASE Answering(i, "mode")
    BY <2>1
  <2>2. CASE Answering(i, "error")
    BY <2>2
  <2> QED
    BY <2>1, <2>2 DEF WriteMode
<1>3. /\ instance[i].pc = "mode" /\ StoreRequestedMode(n, v) /\ Answering(i, answer)
      /\ UNCHANGED <<lease, revoked, unconfirmed>>
  BY <1>1, <1>2 DEF WriteMode
<1>4. UNCHANGED poolVars /\ instance[i].pc # "free"
  BY <1>3 DEF Answering
<1>5. /\ n \in Outputs /\ v \in Modes /\ InService /\ ValidTopology /\ device.enabled /\ Inv
      /\ n \in Connectors
  BY <1>1, <1>3, <1>4, RunningFacts, PoolAssumption DEF IInv, Seen
<1>6. Inv'
  BY <1>3, <1>5, ModeKeeps
<1>7. ValidTopology' /\ device'.enabled /\ device'.config.status = device.config.status
  BY <1>3, <1>5, ModeWritten
<1>8. UNCHANGED <<service, job, retained>>
  BY <1>4 DEF poolVars
<1>9. Whole' /\ ConnectedHasOwner' /\ OthersUntouched(i)
  BY <1>3, <1>7, <1>8 DEF IInv, Whole, ConnectedHasOwner, InService, Connected, OthersUntouched
<1>10. OldPromisesKept
  BY <1>3, <1>5, <1>7 DEF IInv, PromisesKept, OldPromisesKept, Kept, Connected
<1>11. NewPromiseKept(i, answer)
  BY <1>2 DEF NewPromiseKept
<1>12. lease' \in [Outputs -> Uids \cup {NoUser}] /\ revoked' \subseteq Uids \X Outputs /\ unconfirmed' \subseteq Outputs
  BY <1>3 DEF IInv, Types
<1> QED
  BY <1>3, <1>4, <1>6, <1>9, <1>10, <1>11, <1>12, AnswerKeeps

\* Each step of an instance keeps the invariant.
LEMMA InstanceStepKeeps ==
  ASSUME IInv, NEW i \in Instances, InstanceStep(i)
  PROVE  IInv'
<1>1. CASE CheckPool(i) \/ Lock(i)
  BY <1>1, CheckPoolKeeps, LockKeeps
<1>2. CASE LockTimesOut(i) \/ InstanceFails(i)
  <2>1. instance[i].pc # "free" /\ Answering(i, "error") /\ UNCHANGED <<configfsVars, lease, revoked, unconfirmed>>
    BY <1>2 DEF LockTimesOut, InstanceFails
  <2> QED
    BY <2>1, ErrorKeeps
<1>3. CASE ConnectConnected(i) \/ ConnectDisconnected(i) \/ WriteLease(i)
  BY <1>3, ConnectConnectedKeeps, ConnectDisconnectedKeeps, WriteLeaseKeeps
<1>4. CASE WriteStatusConnected(i) \/ ReportConnected(i) \/ ConnectFails(i)
  BY <1>4, WriteConnectedKeeps, ReportKeeps, ConnectFailsKeeps
<1>5. CASE Disconnect(i) \/ WriteStatusDisconnected(i) \/ ReleaseLease(i)
  BY <1>5, DisconnectKeeps, WriteDisconnectedKeeps, ReleaseKeeps
<1>6. CASE CheckModeOwner(i) \/ WriteMode(i)
  BY <1>6, CheckModeKeeps, WriteModeKeeps
<1> QED
  BY <1>1, <1>2, <1>3, <1>4, <1>5, <1>6 DEF InstanceStep

-----------------------------------------------------------------------------
(* Who changes an output.                                                  *)

\* The step that OnlyOwnersChangeOutputs allows while the service is active.
OwnersOnly ==
    InService =>
        \A n \in Outputs :
            /\ Connected(n) /\ ~Connected(n)' =>
                \E i \in Instances : /\ instance'[i] # instance[i] /\ instance[i].output = n
                                     /\ instance[i].user \in {Root, lease[n]}
            /\ live'.connectors[n].requested # live.connectors[n].requested =>
                /\ Connected(n)
                /\ \E i \in Instances : /\ instance'[i] # instance[i] /\ instance[i].output = n
                                        /\ instance[i].user = lease[n]

\* Whoever leaves configfs alone changes no output.
LEMMA UntouchedOutputs ==
  ASSUME UNCHANGED <<device, live>>
  PROVE  OwnersOnly
BY DEF OwnersOnly, Connected

\* The instances that write to configfs do so for the owner, or disconnect for root.
LEMMA WritersOwn ==
  ASSUME IInv, NEW i \in Instances, InstanceStep(i)
  PROVE  OwnersOnly
<1>1. PICK n, u : n = instance[i].output /\ u = instance[i].user
  OBVIOUS
<1>2. CASE WriteStatusConnected(i) \/ WriteStatusDisconnected(i)
  <2>1. instance[i].pc \in {"connect", "disconnect"} /\ instance[i].pc \in LockedPcs /\ instance[i].pc # "free"
    BY <1>2 DEF WriteStatusConnected, WriteStatusDisconnected, LockedPcs
  <2>2. PICK v \in {"connected", "disconnected"} :
          v = IF instance[i].pc = "connect" THEN "connected" ELSE "disconnected"
    OBVIOUS
  <2>3. StoreStatus(n, v) /\ UNCHANGED <<poolVars, lease>>
    BY <1>1, <1>2, <2>2 DEF WriteStatusConnected, WriteStatusDisconnected, GoesOn
  <2>4. /\ n \in Outputs
        /\ \A m \in Outputs : device'.config.status[m] = IF m = n THEN v ELSE device.config.status[m]
    BY <1>1, <2>1, <2>3, StatusStep
  <2>5. Inv /\ ValidTopology /\ device.enabled /\ v \in Statuses
    BY <2>1, RunningFacts DEF IInv, Statuses
  <2>6. \A m \in Outputs : live'.connectors[m].requested = live.connectors[m].requested
    BY <2>3, <2>4, <2>5, StatusLeavesModes
  <2>7. ASSUME NEW m \in Outputs, Connected(m), ~Connected(m)'
        PROVE  \E j \in Instances : /\ instance'[j] # instance[j] /\ instance[j].output = m
                                    /\ instance[j].user \in {Root, lease[m]}
    <3>1. m = n /\ v = "disconnected"
      BY <2>4, <2>7 DEF Connected
    <3>2. instance[i].pc = "disconnect"
      BY <2>1, <2>2, <3>1
    <3>3. u \in {Root, lease[n]}
      BY <1>1, <3>2 DEF IInv, Seen
    <3>4. PICK pc \in LockedPcs \cup {"locking"} : pc = "release"
      BY DEF LockedPcs
    <3>5. GoesOn(i, pc)
      BY <1>2, <3>2, <3>4 DEF WriteStatusConnected, WriteStatusDisconnected
    <3>6. instance'[i].pc = "release"
      BY <3>4, <3>5, GoneOn
    <3>7. instance'[i] # instance[i]
      BY <3>2, <3>6
    <3> QED
      BY <1>1, <3>1, <3>3, <3>7
  <2> QED
    BY <2>6, <2>7 DEF OwnersOnly
<1>3. CASE WriteMode(i)
  <2>1. /\ instance[i].pc = "mode" /\ instance[i].pc # "free"
        /\ Answering(i, "mode") \/ Answering(i, "error")
    BY <1>3 DEF WriteMode
  <2>2. PICK v : v = instance[i].mode
    OBVIOUS
  <2>3. /\ n \in Outputs /\ Inv /\ ValidTopology /\ device.enabled /\ v \in Modes /\ Kept(u, n)
    BY <1>1, <2>1, <2>2, RunningFacts DEF IInv, Seen
  <2>4. StoreRequestedMode(n, v)
    BY <1>1, <1>3, <2>2 DEF WriteMode
  <2>5. /\ device'.config.status = device.config.status
        /\ \A m \in Outputs \ {n} : live'.connectors[m].requested = live.connectors[m].requested
    BY <2>3, <2>4, ModeWritten
  <2>6. instance'[i] # instance[i]
    <3>1. instance'[i] = Free
      BY <2>1 DEF Answering, IInv, Types
    <3>2. Free.pc = "free"
      BY DEF Free
    <3> QED
      BY <2>1, <3>1, <3>2
  <2>7. ASSUME NEW m \in Outputs, live'.connectors[m].requested # live.connectors[m].requested
        PROVE  /\ Connected(m)
               /\ \E j \in Instances : /\ instance'[j] # instance[j] /\ instance[j].output = m
                                       /\ instance[j].user = lease[m]
    <3>1. m = n
      BY <2>5, <2>7
    <3> QED
      BY <1>1, <2>3, <2>6, <3>1 DEF Kept
  <2>8. ASSUME NEW m \in Outputs, Connected(m)
        PROVE  Connected(m)'
    BY <2>5, <2>8 DEF Connected
  <2> QED
    BY <2>7, <2>8 DEF OwnersOnly
<1>4. CASE ~(WriteStatusConnected(i) \/ WriteStatusDisconnected(i) \/ WriteMode(i))
  <2>1. UNCHANGED <<device, live>>
    BY <1>4 DEF InstanceStep, CheckPool, Lock, LockTimesOut, ConnectConnected, ConnectDisconnected,
      WriteLease, ReportConnected, ConnectFails, Disconnect, ReleaseLease, CheckModeOwner,
      InstanceFails, configfsVars
  <2> QED
    BY <2>1, UntouchedOutputs
<1> QED
  BY <1>2, <1>3, <1>4

-----------------------------------------------------------------------------
(* The theorems.                                                           *)

\* The invariant holds in every state of the service, its clients and its instances.
THEOREM BrokerInvariant == Spec => []IInv
<1>1. Init => IInv
  <2>1. SUFFICES ASSUME Init
                 PROVE  IInv
    OBVIOUS
  <2>2. Inv
    BY <2>1 DEF Init, ConfigfsInit, Inv, Counted, ReferencesCounted, Configured
  <2>3. NoJob \in JobRecord /\ NoJob.kind = "none" /\ NoJob.todo = << >>
    <3>1. << >> \in Seq(JobSteps)
      OBVIOUS
    <3> QED
      BY <3>1 DEF NoJob, JobRecord
  <2>4. /\ Free \in Instance /\ Free.pc = "free"
        /\ NoCall \in Call /\ NoCall.instance = NoInstance /\ NoCall.verb = "none"
    BY PoolAssumption DEF Free, Instance, NoCall, Call
  <2>5. Types
    BY <2>1, <2>3, <2>4 DEF Init, Types
  <2>6. Jobs /\ Idle /\ Locking
    BY <2>1, <2>3, <2>4 DEF Init, Jobs, Idle, Locking, LockedPcs
  <2>7. Whole /\ PromisesKept /\ ConnectedHasOwner
    BY <2>1 DEF Init, Whole, PromisesKept, ConnectedHasOwner, InService
  <2>8. \A i \in Instances : Seen(i)
    BY <2>1, <2>4 DEF Init, Seen
  <2>9. \A u \in Uids : Calling(u)
    BY <2>1, <2>4 DEF Init, Calling
  <2>10. NoPromises
    BY <2>1, <2>4 DEF Init, NoPromises, Promised, Uids
  <2> QED
    BY <2>2, <2>5, <2>6, <2>7, <2>8, <2>9, <2>10 DEF IInv
<1>2. IInv /\ [Next]_vars => IInv'
  <2>1. SUFFICES ASSUME IInv, [Next]_vars
                 PROVE  IInv'
    OBVIOUS
  <2>2. CASE StartService \/ DrainInstances \/ StopService
    BY <2>1, <2>2, StartKeeps, DrainKeeps, StopKeeps
  <2>3. CASE RunStep \/ NextPhase \/ StepFails \/ KillJob \/ EndJob
    BY <2>1, <2>3, RunKeeps, NextPhaseKeeps, StepFailsKeeps, KillKeeps, EndKeeps
  <2>4. CASE \E u \in Uids : TimeOut(u) \/ Receive(u) \/ \E n \in Outputs : Request(u, n)
    BY <2>1, <2>4, TimeOutKeeps, ReceiveKeeps, RequestKeeps
  <2>5. CASE \E i \in Instances : InstanceStep(i)
    BY <2>1, <2>5, InstanceStepKeeps
  <2>7. CASE \E a \in Addresses : CloseUnplugged(a)
    BY <2>1, <2>7, CloseKeeps
  <2>6. CASE UNCHANGED vars
    <3>1. /\ UNCHANGED <<configfsVars, poolVars, brokerVars, revoked, unconfirmed>>
          /\ client' = client /\ believes' = believes /\ instance' = instance
      BY <2>6 DEF vars, brokerVars, clientVars
    <3>2. client' \in [Uids -> Call] /\ believes' \subseteq Uids \X Outputs
      BY <2>1, <3>1 DEF IInv, Types
    <3>3. \A u \in Uids : Calling(u)'
      BY <2>1, <3>1 DEF IInv, Calling
    <3>4. \A u \in Users, n \in Outputs : Promised(u, n)' => Promised(u, n)
      BY <3>1 DEF Promised
    <3> QED
      BY <2>1, <3>1, <3>2, <3>3, <3>4, ClientKeeps
  <2> QED
    BY <2>1, <2>2, <2>3, <2>4, <2>5, <2>6, <2>7 DEF Next
<1> QED
  BY <1>1, <1>2, PTL DEF Spec

\* A connected output has an owner, wherever a request was killed or failed: the lease is written
\* before the status and goes after it.  The two that have none are those of a pool that a
\* start found left behind, and those that a request connected but could not read back.
THEOREM OutputsAlwaysOwned == Spec => []ConnectedHasOwner
<1>1. IInv => ConnectedHasOwner
  BY DEF IInv
<1> QED
  BY <1>1, BrokerInvariant, PTL

\* What a user was told is its output stays so until the user, root or the end of the pool
\* takes it, or a late request of its own, whatever the other users ask for meanwhile.
THEOREM AcknowledgedAlwaysKept == Spec => []AcknowledgedOutputsKept
<1>1. IInv => AcknowledgedOutputsKept
  BY DEF IInv, PromisesKept, Promised, Kept, AcknowledgedOutputsKept
<1> QED
  BY <1>1, BrokerInvariant, PTL

\* While requests race, an output is disconnected only for its owner or root, and its mode
\* changes only while it is connected, for its owner.
THEOREM OnlyOwnersEverChange == Spec => OnlyOwnersChangeOutputs
<1>1. IInv /\ [Next]_vars => [OwnersOnly]_vars
  <2>1. SUFFICES ASSUME IInv, Next
                 PROVE  OwnersOnly
    OBVIOUS
  <2>2. CASE RunStep \/ StepFails \/ KillJob \/ EndJob
    <3>1. job.kind # "none"
      BY <2>1, <2>2 DEF IInv, Jobs, RunStep, StepFails, KillJob, EndJob
    <3>2. ~InService
      BY <2>1, <3>1, JobMeansIdle
    <3> QED
      BY <3>2 DEF OwnersOnly
  <2>3. CASE StartService \/ DrainInstances \/ StopService \/ NextPhase
    BY <2>3, UntouchedOutputs DEF StartService, DrainInstances, StopService, NextPhase, configfsVars
  <2>4. CASE \E u \in Uids : TimeOut(u) \/ Receive(u) \/ \E n \in Outputs : Request(u, n)
    BY <2>4, UntouchedOutputs DEF TimeOut, Receive, Request, configfsVars
  <2>5. CASE \E i \in Instances : InstanceStep(i)
    BY <2>1, <2>5, WritersOwn
  <2>6. CASE \E a \in Addresses : CloseUnplugged(a)
    BY <2>6, UntouchedOutputs DEF CloseUnplugged, LastClose
  <2> QED
    BY <2>1, <2>2, <2>3, <2>4, <2>5, <2>6 DEF Next
<1> QED
  BY <1>1, BrokerInvariant, PTL DEF Spec, OnlyOwnersChangeOutputs, OwnersOnly

\* An active service has the whole pool, enabled, whatever the start found in configfs.
THEOREM ServiceAlwaysWhole == Spec => [](InService => ValidTopology /\ device.enabled)
<1>1. IInv => (InService => ValidTopology /\ device.enabled)
  BY DEF IInv, Whole
<1> QED
  BY <1>1, BrokerInvariant, PTL

\* The script and the broker are users of configfs like any other: in each state of the pool, a
\* half-built or half-removed one too, the configuration and the DRM device made of it are sound.
THEOREM PoolConfigurationSound == Spec => []ConfigurationSound
<1>1. IInv => ConfigurationSound
  BY InvariantSound DEF IInv
<1> QED
  BY <1>1, BrokerInvariant, PTL

-----------------------------------------------------------------------------
(* Recovery.  A job that no fault meets takes its steps in their order, so *)
(* what is left of the pool, or there of it, follows from how many of its  *)
(* steps remain: the kernel grants each step at its place, and a start     *)
(* ends with the pool complete, a stop without it.                         *)

-----------------------------------------------------------------------------
(* Where a step of a job is.                                               *)

\* The place of a step of a build.
AtBuild(step, k) ==
    LET i == step.item  N == OutputCount
    IN  \/ step.op = "make_device" /\ k = 1
        \/ /\ i \in Outputs
           /\ \/ step.op = "make_plane" /\ k = 2 * i
              \/ step.op = "set_primary" /\ k = 2 * i + 1
              \/ step.op = "make_crtc" /\ k = 2 * N + i + 1
              \/ step.op = "make_encoder" /\ k = 3 * N + i + 1
              \/ step.op = "make_connector" /\ k = 4 * N + 2 * i
              \/ step.op = "set_disconnected" /\ k = 4 * N + 2 * i + 1
              \/ step.op = "link_plane" /\ k = 6 * N + 3 * i - 1
              \/ step.op = "link_encoder" /\ k = 6 * N + 3 * i
              \/ step.op = "link_connector" /\ k = 6 * N + 3 * i + 1
        \/ step.op = "validate" /\ k = 9 * N + 2
        \/ step.op = "enable" /\ k = 9 * N + 3

\* The place of a step of a removal.
AtRemoval(step, k) ==
    LET i == step.item  N == OutputCount
    IN  \/ step.op = "disable" /\ k = 1
        \/ /\ i \in Outputs
           /\ \/ step.op = "unlink_connector" /\ k = 3 * i - 1
              \/ step.op = "unlink_encoder" /\ k = 3 * i
              \/ step.op = "unlink_plane" /\ k = 3 * i + 1
              \/ step.op = "remove_connector" /\ k = 3 * N + 4 * i - 1
              \/ step.op = "remove_encoder" /\ k = 3 * N + 4 * i
              \/ step.op = "remove_plane" /\ k = 3 * N + 4 * i + 1
              \/ step.op = "remove_crtc" /\ k = 3 * N + 4 * i + 2
        \/ step.op = "give_up" /\ k \in {3 * N + 2, 7 * N + 3}
        \/ step.op = "remove_device" /\ k = 7 * N + 4
        \/ step.op = "clear_leases" /\ k = 7 * N + 5

\* The j-th step of the group of output i is one of ops.
Grouped(s, ops, len) ==
    /\ s \in Seq(JobSteps) /\ Len(s) = OutputCount * len
    /\ \A k \in 1..Len(s) : \E i \in Outputs, j \in 1..len :
           k = len * (i - 1) + j /\ s[k].op = ops[j] /\ s[k].item = i

\* The steps for each output, in groups of the same length.
LEMMA GroupFacts ==
  ASSUME NEW ops, NEW len \in 1..4, Len(ops) = len,
         \A k \in 1..len : ops[k] \in ItemOps \cup InGroup,
         NEW s, s = ForEachOutput(ops)
  PROVE  Grouped(s, ops, len)
<1>1. OutputCount \in Nat
  BY PoolAssumption
<1>2. PICK size \in Nat : size = OutputCount * len
  BY <1>1
<1>3. ASSUME NEW k \in 1..size
      PROVE  \E i \in Outputs, j \in 1..len :
                 k = len * (i - 1) + j /\ j = ((k - 1) % len) + 1 /\ i = ((k - 1) \div len) + 1
  <2>1. PICK m \in 0..size : m = k - 1 /\ m < size
    OBVIOUS
  <2>2. PICK r \in Int, q \in Int : r = m % len /\ q = m \div len
    <3>1. m % len \in Int /\ m \div len \in Int
      BY <2>1
    <3> QED
      BY <3>1
  <2>3. r \in 0..len - 1 /\ q \in 0..OutputCount - 1 /\ m = len * q + r
    <3>1. CASE len = 1
      BY <1>1, <1>2, <2>1, <2>2, <3>1
    <3>2. CASE len = 2
      BY <1>1, <1>2, <2>1, <2>2, <3>2
    <3>3. CASE len = 3
      BY <1>1, <1>2, <2>1, <2>2, <3>3
    <3>4. CASE len = 4
      BY <1>1, <1>2, <2>1, <2>2, <3>4
    <3> QED
      BY <3>1, <3>2, <3>3, <3>4
  <2>4. PICK i \in Outputs, j \in 1..len : i = q + 1 /\ j = r + 1
    BY <1>1, <2>3 DEF Outputs
  <2>5. len * (i - 1) = len * q
    BY <2>3, <2>4
  <2>6. k = len * (i - 1) + j
    BY <1>1, <2>1, <2>3, <2>4, <2>5
  <2> QED
    BY <2>1, <2>2, <2>4, <2>6
<1>5. /\ s = [k \in 1..size |-> Step(ops[((k - 1) % len) + 1], ((k - 1) \div len) + 1)]
  BY <1>2 DEF ForEachOutput
<1>6. ASSUME NEW k \in 1..size
      PROVE  \E i \in Outputs, j \in 1..len :
                 k = len * (i - 1) + j /\ s[k].op = ops[j] /\ s[k].item = i
  <2>1. PICK i \in Outputs, j \in 1..len :
            k = len * (i - 1) + j /\ j = ((k - 1) % len) + 1 /\ i = ((k - 1) \div len) + 1
    BY <1>3
  <2>2. s[k] = [op |-> ops[j], item |-> i]
    BY <1>5, <2>1 DEF Step
  <2>3. s[k].op = ops[j] /\ s[k].item = i
    BY <2>2
  <2> QED
    BY <2>1, <2>3, Zenon
<1>7. s \in Seq(JobSteps)
  BY ForEachFacts
<1>8. Len(s) = size
  BY <1>2, <1>5
<1> QED
  BY <1>2, <1>6, <1>7, <1>8 DEF Grouped

\* The steps of groups of one, and their places.
OfOne(s, a) ==
    /\ s \in Seq(JobSteps) /\ Len(s) = OutputCount
    /\ \A k \in 1..Len(s) : \E i \in Outputs :
           /\ s[k].item = i
           /\ \/ k = i /\ s[k].op = a

\* The steps for each output, in groups of one.
LEMMA GroupsOfOne ==
  ASSUME NEW a \in ItemOps \cup InGroup, NEW s, s = ForEachOutput(<<a>>)
  PROVE  OfOne(s, a)
<1>1. PICK ops : ops = <<a>>
  OBVIOUS
<1>2. Len(ops) = 1 /\ ops[1] = a
  BY <1>1
<1>3. PICK len \in 1..4 : len = 1
  OBVIOUS
<1>4. ASSUME NEW k \in 1..len
      PROVE  ops[k] \in ItemOps \cup InGroup
  <2>1. k = 1
    BY <1>3
  <2> QED
    BY <1>2, <2>1, Zenon
<1>5. Len(ops) = len
  BY <1>2, <1>3
<1>6. s = ForEachOutput(ops)
  BY <1>1
<1>7. /\ s \in Seq(JobSteps) /\ Len(s) = OutputCount * len
      /\ \A k \in 1..Len(s) : \E i \in Outputs, j \in 1..len :
             k = len * (i - 1) + j /\ s[k].op = ops[j] /\ s[k].item = i
  <2>1. Grouped(s, ops, len)
    BY <1>4, <1>5, <1>6, GroupFacts
  <2> QED
    BY <2>1 DEF Grouped
<1>8. OutputCount \in Nat /\ Len(s) = OutputCount
  BY <1>3, <1>7, PoolAssumption
<1>9. ASSUME NEW k \in 1..Len(s)
      PROVE  \E i \in Outputs :
                /\ s[k].item = i
                /\ \/ k = i /\ s[k].op = a
  <2>1. PICK i \in Outputs, j \in 1..len : k = len * (i - 1) + j /\ s[k].op = ops[j] /\ s[k].item = i
    BY <1>7
  <2>2. i \in Nat
    BY <1>8 DEF Outputs
  <2>3. CASE j = 1
    <3>1. k = i
      BY <1>3, <2>1, <2>2, <2>3
    <3>2. s[k].op = a
      BY <1>2, <2>1, <2>3, Zenon
    <3> QED
      BY <2>1, <3>1, <3>2, Zenon
  <2> QED
    BY <1>3, <2>3
<1> QED
  BY <1>7, <1>8, <1>9 DEF OfOne

\* The steps of groups of two, and their places.
OfTwo(s, a, b) ==
    /\ s \in Seq(JobSteps) /\ Len(s) = 2 * OutputCount
    /\ \A k \in 1..Len(s) : \E i \in Outputs :
           /\ s[k].item = i
           /\ \/ k = 2 * i - 1 /\ s[k].op = a
              \/ k = 2 * i /\ s[k].op = b

\* The steps for each output, in groups of two.
LEMMA GroupsOfTwo ==
  ASSUME NEW a \in ItemOps \cup InGroup, NEW b \in ItemOps \cup InGroup, NEW s, s = ForEachOutput(<<a, b>>)
  PROVE  OfTwo(s, a, b)
<1>1. PICK ops : ops = <<a, b>>
  OBVIOUS
<1>2. Len(ops) = 2 /\ ops[1] = a /\ ops[2] = b
  BY <1>1
<1>3. PICK len \in 1..4 : len = 2
  OBVIOUS
<1>4. ASSUME NEW k \in 1..len
      PROVE  ops[k] \in ItemOps \cup InGroup
  <2>1. k = 1 \/ k = 2
    BY <1>3
  <2> QED
    BY <1>2, <2>1, Zenon
<1>5. Len(ops) = len
  BY <1>2, <1>3
<1>6. s = ForEachOutput(ops)
  BY <1>1
<1>7. /\ s \in Seq(JobSteps) /\ Len(s) = OutputCount * len
      /\ \A k \in 1..Len(s) : \E i \in Outputs, j \in 1..len :
             k = len * (i - 1) + j /\ s[k].op = ops[j] /\ s[k].item = i
  <2>1. Grouped(s, ops, len)
    BY <1>4, <1>5, <1>6, GroupFacts
  <2> QED
    BY <2>1 DEF Grouped
<1>8. OutputCount \in Nat /\ Len(s) = 2 * OutputCount
  BY <1>3, <1>7, PoolAssumption
<1>9. ASSUME NEW k \in 1..Len(s)
      PROVE  \E i \in Outputs :
                /\ s[k].item = i
                /\ \/ k = 2 * i - 1 /\ s[k].op = a
                   \/ k = 2 * i /\ s[k].op = b
  <2>1. PICK i \in Outputs, j \in 1..len : k = len * (i - 1) + j /\ s[k].op = ops[j] /\ s[k].item = i
    BY <1>7
  <2>2. i \in Nat
    BY <1>8 DEF Outputs
  <2>3. CASE j = 1
    <3>1. k = 2 * i - 1
      BY <1>3, <2>1, <2>2, <2>3
    <3>2. s[k].op = a
      BY <1>2, <2>1, <2>3, Zenon
    <3> QED
      BY <2>1, <3>1, <3>2, Zenon
  <2>4. CASE j = 2
    <3>1. k = 2 * i
      BY <1>3, <2>1, <2>2, <2>4
    <3>2. s[k].op = b
      BY <1>2, <2>1, <2>4, Zenon
    <3> QED
      BY <2>1, <3>1, <3>2, Zenon
  <2> QED
    BY <1>3, <2>3, <2>4
<1> QED
  BY <1>7, <1>8, <1>9 DEF OfTwo

\* The steps of groups of three, and their places.
OfThree(s, a, b, c) ==
    /\ s \in Seq(JobSteps) /\ Len(s) = 3 * OutputCount
    /\ \A k \in 1..Len(s) : \E i \in Outputs :
           /\ s[k].item = i
           /\ \/ k = 3 * i - 2 /\ s[k].op = a
              \/ k = 3 * i - 1 /\ s[k].op = b
              \/ k = 3 * i /\ s[k].op = c

\* The steps for each output, in groups of three.
LEMMA GroupsOfThree ==
  ASSUME NEW a \in ItemOps \cup InGroup, NEW b \in ItemOps \cup InGroup,
         NEW c \in ItemOps \cup InGroup, NEW s, s = ForEachOutput(<<a, b, c>>)
  PROVE  OfThree(s, a, b, c)
<1>1. PICK ops : ops = <<a, b, c>>
  OBVIOUS
<1>2. Len(ops) = 3 /\ ops[1] = a /\ ops[2] = b /\ ops[3] = c
  BY <1>1
<1>3. PICK len \in 1..4 : len = 3
  OBVIOUS
<1>4. ASSUME NEW k \in 1..len
      PROVE  ops[k] \in ItemOps \cup InGroup
  <2>1. k = 1 \/ k = 2 \/ k = 3
    BY <1>3
  <2> QED
    BY <1>2, <2>1, Zenon
<1>5. Len(ops) = len
  BY <1>2, <1>3
<1>6. s = ForEachOutput(ops)
  BY <1>1
<1>7. /\ s \in Seq(JobSteps) /\ Len(s) = OutputCount * len
      /\ \A k \in 1..Len(s) : \E i \in Outputs, j \in 1..len :
             k = len * (i - 1) + j /\ s[k].op = ops[j] /\ s[k].item = i
  <2>1. Grouped(s, ops, len)
    BY <1>4, <1>5, <1>6, GroupFacts
  <2> QED
    BY <2>1 DEF Grouped
<1>8. OutputCount \in Nat /\ Len(s) = 3 * OutputCount
  BY <1>3, <1>7, PoolAssumption
<1>9. ASSUME NEW k \in 1..Len(s)
      PROVE  \E i \in Outputs :
                /\ s[k].item = i
                /\ \/ k = 3 * i - 2 /\ s[k].op = a
                   \/ k = 3 * i - 1 /\ s[k].op = b
                   \/ k = 3 * i /\ s[k].op = c
  <2>1. PICK i \in Outputs, j \in 1..len : k = len * (i - 1) + j /\ s[k].op = ops[j] /\ s[k].item = i
    BY <1>7
  <2>2. i \in Nat
    BY <1>8 DEF Outputs
  <2>3. CASE j = 1
    <3>1. k = 3 * i - 2
      BY <1>3, <2>1, <2>2, <2>3
    <3>2. s[k].op = a
      BY <1>2, <2>1, <2>3, Zenon
    <3> QED
      BY <2>1, <3>1, <3>2, Zenon
  <2>4. CASE j = 2
    <3>1. k = 3 * i - 1
      BY <1>3, <2>1, <2>2, <2>4
    <3>2. s[k].op = b
      BY <1>2, <2>1, <2>4, Zenon
    <3> QED
      BY <2>1, <3>1, <3>2, Zenon
  <2>5. CASE j = 3
    <3>1. k = 3 * i
      BY <1>3, <2>1, <2>2, <2>5
    <3>2. s[k].op = c
      BY <1>2, <2>1, <2>5, Zenon
    <3> QED
      BY <2>1, <3>1, <3>2, Zenon
  <2> QED
    BY <1>3, <2>3, <2>4, <2>5
<1> QED
  BY <1>7, <1>8, <1>9 DEF OfThree

\* The steps of groups of four, and their places.
OfFour(s, a, b, c, d) ==
    /\ s \in Seq(JobSteps) /\ Len(s) = 4 * OutputCount
    /\ \A k \in 1..Len(s) : \E i \in Outputs :
           /\ s[k].item = i
           /\ \/ k = 4 * i - 3 /\ s[k].op = a
              \/ k = 4 * i - 2 /\ s[k].op = b
              \/ k = 4 * i - 1 /\ s[k].op = c
              \/ k = 4 * i /\ s[k].op = d

\* The steps for each output, in groups of four.
LEMMA GroupsOfFour ==
  ASSUME NEW a \in ItemOps \cup InGroup, NEW b \in ItemOps \cup InGroup,
         NEW c \in ItemOps \cup InGroup, NEW d \in ItemOps \cup InGroup, NEW s,
         s = ForEachOutput(<<a, b, c, d>>)
  PROVE  OfFour(s, a, b, c, d)
<1>1. PICK ops : ops = <<a, b, c, d>>
  OBVIOUS
<1>2. Len(ops) = 4 /\ ops[1] = a /\ ops[2] = b /\ ops[3] = c /\ ops[4] = d
  BY <1>1
<1>3. PICK len \in 1..4 : len = 4
  OBVIOUS
<1>4. ASSUME NEW k \in 1..len
      PROVE  ops[k] \in ItemOps \cup InGroup
  <2>1. k = 1 \/ k = 2 \/ k = 3 \/ k = 4
    BY <1>3
  <2> QED
    BY <1>2, <2>1, Zenon
<1>5. Len(ops) = len
  BY <1>2, <1>3
<1>6. s = ForEachOutput(ops)
  BY <1>1
<1>7. /\ s \in Seq(JobSteps) /\ Len(s) = OutputCount * len
      /\ \A k \in 1..Len(s) : \E i \in Outputs, j \in 1..len :
             k = len * (i - 1) + j /\ s[k].op = ops[j] /\ s[k].item = i
  <2>1. Grouped(s, ops, len)
    BY <1>4, <1>5, <1>6, GroupFacts
  <2> QED
    BY <2>1 DEF Grouped
<1>8. OutputCount \in Nat /\ Len(s) = 4 * OutputCount
  BY <1>3, <1>7, PoolAssumption
<1>9. ASSUME NEW k \in 1..Len(s)
      PROVE  \E i \in Outputs :
                /\ s[k].item = i
                /\ \/ k = 4 * i - 3 /\ s[k].op = a
                   \/ k = 4 * i - 2 /\ s[k].op = b
                   \/ k = 4 * i - 1 /\ s[k].op = c
                   \/ k = 4 * i /\ s[k].op = d
  <2>1. PICK i \in Outputs, j \in 1..len : k = len * (i - 1) + j /\ s[k].op = ops[j] /\ s[k].item = i
    BY <1>7
  <2>2. i \in Nat
    BY <1>8 DEF Outputs
  <2>3. CASE j = 1
    <3>1. k = 4 * i - 3
      BY <1>3, <2>1, <2>2, <2>3
    <3>2. s[k].op = a
      BY <1>2, <2>1, <2>3, Zenon
    <3> QED
      BY <2>1, <3>1, <3>2, Zenon
  <2>4. CASE j = 2
    <3>1. k = 4 * i - 2
      BY <1>3, <2>1, <2>2, <2>4
    <3>2. s[k].op = b
      BY <1>2, <2>1, <2>4, Zenon
    <3> QED
      BY <2>1, <3>1, <3>2, Zenon
  <2>5. CASE j = 3
    <3>1. k = 4 * i - 1
      BY <1>3, <2>1, <2>2, <2>5
    <3>2. s[k].op = c
      BY <1>2, <2>1, <2>5, Zenon
    <3> QED
      BY <2>1, <3>1, <3>2, Zenon
  <2>6. CASE j = 4
    <3>1. k = 4 * i
      BY <1>3, <2>1, <2>2, <2>6
    <3>2. s[k].op = d
      BY <1>2, <2>1, <2>6, Zenon
    <3> QED
      BY <2>1, <3>1, <3>2, Zenon
  <2> QED
    BY <1>3, <2>3, <2>4, <2>5, <2>6
<1> QED
  BY <1>7, <1>8, <1>9 DEF OfFour

\* A place of one sequence after another is a place of one of the two.
LEMMA Split ==
  ASSUME NEW n \in Nat, NEW m \in Nat, NEW k \in 1..n + m
  PROVE  k \in 1..n \/ \E j \in 1..m : k = n + j
<1>1. CASE k <= n
  BY <1>1
<1>2. CASE k > n
  <2>1. k - n \in 1..m /\ k = n + (k - n)
    BY <1>2
  <2> QED
    BY <2>1
<1> QED
  BY <1>1, <1>2

\* The n steps of s have the places after the first n0 in a build.
BuildPiece(s, n0, n) ==
    /\ s \in Seq(JobSteps) /\ Len(s) = n
    /\ \A k \in 1..Len(s) : AtBuild(s[k], n0 + k)

\* One sequence of steps after another, each step at its place in a build.
LEMMA BuildJoined ==
  ASSUME NEW n \in Nat, NEW m \in Nat, NEW l, l = n + m,
         NEW s, BuildPiece(s, 0, n), NEW t, BuildPiece(t, n, m), NEW all, all = s \o t
  PROVE  BuildPiece(all, 0, l)
<1>1. s \in Seq(JobSteps) /\ t \in Seq(JobSteps) /\ Len(s) = n /\ Len(t) = m
  BY DEF BuildPiece
<1>2. /\ all \in Seq(JobSteps) /\ Len(all) = l
      /\ \A k \in 1..n : all[k] = s[k]
      /\ \A k \in 1..m : all[n + k] = t[k]
  <2>1. all \in Seq(JobSteps)
    BY <1>1
  <2>2. Len(all) = Len(s) + Len(t)
    BY <1>1, ConcatProperties, Zenon
  <2>3. ASSUME NEW k \in 1..n
        PROVE  all[k] = s[k]
    BY <1>1
  <2>4. ASSUME NEW k \in 1..m
        PROVE  all[n + k] = t[k]
    BY <1>1
  <2> QED
    BY <1>1, <2>1, <2>2, <2>3, <2>4
<1>3. ASSUME NEW k \in 1..l
      PROVE  AtBuild(all[k], 0 + k)
  <2>1. CASE k \in 1..n
    BY <1>1, <1>2, <2>1 DEF BuildPiece
  <2>2. CASE \E j \in 1..m : k = n + j
    <3>1. PICK j \in 1..m : k = n + j
      BY <2>2
    <3>2. all[k] = t[j] /\ AtBuild(t[j], n + j)
      BY <1>1, <1>2, <3>1 DEF BuildPiece
    <3>3. 0 + k = n + j
      BY <3>1
    <3> QED
      BY <3>2, <3>3
  <2>3. k \in 1..n + m
    OBVIOUS
  <2> QED
    BY <2>1, <2>2, <2>3, Split
<1> QED
  BY <1>2, <1>3 DEF BuildPiece

\* Where each step of a build is.
LEMMA BuildPlaces ==
  ASSUME NEW all, all = BuildSteps
  PROVE  BuildPiece(all, 0, 9 * OutputCount + 3)
<1>1. PICK N \in Nat : N = OutputCount /\ Outputs = 1..N
  BY PoolAssumption DEF Outputs
<1>2. PICK o1 \in Nat : o1 = 0
  OBVIOUS
<1>3. PICK t1 : t1 = <<Step("make_device", 0)>>
  OBVIOUS
<1>4. PICK m1 \in Nat : m1 = 1
  BY <1>1
<1>5. BuildPiece(t1, o1, m1)
  <2>1. /\ t1 \in Seq(JobSteps) /\ Len(t1) = m1
        /\ t1[1] = [op |-> "make_device", item |-> 0]
    BY <1>3, <1>4, PoolStepFacts DEF Step
  <2>2. ASSUME NEW k \in 1..m1
        PROVE  AtBuild(t1[k], o1 + k)
    <3>1. k = 1
      BY <1>4
    <3>2. CASE k = 1
      BY <1>1, <1>2, <2>1, <3>2 DEF AtBuild
    <3> QED
      BY <3>1, <3>2
  <2> QED
    BY <2>1, <2>2 DEF BuildPiece
<1>6. PICK o2 \in Nat : o2 = 1
  BY <1>1
<1>7. BuildPiece(t1, 0, o2)
  <2>1. o2 = m1 /\ o1 = 0
    BY <1>2, <1>4, <1>6
  <2> QED
    BY <1>5, <2>1
<1>8. PICK t2 : t2 = ForEachOutput(<<"make_plane", "set_primary">>)
  OBVIOUS
<1>9. PICK m2 \in Nat : m2 = 2 * N
  BY <1>1
<1>10. BuildPiece(t2, o2, m2)
  <2>1. /\ "make_plane" \in ItemOps \cup InGroup
        /\ "set_primary" \in ItemOps \cup InGroup
    BY DEF ItemOps, InGroup
  <2>2. OfTwo(t2, "make_plane", "set_primary")
    BY <1>8, <2>1, GroupsOfTwo
  <2>3. t2 \in Seq(JobSteps) /\ Len(t2) = m2
    BY <1>1, <1>9, <2>2 DEF OfTwo
  <2>4. ASSUME NEW k \in 1..m2
        PROVE  AtBuild(t2[k], o2 + k)
    <3>1. PICK i \in Outputs :
             /\ t2[k].item = i
             /\ \/ k = 2 * i - 1 /\ t2[k].op = "make_plane"
                \/ k = 2 * i /\ t2[k].op = "set_primary"
      BY <2>2, <2>3 DEF OfTwo
    <3>2. CASE k = 2 * i - 1 /\ t2[k].op = "make_plane"
      BY <1>1, <1>6, <3>1, <3>2 DEF AtBuild
    <3>3. CASE k = 2 * i /\ t2[k].op = "set_primary"
      BY <1>1, <1>6, <3>1, <3>3 DEF AtBuild
    <3> QED
      BY <3>1, <3>2, <3>3
  <2> QED
    BY <2>3, <2>4 DEF BuildPiece
<1>11. PICK o3 \in Nat : o3 = 2 * N + 1
  BY <1>1
<1>12. PICK s2 : s2 = t1 \o t2
  OBVIOUS
<1>13. BuildPiece(s2, 0, o3)
  <2>1. o3 = o2 + m2
    BY <1>1, <1>6, <1>9, <1>11
  <2> QED
    BY <1>7, <1>10, <1>12, <2>1, BuildJoined
<1>14. PICK t3 : t3 = ForEachOutput(<<"make_crtc">>)
  OBVIOUS
<1>15. PICK m3 \in Nat : m3 = N
  BY <1>1
<1>16. BuildPiece(t3, o3, m3)
  <2>1. /\ "make_crtc" \in ItemOps \cup InGroup
    BY DEF ItemOps, InGroup
  <2>2. OfOne(t3, "make_crtc")
    BY <1>14, <2>1, GroupsOfOne
  <2>3. t3 \in Seq(JobSteps) /\ Len(t3) = m3
    BY <1>1, <1>15, <2>2 DEF OfOne
  <2>4. ASSUME NEW k \in 1..m3
        PROVE  AtBuild(t3[k], o3 + k)
    <3>1. PICK i \in Outputs :
             /\ t3[k].item = i
             /\ k = i /\ t3[k].op = "make_crtc"
      BY <2>2, <2>3 DEF OfOne
    <3>2. CASE k = i /\ t3[k].op = "make_crtc"
      BY <1>1, <1>11, <3>1, <3>2 DEF AtBuild
    <3> QED
      BY <3>1, <3>2
  <2> QED
    BY <2>3, <2>4 DEF BuildPiece
<1>17. PICK o4 \in Nat : o4 = 3 * N + 1
  BY <1>1
<1>18. PICK s3 : s3 = s2 \o t3
  OBVIOUS
<1>19. BuildPiece(s3, 0, o4)
  <2>1. o4 = o3 + m3
    BY <1>1, <1>11, <1>15, <1>17
  <2> QED
    BY <1>13, <1>16, <1>18, <2>1, BuildJoined
<1>20. PICK t4 : t4 = ForEachOutput(<<"make_encoder">>)
  OBVIOUS
<1>21. PICK m4 \in Nat : m4 = N
  BY <1>1
<1>22. BuildPiece(t4, o4, m4)
  <2>1. /\ "make_encoder" \in ItemOps \cup InGroup
    BY DEF ItemOps, InGroup
  <2>2. OfOne(t4, "make_encoder")
    BY <1>20, <2>1, GroupsOfOne
  <2>3. t4 \in Seq(JobSteps) /\ Len(t4) = m4
    BY <1>1, <1>21, <2>2 DEF OfOne
  <2>4. ASSUME NEW k \in 1..m4
        PROVE  AtBuild(t4[k], o4 + k)
    <3>1. PICK i \in Outputs :
             /\ t4[k].item = i
             /\ k = i /\ t4[k].op = "make_encoder"
      BY <2>2, <2>3 DEF OfOne
    <3>2. CASE k = i /\ t4[k].op = "make_encoder"
      BY <1>1, <1>17, <3>1, <3>2 DEF AtBuild
    <3> QED
      BY <3>1, <3>2
  <2> QED
    BY <2>3, <2>4 DEF BuildPiece
<1>23. PICK o5 \in Nat : o5 = 4 * N + 1
  BY <1>1
<1>24. PICK s4 : s4 = s3 \o t4
  OBVIOUS
<1>25. BuildPiece(s4, 0, o5)
  <2>1. o5 = o4 + m4
    BY <1>1, <1>17, <1>21, <1>23
  <2> QED
    BY <1>19, <1>22, <1>24, <2>1, BuildJoined
<1>26. PICK t5 : t5 = ForEachOutput(<<"make_connector", "set_disconnected">>)
  OBVIOUS
<1>27. PICK m5 \in Nat : m5 = 2 * N
  BY <1>1
<1>28. BuildPiece(t5, o5, m5)
  <2>1. /\ "make_connector" \in ItemOps \cup InGroup
        /\ "set_disconnected" \in ItemOps \cup InGroup
    BY DEF ItemOps, InGroup
  <2>2. OfTwo(t5, "make_connector", "set_disconnected")
    BY <1>26, <2>1, GroupsOfTwo
  <2>3. t5 \in Seq(JobSteps) /\ Len(t5) = m5
    BY <1>1, <1>27, <2>2 DEF OfTwo
  <2>4. ASSUME NEW k \in 1..m5
        PROVE  AtBuild(t5[k], o5 + k)
    <3>1. PICK i \in Outputs :
             /\ t5[k].item = i
             /\ \/ k = 2 * i - 1 /\ t5[k].op = "make_connector"
                \/ k = 2 * i /\ t5[k].op = "set_disconnected"
      BY <2>2, <2>3 DEF OfTwo
    <3>2. CASE k = 2 * i - 1 /\ t5[k].op = "make_connector"
      BY <1>1, <1>23, <3>1, <3>2 DEF AtBuild
    <3>3. CASE k = 2 * i /\ t5[k].op = "set_disconnected"
      BY <1>1, <1>23, <3>1, <3>3 DEF AtBuild
    <3> QED
      BY <3>1, <3>2, <3>3
  <2> QED
    BY <2>3, <2>4 DEF BuildPiece
<1>29. PICK o6 \in Nat : o6 = 6 * N + 1
  BY <1>1
<1>30. PICK s5 : s5 = s4 \o t5
  OBVIOUS
<1>31. BuildPiece(s5, 0, o6)
  <2>1. o6 = o5 + m5
    BY <1>1, <1>23, <1>27, <1>29
  <2> QED
    BY <1>25, <1>28, <1>30, <2>1, BuildJoined
<1>32. PICK t6 : t6 = ForEachOutput(<<"link_plane", "link_encoder", "link_connector">>)
  OBVIOUS
<1>33. PICK m6 \in Nat : m6 = 3 * N
  BY <1>1
<1>34. BuildPiece(t6, o6, m6)
  <2>1. /\ "link_plane" \in ItemOps \cup InGroup
        /\ "link_encoder" \in ItemOps \cup InGroup
        /\ "link_connector" \in ItemOps \cup InGroup
    BY DEF ItemOps, InGroup
  <2>2. OfThree(t6, "link_plane", "link_encoder", "link_connector")
    BY <1>32, <2>1, GroupsOfThree
  <2>3. t6 \in Seq(JobSteps) /\ Len(t6) = m6
    BY <1>1, <1>33, <2>2 DEF OfThree
  <2>4. ASSUME NEW k \in 1..m6
        PROVE  AtBuild(t6[k], o6 + k)
    <3>1. PICK i \in Outputs :
             /\ t6[k].item = i
             /\ \/ k = 3 * i - 2 /\ t6[k].op = "link_plane"
                \/ k = 3 * i - 1 /\ t6[k].op = "link_encoder"
                \/ k = 3 * i /\ t6[k].op = "link_connector"
      BY <2>2, <2>3 DEF OfThree
    <3>2. CASE k = 3 * i - 2 /\ t6[k].op = "link_plane"
      BY <1>1, <1>29, <3>1, <3>2 DEF AtBuild
    <3>3. CASE k = 3 * i - 1 /\ t6[k].op = "link_encoder"
      BY <1>1, <1>29, <3>1, <3>3 DEF AtBuild
    <3>4. CASE k = 3 * i /\ t6[k].op = "link_connector"
      BY <1>1, <1>29, <3>1, <3>4 DEF AtBuild
    <3> QED
      BY <3>1, <3>2, <3>3, <3>4
  <2> QED
    BY <2>3, <2>4 DEF BuildPiece
<1>35. PICK o7 \in Nat : o7 = 9 * N + 1
  BY <1>1
<1>36. PICK s6 : s6 = s5 \o t6
  OBVIOUS
<1>37. BuildPiece(s6, 0, o7)
  <2>1. o7 = o6 + m6
    BY <1>1, <1>29, <1>33, <1>35
  <2> QED
    BY <1>31, <1>34, <1>36, <2>1, BuildJoined
<1>38. PICK t7 : t7 = <<Step("validate", 0), Step("enable", 0)>>
  OBVIOUS
<1>39. PICK m7 \in Nat : m7 = 2
  BY <1>1
<1>40. BuildPiece(t7, o7, m7)
  <2>1. /\ t7 \in Seq(JobSteps) /\ Len(t7) = m7
        /\ t7[1] = [op |-> "validate", item |-> 0] /\ t7[2] = [op |-> "enable", item |-> 0]
    BY <1>38, <1>39, PoolStepFacts DEF Step
  <2>2. ASSUME NEW k \in 1..m7
        PROVE  AtBuild(t7[k], o7 + k)
    <3>1. k = 1 \/ k = 2
      BY <1>39
    <3>2. CASE k = 1
      BY <1>1, <1>35, <2>1, <3>2 DEF AtBuild
    <3>3. CASE k = 2
      BY <1>1, <1>35, <2>1, <3>3 DEF AtBuild
    <3> QED
      BY <3>1, <3>2, <3>3
  <2> QED
    BY <2>1, <2>2 DEF BuildPiece
<1>41. PICK o8 \in Nat : o8 = 9 * N + 3
  BY <1>1
<1>42. PICK s7 : s7 = s6 \o t7
  OBVIOUS
<1>43. BuildPiece(s7, 0, o8)
  <2>1. o8 = o7 + m7
    BY <1>1, <1>35, <1>39, <1>41
  <2> QED
    BY <1>37, <1>40, <1>42, <2>1, BuildJoined
<1>44. all = s7
  BY <1>3, <1>8, <1>12, <1>14, <1>18, <1>20, <1>24, <1>26, <1>30, <1>32, <1>36, <1>38, <1>42, Zenon DEF BuildSteps
<1>45. o8 = 9 * OutputCount + 3
  BY <1>1, <1>41
<1> QED
  BY <1>43, <1>44, <1>45

\* The n steps of s have the places after the first n0 in a removal.
RemovalPiece(s, n0, n) ==
    /\ s \in Seq(JobSteps) /\ Len(s) = n
    /\ \A k \in 1..Len(s) : AtRemoval(s[k], n0 + k)

\* One sequence of steps after another, each step at its place in a removal.
LEMMA RemovalJoined ==
  ASSUME NEW n \in Nat, NEW m \in Nat, NEW l, l = n + m,
         NEW s, RemovalPiece(s, 0, n), NEW t, RemovalPiece(t, n, m), NEW all, all = s \o t
  PROVE  RemovalPiece(all, 0, l)
<1>1. s \in Seq(JobSteps) /\ t \in Seq(JobSteps) /\ Len(s) = n /\ Len(t) = m
  BY DEF RemovalPiece
<1>2. /\ all \in Seq(JobSteps) /\ Len(all) = l
      /\ \A k \in 1..n : all[k] = s[k]
      /\ \A k \in 1..m : all[n + k] = t[k]
  <2>1. all \in Seq(JobSteps)
    BY <1>1
  <2>2. Len(all) = Len(s) + Len(t)
    BY <1>1, ConcatProperties, Zenon
  <2>3. ASSUME NEW k \in 1..n
        PROVE  all[k] = s[k]
    BY <1>1
  <2>4. ASSUME NEW k \in 1..m
        PROVE  all[n + k] = t[k]
    BY <1>1
  <2> QED
    BY <1>1, <2>1, <2>2, <2>3, <2>4
<1>3. ASSUME NEW k \in 1..l
      PROVE  AtRemoval(all[k], 0 + k)
  <2>1. CASE k \in 1..n
    BY <1>1, <1>2, <2>1 DEF RemovalPiece
  <2>2. CASE \E j \in 1..m : k = n + j
    <3>1. PICK j \in 1..m : k = n + j
      BY <2>2
    <3>2. all[k] = t[j] /\ AtRemoval(t[j], n + j)
      BY <1>1, <1>2, <3>1 DEF RemovalPiece
    <3>3. 0 + k = n + j
      BY <3>1
    <3> QED
      BY <3>2, <3>3
  <2>3. k \in 1..n + m
    OBVIOUS
  <2> QED
    BY <2>1, <2>2, <2>3, Split
<1> QED
  BY <1>2, <1>3 DEF RemovalPiece

\* Where each step of a removal is.
LEMMA RemovalPlaces ==
  ASSUME NEW all, all = RemoveSteps
  PROVE  RemovalPiece(all, 0, 7 * OutputCount + 5)
<1>1. PICK N \in Nat : N = OutputCount /\ Outputs = 1..N
  BY PoolAssumption DEF Outputs
<1>2. PICK o1 \in Nat : o1 = 0
  OBVIOUS
<1>3. PICK t1 : t1 = <<Step("disable", 0)>>
  OBVIOUS
<1>4. PICK m1 \in Nat : m1 = 1
  BY <1>1
<1>5. RemovalPiece(t1, o1, m1)
  <2>1. /\ t1 \in Seq(JobSteps) /\ Len(t1) = m1
        /\ t1[1] = [op |-> "disable", item |-> 0]
    BY <1>3, <1>4, PoolStepFacts DEF Step
  <2>2. ASSUME NEW k \in 1..m1
        PROVE  AtRemoval(t1[k], o1 + k)
    <3>1. k = 1
      BY <1>4
    <3>2. CASE k = 1
      BY <1>1, <1>2, <2>1, <3>2 DEF AtRemoval
    <3> QED
      BY <3>1, <3>2
  <2> QED
    BY <2>1, <2>2 DEF RemovalPiece
<1>6. PICK o2 \in Nat : o2 = 1
  BY <1>1
<1>7. RemovalPiece(t1, 0, o2)
  <2>1. o2 = m1 /\ o1 = 0
    BY <1>2, <1>4, <1>6
  <2> QED
    BY <1>5, <2>1
<1>8. PICK t2 : t2 = ForEachOutput(<<"unlink_connector", "unlink_encoder", "unlink_plane">>)
  OBVIOUS
<1>9. PICK m2 \in Nat : m2 = 3 * N
  BY <1>1
<1>10. RemovalPiece(t2, o2, m2)
  <2>1. /\ "unlink_connector" \in ItemOps \cup InGroup
        /\ "unlink_encoder" \in ItemOps \cup InGroup
        /\ "unlink_plane" \in ItemOps \cup InGroup
    BY DEF ItemOps, InGroup
  <2>2. OfThree(t2, "unlink_connector", "unlink_encoder", "unlink_plane")
    BY <1>8, <2>1, GroupsOfThree
  <2>3. t2 \in Seq(JobSteps) /\ Len(t2) = m2
    BY <1>1, <1>9, <2>2 DEF OfThree
  <2>4. ASSUME NEW k \in 1..m2
        PROVE  AtRemoval(t2[k], o2 + k)
    <3>1. PICK i \in Outputs :
             /\ t2[k].item = i
             /\ \/ k = 3 * i - 2 /\ t2[k].op = "unlink_connector"
                \/ k = 3 * i - 1 /\ t2[k].op = "unlink_encoder"
                \/ k = 3 * i /\ t2[k].op = "unlink_plane"
      BY <2>2, <2>3 DEF OfThree
    <3>2. CASE k = 3 * i - 2 /\ t2[k].op = "unlink_connector"
      BY <1>1, <1>6, <3>1, <3>2 DEF AtRemoval
    <3>3. CASE k = 3 * i - 1 /\ t2[k].op = "unlink_encoder"
      BY <1>1, <1>6, <3>1, <3>3 DEF AtRemoval
    <3>4. CASE k = 3 * i /\ t2[k].op = "unlink_plane"
      BY <1>1, <1>6, <3>1, <3>4 DEF AtRemoval
    <3> QED
      BY <3>1, <3>2, <3>3, <3>4
  <2> QED
    BY <2>3, <2>4 DEF RemovalPiece
<1>11. PICK o3 \in Nat : o3 = 3 * N + 1
  BY <1>1
<1>12. PICK s2 : s2 = t1 \o t2
  OBVIOUS
<1>13. RemovalPiece(s2, 0, o3)
  <2>1. o3 = o2 + m2
    BY <1>1, <1>6, <1>9, <1>11
  <2> QED
    BY <1>7, <1>10, <1>12, <2>1, RemovalJoined
<1>14. PICK t3 : t3 = <<Step("give_up", 0)>>
  OBVIOUS
<1>15. PICK m3 \in Nat : m3 = 1
  BY <1>1
<1>16. RemovalPiece(t3, o3, m3)
  <2>1. /\ t3 \in Seq(JobSteps) /\ Len(t3) = m3
        /\ t3[1] = [op |-> "give_up", item |-> 0]
    BY <1>14, <1>15, PoolStepFacts DEF Step
  <2>2. ASSUME NEW k \in 1..m3
        PROVE  AtRemoval(t3[k], o3 + k)
    <3>1. k = 1
      BY <1>15
    <3>2. CASE k = 1
      BY <1>1, <1>11, <2>1, <3>2 DEF AtRemoval
    <3> QED
      BY <3>1, <3>2
  <2> QED
    BY <2>1, <2>2 DEF RemovalPiece
<1>17. PICK o4 \in Nat : o4 = 3 * N + 2
  BY <1>1
<1>18. PICK s3 : s3 = s2 \o t3
  OBVIOUS
<1>19. RemovalPiece(s3, 0, o4)
  <2>1. o4 = o3 + m3
    BY <1>1, <1>11, <1>15, <1>17
  <2> QED
    BY <1>13, <1>16, <1>18, <2>1, RemovalJoined
<1>20. PICK t4 : t4 = ForEachOutput(<<"remove_connector", "remove_encoder", "remove_plane", "remove_crtc">>)
  OBVIOUS
<1>21. PICK m4 \in Nat : m4 = 4 * N
  BY <1>1
<1>22. RemovalPiece(t4, o4, m4)
  <2>1. /\ "remove_connector" \in ItemOps \cup InGroup
        /\ "remove_encoder" \in ItemOps \cup InGroup
        /\ "remove_plane" \in ItemOps \cup InGroup
        /\ "remove_crtc" \in ItemOps \cup InGroup
    BY DEF ItemOps, InGroup
  <2>2. OfFour(t4, "remove_connector", "remove_encoder", "remove_plane", "remove_crtc")
    BY <1>20, <2>1, GroupsOfFour
  <2>3. t4 \in Seq(JobSteps) /\ Len(t4) = m4
    BY <1>1, <1>21, <2>2 DEF OfFour
  <2>4. ASSUME NEW k \in 1..m4
        PROVE  AtRemoval(t4[k], o4 + k)
    <3>1. PICK i \in Outputs :
             /\ t4[k].item = i
             /\ \/ k = 4 * i - 3 /\ t4[k].op = "remove_connector"
                \/ k = 4 * i - 2 /\ t4[k].op = "remove_encoder"
                \/ k = 4 * i - 1 /\ t4[k].op = "remove_plane"
                \/ k = 4 * i /\ t4[k].op = "remove_crtc"
      BY <2>2, <2>3 DEF OfFour
    <3>2. CASE k = 4 * i - 3 /\ t4[k].op = "remove_connector"
      BY <1>1, <1>17, <3>1, <3>2 DEF AtRemoval
    <3>3. CASE k = 4 * i - 2 /\ t4[k].op = "remove_encoder"
      BY <1>1, <1>17, <3>1, <3>3 DEF AtRemoval
    <3>4. CASE k = 4 * i - 1 /\ t4[k].op = "remove_plane"
      BY <1>1, <1>17, <3>1, <3>4 DEF AtRemoval
    <3>5. CASE k = 4 * i /\ t4[k].op = "remove_crtc"
      BY <1>1, <1>17, <3>1, <3>5 DEF AtRemoval
    <3> QED
      BY <3>1, <3>2, <3>3, <3>4, <3>5
  <2> QED
    BY <2>3, <2>4 DEF RemovalPiece
<1>23. PICK o5 \in Nat : o5 = 7 * N + 2
  BY <1>1
<1>24. PICK s4 : s4 = s3 \o t4
  OBVIOUS
<1>25. RemovalPiece(s4, 0, o5)
  <2>1. o5 = o4 + m4
    BY <1>1, <1>17, <1>21, <1>23
  <2> QED
    BY <1>19, <1>22, <1>24, <2>1, RemovalJoined
<1>26. PICK t5 : t5 = <<Step("give_up", 0)>>
  OBVIOUS
<1>27. PICK m5 \in Nat : m5 = 1
  BY <1>1
<1>28. RemovalPiece(t5, o5, m5)
  <2>1. /\ t5 \in Seq(JobSteps) /\ Len(t5) = m5
        /\ t5[1] = [op |-> "give_up", item |-> 0]
    BY <1>26, <1>27, PoolStepFacts DEF Step
  <2>2. ASSUME NEW k \in 1..m5
        PROVE  AtRemoval(t5[k], o5 + k)
    <3>1. k = 1
      BY <1>27
    <3>2. CASE k = 1
      BY <1>1, <1>23, <2>1, <3>2 DEF AtRemoval
    <3> QED
      BY <3>1, <3>2
  <2> QED
    BY <2>1, <2>2 DEF RemovalPiece
<1>29. PICK o6 \in Nat : o6 = 7 * N + 3
  BY <1>1
<1>30. PICK s5 : s5 = s4 \o t5
  OBVIOUS
<1>31. RemovalPiece(s5, 0, o6)
  <2>1. o6 = o5 + m5
    BY <1>1, <1>23, <1>27, <1>29
  <2> QED
    BY <1>25, <1>28, <1>30, <2>1, RemovalJoined
<1>32. PICK t6 : t6 = <<Step("remove_device", 0), Step("clear_leases", 0)>>
  OBVIOUS
<1>33. PICK m6 \in Nat : m6 = 2
  BY <1>1
<1>34. RemovalPiece(t6, o6, m6)
  <2>1. /\ t6 \in Seq(JobSteps) /\ Len(t6) = m6
        /\ t6[1] = [op |-> "remove_device", item |-> 0] /\ t6[2] = [op |-> "clear_leases", item |-> 0]
    BY <1>32, <1>33, PoolStepFacts DEF Step
  <2>2. ASSUME NEW k \in 1..m6
        PROVE  AtRemoval(t6[k], o6 + k)
    <3>1. k = 1 \/ k = 2
      BY <1>33
    <3>2. CASE k = 1
      BY <1>1, <1>29, <2>1, <3>2 DEF AtRemoval
    <3>3. CASE k = 2
      BY <1>1, <1>29, <2>1, <3>3 DEF AtRemoval
    <3> QED
      BY <3>1, <3>2, <3>3
  <2> QED
    BY <2>1, <2>2 DEF RemovalPiece
<1>35. PICK o7 \in Nat : o7 = 7 * N + 5
  BY <1>1
<1>36. PICK s6 : s6 = s5 \o t6
  OBVIOUS
<1>37. RemovalPiece(s6, 0, o7)
  <2>1. o7 = o6 + m6
    BY <1>1, <1>29, <1>33, <1>35
  <2> QED
    BY <1>31, <1>34, <1>36, <2>1, RemovalJoined
<1>38. all = s6
  BY <1>3, <1>8, <1>12, <1>14, <1>18, <1>20, <1>24, <1>26, <1>30, <1>32, <1>36, Zenon
  DEF RemoveSteps, RemoveGroups, RemoveItems
<1>39. o7 = 7 * OutputCount + 5
  BY <1>1, <1>35
<1> QED
  BY <1>37, <1>38, <1>39

-----------------------------------------------------------------------------
(* What the steps of a removal do.                                         *)

\* Nothing is in the new configuration that was not in the old one.
Shrinks(new, old) ==
    /\ DOMAIN new.types \subseteq DOMAIN old.types /\ DOMAIN new.status \subseteq DOMAIN old.status
    /\ new.crtcs \subseteq old.crtcs /\ new.encoders \subseteq old.encoders
    /\ new.planeCrtcs \subseteq old.planeCrtcs /\ new.encoderCrtcs \subseteq old.encoderCrtcs
    /\ new.connectorEncoders \subseteq old.connectorEncoders

\* The links of the pool are those of an output to itself.
Straight(cfg) ==
    \A a \in Outputs, b \in Outputs :
        <<a, b>> \in cfg.planeCrtcs \cup cfg.encoderCrtcs \cup cfg.connectorEncoders => a = b

\* A configuration that is written is that of the device, which stays as it was otherwise.
LEMMA ConfigWritten ==
  ASSUME Inv, Configured, NEW c \in Configs, Becomes(c)
  PROVE  Configured' /\ device'.config = c /\ device'.enabled = device.enabled
<1>1. device \in Devices /\ device' = [device EXCEPT !.config = c]
  BY DEF Inv, Becomes
<1>2. device' \in Devices /\ device'.config = c /\ device'.enabled = device.enabled
  BY <1>1 DEF Devices
<1> QED
  BY <1>1, <1>2, NoDeviceAssumption DEF Configured

\* A plane that is destroyed is gone, with its links.
LEMMA PlaneGone ==
  ASSUME NEW old, Sound(old), NEW i \in Planes, NEW new, new = DestroyPlane(old, i)
  PROVE  new \in Configs /\ Shrinks(new, old) /\ i \notin DOMAIN new.types
<1>1. new \in Configs
  BY PlaneDestroyed DEF Sound
<1>2. PICK f, l : f = Restrict(old.types, PlanesOf(old) \ {i}) /\ l = NotFrom(old.planeCrtcs, i)
  OBVIOUS
<1>3. new = [old EXCEPT !.types = f, !.planeCrtcs = l]
  BY <1>2 DEF DestroyPlane
<1>4. DOMAIN f = DOMAIN old.types \ {i} /\ l \subseteq old.planeCrtcs
  BY <1>2 DEF Restrict, PlanesOf, NotFrom
<1>5. /\ new.types = f /\ new.planeCrtcs = l /\ new.crtcs = old.crtcs /\ new.encoders = old.encoders
      /\ new.status = old.status /\ new.encoderCrtcs = old.encoderCrtcs
      /\ new.connectorEncoders = old.connectorEncoders
  BY <1>3 DEF Sound, Configs
<1> QED
  BY <1>1, <1>4, <1>5 DEF Shrinks

\* A CRTC that is destroyed is gone, with its links.
LEMMA CrtcGone ==
  ASSUME NEW old, Sound(old), NEW i \in Crtcs, NEW new, new = DestroyCrtc(old, i)
  PROVE  new \in Configs /\ Shrinks(new, old) /\ i \notin new.crtcs
<1>1. new \in Configs
  BY CrtcDestroyed DEF Sound
<1>2. PICK f, l, m : /\ f = old.crtcs \ {i} /\ l = NotTo(old.planeCrtcs, i)
                     /\ m = NotTo(old.encoderCrtcs, i)
  OBVIOUS
<1>3. new = [old EXCEPT !.crtcs = f, !.planeCrtcs = l, !.encoderCrtcs = m]
  BY <1>2 DEF DestroyCrtc
<1>4. l \subseteq old.planeCrtcs /\ m \subseteq old.encoderCrtcs
  BY <1>2 DEF NotTo
<1>5. /\ new.crtcs = f /\ new.planeCrtcs = l /\ new.encoderCrtcs = m /\ new.types = old.types
      /\ new.encoders = old.encoders /\ new.status = old.status
      /\ new.connectorEncoders = old.connectorEncoders
  BY <1>3 DEF Sound, Configs
<1> QED
  BY <1>1, <1>2, <1>4, <1>5 DEF Shrinks

\* An encoder that is destroyed is gone, with its links.
LEMMA EncoderGone ==
  ASSUME NEW old, Sound(old), NEW i \in Encoders, NEW new, new = DestroyEncoder(old, i)
  PROVE  new \in Configs /\ Shrinks(new, old) /\ i \notin new.encoders
<1>1. new \in Configs
  BY EncoderDestroyed DEF Sound
<1>2. PICK f, l, m : /\ f = old.encoders \ {i} /\ l = NotFrom(old.encoderCrtcs, i)
                     /\ m = NotTo(old.connectorEncoders, i)
  OBVIOUS
<1>3. new = [old EXCEPT !.encoders = f, !.encoderCrtcs = l, !.connectorEncoders = m]
  BY <1>2 DEF DestroyEncoder
<1>4. l \subseteq old.encoderCrtcs /\ m \subseteq old.connectorEncoders
  BY <1>2 DEF NotTo, NotFrom
<1>5. /\ new.encoders = f /\ new.encoderCrtcs = l /\ new.connectorEncoders = m /\ new.types = old.types
      /\ new.crtcs = old.crtcs /\ new.status = old.status /\ new.planeCrtcs = old.planeCrtcs
  BY <1>3 DEF Sound, Configs
<1> QED
  BY <1>1, <1>2, <1>4, <1>5 DEF Shrinks

\* A connector that is destroyed is gone, with its links.
LEMMA ConnectorGone ==
  ASSUME NEW old, Sound(old), NEW i \in Connectors, NEW new, new = DestroyConnector(old, i)
  PROVE  new \in Configs /\ Shrinks(new, old) /\ i \notin DOMAIN new.status
<1>1. new \in Configs
  BY ConnectorDestroyed DEF Sound
<1>2. PICK f, g, l : /\ f = Restrict(old.status, ConnectorsOf(old) \ {i})
                     /\ g = Restrict(old.modes, ConnectorsOf(old) \ {i})
                     /\ l = NotFrom(old.connectorEncoders, i)
  OBVIOUS
<1>3. new = [old EXCEPT !.status = f, !.modes = g, !.connectorEncoders = l]
  BY <1>2 DEF DestroyConnector
<1>4. DOMAIN f = DOMAIN old.status \ {i} /\ l \subseteq old.connectorEncoders
  BY <1>2 DEF Restrict, ConnectorsOf, NotFrom
<1>5. /\ new.status = f /\ new.connectorEncoders = l /\ new.crtcs = old.crtcs
      /\ new.encoders = old.encoders /\ new.types = old.types
      /\ new.encoderCrtcs = old.encoderCrtcs /\ new.planeCrtcs = old.planeCrtcs
  BY <1>3 DEF Sound, Configs
<1> QED
  BY <1>1, <1>4, <1>5 DEF Shrinks

\* One part of the configuration is written, the others of those that matter to a job are not.
Only(new, old, part) ==
    /\ part # "types" => new.types = old.types
    /\ part # "crtcs" => new.crtcs = old.crtcs
    /\ part # "encoders" => new.encoders = old.encoders
    /\ part # "status" => new.status = old.status
    /\ part # "planeCrtcs" => new.planeCrtcs = old.planeCrtcs
    /\ part # "encoderCrtcs" => new.encoderCrtcs = old.encoderCrtcs
    /\ part # "connectorEncoders" => new.connectorEncoders = old.connectorEncoders

\* A link that is removed is gone; the items stay.
LEMMA LinkGone ==
  ASSUME NEW old, Sound(old), NEW a, NEW b, NEW new
  PROVE  /\ new = DetachPlane(old, a, b) =>
               new \in Configs /\ Shrinks(new, old) /\ <<a, b>> \notin new.planeCrtcs
         /\ new = DetachEncoder(old, a, b) =>
               new \in Configs /\ Shrinks(new, old) /\ <<a, b>> \notin new.encoderCrtcs
         /\ new = DetachConnector(old, a, b) =>
               new \in Configs /\ Shrinks(new, old) /\ <<a, b>> \notin new.connectorEncoders
<1>1. ASSUME new = DetachPlane(old, a, b)
      PROVE  new \in Configs /\ Shrinks(new, old) /\ <<a, b>> \notin new.planeCrtcs
  <2>1. PICK l : l = old.planeCrtcs \ {<<a, b>>}
    OBVIOUS
  <2>2. new = [old EXCEPT !.planeCrtcs = l]
    BY <1>1, <2>1 DEF DetachPlane
  <2>3. l \subseteq Planes \X Crtcs
    BY <2>1 DEF Sound, Configs
  <2>4. Only(new, old, "planeCrtcs") /\ new.planeCrtcs = l /\ new \in Configs
    BY <2>2, <2>3 DEF Sound, Configs, Only
  <2> QED
    BY <1>1, <2>1, <2>4 DEF Only, Shrinks
<1>2. ASSUME new = DetachEncoder(old, a, b)
      PROVE  new \in Configs /\ Shrinks(new, old) /\ <<a, b>> \notin new.encoderCrtcs
  <2>1. PICK l : l = old.encoderCrtcs \ {<<a, b>>}
    OBVIOUS
  <2>2. new = [old EXCEPT !.encoderCrtcs = l]
    BY <1>2, <2>1 DEF DetachEncoder
  <2>3. l \subseteq Encoders \X Crtcs
    BY <2>1 DEF Sound, Configs
  <2>4. Only(new, old, "encoderCrtcs") /\ new.encoderCrtcs = l /\ new \in Configs
    BY <2>2, <2>3 DEF Sound, Configs, Only
  <2> QED
    BY <1>2, <2>1, <2>4 DEF Only, Shrinks
<1>3. ASSUME new = DetachConnector(old, a, b)
      PROVE  new \in Configs /\ Shrinks(new, old) /\ <<a, b>> \notin new.connectorEncoders
  <2>1. PICK l : l = old.connectorEncoders \ {<<a, b>>}
    OBVIOUS
  <2>2. new = [old EXCEPT !.connectorEncoders = l]
    BY <1>3, <2>1 DEF DetachConnector
  <2>3. l \subseteq Connectors \X Encoders
    BY <2>1 DEF Sound, Configs
  <2>4. Only(new, old, "connectorEncoders") /\ new.connectorEncoders = l /\ new \in Configs
    BY <2>2, <2>3 DEF Sound, Configs, Only
  <2> QED
    BY <1>3, <2>1, <2>4 DEF Only, Shrinks
<1> QED
  BY <1>1, <1>2, <1>3

\* What a step of a removal leaves: less than before, and what the step is for is not there.
LEMMA Removes ==
  ASSUME Inv, NEW step \in JobSteps, step.op \in InGroup, Perform(step)
  PROVE  /\ Configured /\ Configured' /\ device'.enabled = device.enabled
         /\ Shrinks(device'.config, device.config) /\ Absent(step)'
<1>1. PICK old, i : old = device.config /\ i = step.item
  OBVIOUS
<1>2. i \in Outputs /\ i \in Planes /\ i \in Crtcs /\ i \in Encoders /\ i \in Connectors
  BY <1>1, PoolAssumption DEF JobSteps
<1>3. Configured
  BY DEF Perform, InGroup, UnlinkConnector, MayUnlinkConnector, UnlinkEncoder, MayUnlinkEncoder,
         UnlinkPlane, MayUnlinkPlane, ReleaseConnector, MayReleaseConnector, ReleaseEncoder,
         MayReleaseEncoder, ReleasePlane, MayReleasePlane, ReleaseCrtc, MayReleaseCrtc
<1>4. Sound(old)
  BY <1>1, <1>3 DEF Inv
<1>5. CASE step.op = "unlink_connector"
  <2>1. PICK new : new = DetachConnector(old, i, i)
    OBVIOUS
  <2>2. Becomes(new)
    <3>1. UnlinkConnector(i, i)
      BY <1>1, <1>5 DEF Perform
    <3> QED
      BY <1>1, <2>1, <3>1 DEF UnlinkConnector, MayUnlinkConnector
  <2>3. new \in Configs /\ Shrinks(new, old) /\ <<i, i>> \notin new.connectorEncoders
    BY <1>2, <1>4, <2>1, LinkGone
  <2>4. Configured' /\ device'.config = new /\ device'.enabled = device.enabled
    BY <1>3, <2>2, <2>3, ConfigWritten
  <2> QED
    BY <1>1, <1>3, <1>5, <2>3, <2>4 DEF Absent, ConnectorsOf, PlanesOf
<1>6. CASE step.op = "unlink_encoder"
  <2>1. PICK new : new = DetachEncoder(old, i, i)
    OBVIOUS
  <2>2. Becomes(new)
    <3>1. UnlinkEncoder(i, i)
      BY <1>1, <1>6 DEF Perform
    <3> QED
      BY <1>1, <2>1, <3>1 DEF UnlinkEncoder, MayUnlinkEncoder
  <2>3. new \in Configs /\ Shrinks(new, old) /\ <<i, i>> \notin new.encoderCrtcs
    BY <1>2, <1>4, <2>1, LinkGone
  <2>4. Configured' /\ device'.config = new /\ device'.enabled = device.enabled
    BY <1>3, <2>2, <2>3, ConfigWritten
  <2> QED
    BY <1>1, <1>3, <1>6, <2>3, <2>4 DEF Absent, ConnectorsOf, PlanesOf
<1>7. CASE step.op = "unlink_plane"
  <2>1. PICK new : new = DetachPlane(old, i, i)
    OBVIOUS
  <2>2. Becomes(new)
    <3>1. UnlinkPlane(i, i)
      BY <1>1, <1>7 DEF Perform
    <3> QED
      BY <1>1, <2>1, <3>1 DEF UnlinkPlane, MayUnlinkPlane
  <2>3. new \in Configs /\ Shrinks(new, old) /\ <<i, i>> \notin new.planeCrtcs
    BY <1>2, <1>4, <2>1, LinkGone
  <2>4. Configured' /\ device'.config = new /\ device'.enabled = device.enabled
    BY <1>3, <2>2, <2>3, ConfigWritten
  <2> QED
    BY <1>1, <1>3, <1>7, <2>3, <2>4 DEF Absent, ConnectorsOf, PlanesOf
<1>8. CASE step.op = "remove_connector"
  <2>1. PICK new : new = DestroyConnector(old, i)
    OBVIOUS
  <2>2. Becomes(new)
    <3>1. ReleaseConnector(i)
      BY <1>1, <1>8 DEF Perform
    <3> QED
      BY <1>1, <2>1, <3>1 DEF ReleaseConnector, MayReleaseConnector
  <2>3. new \in Configs /\ Shrinks(new, old) /\ i \notin DOMAIN new.status
    BY <1>2, <1>4, <2>1, ConnectorGone
  <2>4. Configured' /\ device'.config = new /\ device'.enabled = device.enabled
    BY <1>3, <2>2, <2>3, ConfigWritten
  <2> QED
    BY <1>1, <1>3, <1>8, <2>3, <2>4 DEF Absent, ConnectorsOf, PlanesOf
<1>9. CASE step.op = "remove_encoder"
  <2>1. PICK new : new = DestroyEncoder(old, i)
    OBVIOUS
  <2>2. Becomes(new)
    <3>1. ReleaseEncoder(i)
      BY <1>1, <1>9 DEF Perform
    <3> QED
      BY <1>1, <2>1, <3>1 DEF ReleaseEncoder, MayReleaseEncoder
  <2>3. new \in Configs /\ Shrinks(new, old) /\ i \notin new.encoders
    BY <1>2, <1>4, <2>1, EncoderGone
  <2>4. Configured' /\ device'.config = new /\ device'.enabled = device.enabled
    BY <1>3, <2>2, <2>3, ConfigWritten
  <2> QED
    BY <1>1, <1>3, <1>9, <2>3, <2>4 DEF Absent, ConnectorsOf, PlanesOf
<1>10. CASE step.op = "remove_plane"
  <2>1. PICK new : new = DestroyPlane(old, i)
    OBVIOUS
  <2>2. Becomes(new)
    <3>1. ReleasePlane(i)
      BY <1>1, <1>10 DEF Perform
    <3> QED
      BY <1>1, <2>1, <3>1 DEF ReleasePlane, MayReleasePlane
  <2>3. new \in Configs /\ Shrinks(new, old) /\ i \notin DOMAIN new.types
    BY <1>2, <1>4, <2>1, PlaneGone
  <2>4. Configured' /\ device'.config = new /\ device'.enabled = device.enabled
    BY <1>3, <2>2, <2>3, ConfigWritten
  <2> QED
    BY <1>1, <1>3, <1>10, <2>3, <2>4 DEF Absent, ConnectorsOf, PlanesOf
<1>11. CASE step.op = "remove_crtc"
  <2>1. PICK new : new = DestroyCrtc(old, i)
    OBVIOUS
  <2>2. Becomes(new)
    <3>1. ReleaseCrtc(i)
      BY <1>1, <1>11 DEF Perform
    <3> QED
      BY <1>1, <2>1, <3>1 DEF ReleaseCrtc, MayReleaseCrtc
  <2>3. new \in Configs /\ Shrinks(new, old) /\ i \notin new.crtcs
    BY <1>2, <1>4, <2>1, CrtcGone
  <2>4. Configured' /\ device'.config = new /\ device'.enabled = device.enabled
    BY <1>3, <2>2, <2>3, ConfigWritten
  <2> QED
    BY <1>1, <1>3, <1>11, <2>3, <2>4 DEF Absent, ConnectorsOf, PlanesOf
<1> QED
  BY <1>5, <1>6, <1>7, <1>8, <1>9, <1>10, <1>11, Zenon DEF InGroup

-----------------------------------------------------------------------------
(* How far a removal is.                                                   *)

\* What is still there of output j when a removal comes to its p-th step has its turn to come.
NotRemoved(cfg, j, p) ==
    LET N == OutputCount IN
    /\ <<j, j>> \in cfg.connectorEncoders => p <= 3 * j - 1
    /\ <<j, j>> \in cfg.encoderCrtcs => p <= 3 * j
    /\ <<j, j>> \in cfg.planeCrtcs => p <= 3 * j + 1
    /\ j \in DOMAIN cfg.status => p <= 3 * N + 4 * j - 1
    /\ j \in cfg.encoders => p <= 3 * N + 4 * j
    /\ j \in DOMAIN cfg.types => p <= 3 * N + 4 * j + 1
    /\ j \in cfg.crtcs => p <= 3 * N + 4 * j + 2

Removing(p) ==
    /\ Configured <=> p <= 7 * OutputCount + 4
    /\ Configured =>
        /\ device.enabled => p <= 1
        /\ \A j \in Outputs : NotRemoved(device.config, j, p)

\* The place is that of one step only.
LEMMA RemovalUnique ==
  ASSUME NEW step, NEW p \in Nat, AtRemoval(step, p), NEW j \in Outputs,
         NEW N \in Nat, N = OutputCount
  PROVE  /\ p = 3 * j - 1 => step.op = "unlink_connector" /\ step.item = j
         /\ p = 3 * j => step.op = "unlink_encoder" /\ step.item = j
         /\ p = 3 * j + 1 => step.op = "unlink_plane" /\ step.item = j
         /\ p = 3 * N + 4 * j - 1 => step.op = "remove_connector" /\ step.item = j
         /\ p = 3 * N + 4 * j => step.op = "remove_encoder" /\ step.item = j
         /\ p = 3 * N + 4 * j + 1 => step.op = "remove_plane" /\ step.item = j
         /\ p = 3 * N + 4 * j + 2 => step.op = "remove_crtc" /\ step.item = j
<1> DEFINE IsOf(i) ==
          /\ step.item = i
          /\ \/ step.op = "unlink_connector" /\ p = 3 * i - 1
             \/ step.op = "unlink_encoder" /\ p = 3 * i
             \/ step.op = "unlink_plane" /\ p = 3 * i + 1
             \/ step.op = "remove_connector" /\ p = 3 * N + 4 * i - 1
             \/ step.op = "remove_encoder" /\ p = 3 * N + 4 * i
             \/ step.op = "remove_plane" /\ p = 3 * N + 4 * i + 1
             \/ step.op = "remove_crtc" /\ p = 3 * N + 4 * i + 2
<1>1. j \in 1..N /\ Outputs = 1..N
  BY DEF Outputs
<1>9. \/ p \in {1, 3 * N + 2, 7 * N + 3, 7 * N + 4, 7 * N + 5}
      \/ \E i \in 1..N : IsOf(i)
  BY <1>1 DEF AtRemoval
<1>2. ASSUME p = 3 * j - 1
      PROVE  step.op = "unlink_connector" /\ step.item = j
  <2>1. PICK i \in 1..N : IsOf(i)
    BY <1>1, <1>9, <1>2
  <2> QED
    BY <1>1, <1>2, <2>1
<1>3. ASSUME p = 3 * j
      PROVE  step.op = "unlink_encoder" /\ step.item = j
  <2>1. PICK i \in 1..N : IsOf(i)
    BY <1>1, <1>9, <1>3
  <2> QED
    BY <1>1, <1>3, <2>1
<1>4. ASSUME p = 3 * j + 1
      PROVE  step.op = "unlink_plane" /\ step.item = j
  <2>1. PICK i \in 1..N : IsOf(i)
    BY <1>1, <1>9, <1>4
  <2> QED
    BY <1>1, <1>4, <2>1
<1>5. ASSUME p = 3 * N + 4 * j - 1
      PROVE  step.op = "remove_connector" /\ step.item = j
  <2>1. PICK i \in 1..N : IsOf(i)
    BY <1>1, <1>9, <1>5
  <2> QED
    BY <1>1, <1>5, <2>1
<1>6. ASSUME p = 3 * N + 4 * j
      PROVE  step.op = "remove_encoder" /\ step.item = j
  <2>1. PICK i \in 1..N : IsOf(i)
    BY <1>1, <1>9, <1>6
  <2> QED
    BY <1>1, <1>6, <2>1
<1>7. ASSUME p = 3 * N + 4 * j + 1
      PROVE  step.op = "remove_plane" /\ step.item = j
  <2>1. PICK i \in 1..N : IsOf(i)
    BY <1>1, <1>9, <1>7
  <2> QED
    BY <1>1, <1>7, <2>1
<1>8. ASSUME p = 3 * N + 4 * j + 2
      PROVE  step.op = "remove_crtc" /\ step.item = j
  <2>1. PICK i \in 1..N : IsOf(i)
    BY <1>1, <1>9, <1>8
  <2> QED
    BY <1>1, <1>8, <2>1
<1> QED
  BY <1>2, <1>3, <1>4, <1>5, <1>6, <1>7, <1>8

\* After a step of a removal what it is for has had its turn.
LEMMA NotRemovedAdvances ==
  ASSUME NEW step, NEW p \in Nat, AtRemoval(step, p), NEW j \in Outputs,
         NEW old, NotRemoved(old, j, p), NEW new, Shrinks(new, old),
         device'.config = new, step.op \in InGroup => Absent(step)'
  PROVE  NotRemoved(new, j, p + 1)
<1>1. PICK N \in Nat : N = OutputCount /\ Outputs = 1..N /\ j \in 1..N
  BY PoolAssumption DEF Outputs
<1>2. ASSUME <<j, j>> \in new.connectorEncoders
      PROVE  p + 1 <= 3 * j - 1
  <2>1. <<j, j>> \in old.connectorEncoders /\ p <= 3 * j - 1
    BY <1>1, <1>2 DEF Shrinks, NotRemoved
  <2>2. ASSUME p = 3 * j - 1
        PROVE  FALSE
    <3>1. step.op = "unlink_connector" /\ step.item = j
      BY <1>1, <2>2, RemovalUnique
    <3> QED
      BY <1>2, <3>1 DEF Absent, InGroup, ConnectorsOf, PlanesOf
  <2> QED
    BY <1>1, <2>1, <2>2
<1>3. ASSUME <<j, j>> \in new.encoderCrtcs
      PROVE  p + 1 <= 3 * j
  <2>1. <<j, j>> \in old.encoderCrtcs /\ p <= 3 * j
    BY <1>1, <1>3 DEF Shrinks, NotRemoved
  <2>2. ASSUME p = 3 * j
        PROVE  FALSE
    <3>1. step.op = "unlink_encoder" /\ step.item = j
      BY <1>1, <2>2, RemovalUnique
    <3> QED
      BY <1>3, <3>1 DEF Absent, InGroup, ConnectorsOf, PlanesOf
  <2> QED
    BY <1>1, <2>1, <2>2
<1>4. ASSUME <<j, j>> \in new.planeCrtcs
      PROVE  p + 1 <= 3 * j + 1
  <2>1. <<j, j>> \in old.planeCrtcs /\ p <= 3 * j + 1
    BY <1>1, <1>4 DEF Shrinks, NotRemoved
  <2>2. ASSUME p = 3 * j + 1
        PROVE  FALSE
    <3>1. step.op = "unlink_plane" /\ step.item = j
      BY <1>1, <2>2, RemovalUnique
    <3> QED
      BY <1>4, <3>1 DEF Absent, InGroup, ConnectorsOf, PlanesOf
  <2> QED
    BY <1>1, <2>1, <2>2
<1>5. ASSUME j \in DOMAIN new.status
      PROVE  p + 1 <= 3 * N + 4 * j - 1
  <2>1. j \in DOMAIN old.status /\ p <= 3 * N + 4 * j - 1
    BY <1>1, <1>5 DEF Shrinks, NotRemoved
  <2>2. ASSUME p = 3 * N + 4 * j - 1
        PROVE  FALSE
    <3>1. step.op = "remove_connector" /\ step.item = j
      BY <1>1, <2>2, RemovalUnique
    <3> QED
      BY <1>5, <3>1 DEF Absent, InGroup, ConnectorsOf, PlanesOf
  <2> QED
    BY <1>1, <2>1, <2>2
<1>6. ASSUME j \in new.encoders
      PROVE  p + 1 <= 3 * N + 4 * j
  <2>1. j \in old.encoders /\ p <= 3 * N + 4 * j
    BY <1>1, <1>6 DEF Shrinks, NotRemoved
  <2>2. ASSUME p = 3 * N + 4 * j
        PROVE  FALSE
    <3>1. step.op = "remove_encoder" /\ step.item = j
      BY <1>1, <2>2, RemovalUnique
    <3> QED
      BY <1>6, <3>1 DEF Absent, InGroup, ConnectorsOf, PlanesOf
  <2> QED
    BY <1>1, <2>1, <2>2
<1>7. ASSUME j \in DOMAIN new.types
      PROVE  p + 1 <= 3 * N + 4 * j + 1
  <2>1. j \in DOMAIN old.types /\ p <= 3 * N + 4 * j + 1
    BY <1>1, <1>7 DEF Shrinks, NotRemoved
  <2>2. ASSUME p = 3 * N + 4 * j + 1
        PROVE  FALSE
    <3>1. step.op = "remove_plane" /\ step.item = j
      BY <1>1, <2>2, RemovalUnique
    <3> QED
      BY <1>7, <3>1 DEF Absent, InGroup, ConnectorsOf, PlanesOf
  <2> QED
    BY <1>1, <2>1, <2>2
<1>8. ASSUME j \in new.crtcs
      PROVE  p + 1 <= 3 * N + 4 * j + 2
  <2>1. j \in old.crtcs /\ p <= 3 * N + 4 * j + 2
    BY <1>1, <1>8 DEF Shrinks, NotRemoved
  <2>2. ASSUME p = 3 * N + 4 * j + 2
        PROVE  FALSE
    <3>1. step.op = "remove_crtc" /\ step.item = j
      BY <1>1, <2>2, RemovalUnique
    <3> QED
      BY <1>8, <3>1 DEF Absent, InGroup, ConnectorsOf, PlanesOf
  <2> QED
    BY <1>1, <2>1, <2>2
<1> QED
  BY <1>1, <1>2, <1>3, <1>4, <1>5, <1>6, <1>7, <1>8 DEF NotRemoved

\* The links are those of an output to itself.
Orderly == Configured => Straight(device.config)

\* Nothing of a configuration is less than the configuration.
LEMMA ShrinksSame ==
  ASSUME NEW cfg
  PROVE  Shrinks(cfg, cfg)
BY DEF Shrinks

\* The links and items have their turn between the disabling and the removal of the device.
LEMMA GroupPlace ==
  ASSUME NEW step, step.op \in InGroup, NEW p \in Nat, AtRemoval(step, p), NEW N \in Nat, N = OutputCount
  PROVE  p >= 2 /\ p <= 7 * N + 2
<1>1. PICK i \in 1..N : i = step.item
  BY DEF AtRemoval, InGroup, Outputs
<1> QED
  BY <1>1 DEF AtRemoval, InGroup

\* A step of a removal that is done, or has nothing to do, brings the removal to the next one.
LEMMA RemovingAdvances ==
  ASSUME Inv, NEW p \in Nat, Removing(p), NEW step \in JobSteps, AtRemoval(step, p),
         \/ step.op # "give_up" /\ ~Absent(step) /\ Perform(step)
         \/ (step.op = "give_up" \/ Absent(step)) /\ UNCHANGED configfsVars
  PROVE  Removing(p + 1)'
<1>1. PICK N \in Nat : N = OutputCount /\ Outputs = 1..N
  BY PoolAssumption DEF Outputs
<1>2. PICK old, new : old = device.config /\ new = device'.config
  OBVIOUS
<1>3. ASSUME Configured, Configured', Shrinks(new, old), device'.enabled => device.enabled /\ p # 1,
             step.op \in InGroup => Absent(step)', p # 7 * N + 4
      PROVE  Removing(p + 1)'
  <2>1. ASSUME NEW j \in Outputs
        PROVE  NotRemoved(new, j, p + 1)
    <3>1. NotRemoved(old, j, p)
      BY <1>2, <1>3 DEF Removing
    <3> QED
      BY <1>2, <1>3, <3>1, NotRemovedAdvances
  <2>2. p <= 7 * N + 4 /\ (device.enabled => p <= 1)
    BY <1>1, <1>3 DEF Removing
  <2>3. p + 1 <= 7 * N + 4
    BY <1>1, <1>3, <2>2
  <2>4. device'.enabled => p + 1 <= 1
    <3>1. ASSUME device'.enabled
          PROVE  FALSE
      <4>1. p = 0
        BY <1>3, <2>2, <3>1
      <4> QED
        BY <1>1, <4>1 DEF AtRemoval
    <3> QED
      BY <3>1
  <2> QED
    BY <1>1, <1>2, <1>3, <2>1, <2>3, <2>4 DEF Removing
<1>4. CASE (step.op = "give_up" \/ Absent(step)) /\ UNCHANGED configfsVars /\ p # 7 * N + 5
  <2>1. device' = device
    BY <1>4 DEF configfsVars
  <2>2. p # 7 * N + 4 /\ p <= 7 * N + 4
    <3>1. CASE step.op = "give_up"
      BY <1>1, <1>4, <3>1 DEF AtRemoval
    <3>2. CASE step.op = "disable"
      BY <1>1, <1>4, <3>2 DEF AtRemoval
    <3>3. CASE step.op \in InGroup
      BY <1>1, <3>3, GroupPlace
    <3> QED
      BY <1>4, <3>1, <3>2, <3>3 DEF Absent, InGroup
  <2>3. Configured /\ Configured'
    BY <1>1, <2>1, <2>2 DEF Removing, Configured
  <2>4. Shrinks(new, old)
    BY <1>2, <2>1, ShrinksSame
  <2>5. step.op \in InGroup => Absent(step)'
    <3>1. step.op \in InGroup => Absent(step)
      BY <1>1, <1>4 DEF InGroup
    <3> QED
      BY <2>1, <3>1 DEF Absent
  <2>6. device'.enabled => device.enabled /\ p # 1
    <3>1. ASSUME p = 1, device'.enabled
          PROVE  FALSE
      <4>1. step.op = "disable"
        <5>1. step.op \notin InGroup
          BY <1>1, <3>1, GroupPlace
        <5> QED
          BY <1>1, <3>1, <5>1 DEF AtRemoval, InGroup
      <4> QED
        BY <1>4, <2>1, <3>1, <4>1 DEF Absent
    <3> QED
      BY <2>1, <3>1
  <2> QED
    BY <1>3, <2>2, <2>3, <2>4, <2>5, <2>6
<1>5. CASE step.op \in InGroup /\ Perform(step)
  <2>1. /\ Configured /\ Configured' /\ device'.enabled = device.enabled
        /\ Shrinks(new, old) /\ Absent(step)'
    BY <1>2, <1>5, Removes
  <2>2. p # 7 * N + 4 /\ p # 1
    BY <1>1, <1>5, GroupPlace
  <2> QED
    BY <1>3, <2>1, <2>2
<1>6. CASE step.op = "disable" /\ Perform(step)
  <2>1. StoreDisabled
    BY <1>6 DEF Perform
  <2>2. device \in Devices /\ Configured /\ device' = [device EXCEPT !.enabled = FALSE]
    BY <2>1 DEF Inv, StoreDisabled, MayDisable
  <2>3. device' \in Devices /\ device'.config = device.config /\ ~device'.enabled
    BY <2>2 DEF Devices
  <2>4. Configured' /\ Shrinks(new, old)
    BY <1>2, <2>3, ShrinksSame, NoDeviceAssumption DEF Configured
  <2>5. p # 7 * N + 4
    BY <1>1, <1>6 DEF AtRemoval
  <2> QED
    BY <1>3, <1>6, <2>2, <2>3, <2>4, <2>5 DEF InGroup
<1>7. CASE step.op = "remove_device" /\ Perform(step)
  <2>1. ~Configured'
    BY <1>7 DEF Perform, ReleaseDevice, MayReleaseDevice, Configured
  <2>2. p + 1 > 7 * N + 4
    BY <1>1, <1>7 DEF AtRemoval
  <2> QED
    BY <1>1, <2>1, <2>2 DEF Removing
<1>8. CASE p = 7 * N + 5 /\ UNCHANGED configfsVars
  <2>1. ~Configured'
    BY <1>1, <1>8 DEF Removing, configfsVars, Configured
  <2>2. p + 1 > 7 * N + 4
    BY <1>1, <1>8
  <2> QED
    BY <1>1, <2>1, <2>2 DEF Removing
<1>9. step.op = "clear_leases" /\ Perform(step) => UNCHANGED configfsVars
  BY DEF Perform
<1>10. step.op \in InGroup \cup {"disable", "remove_device", "clear_leases", "give_up"}
  BY DEF AtRemoval, InGroup
<1>11. step.op = "clear_leases" => p = 7 * N + 5
  BY <1>1 DEF AtRemoval
<1> QED
  BY <1>4, <1>5, <1>6, <1>7, <1>8, <1>9, <1>10, <1>11

\* Straight links from an item, or to it, are its own.
LEMMA StraightLinks ==
  ASSUME NEW links, links \subseteq Outputs \X Outputs, NEW i \in Outputs, <<i, i>> \notin links,
         \A a \in Outputs, b \in Outputs : <<a, b>> \in links => a = b
  PROVE  NoLinkFrom(links, i) /\ NoLinkTo(links, i)
BY DEF NoLinkFrom, NoLinkTo, NotFrom, NotTo

\* The kernel grants every step of a removal at its place.
LEMMA RemovalGranted ==
  ASSUME Inv, Orderly, NEW p \in Nat, Removing(p), NEW step \in JobSteps, AtRemoval(step, p),
         step.op # "give_up", ~Absent(step)
  PROVE  Granted(step)
<1>1. PICK N \in Nat : N = OutputCount /\ Outputs = 1..N
  BY PoolAssumption DEF Outputs
<1>2. PICK cfg, i : cfg = device.config /\ i = step.item
  OBVIOUS
<1>3. CASE step.op = "clear_leases"
  BY <1>3 DEF Granted
<1>4. ASSUME step.op # "clear_leases"
      PROVE  p <= 7 * N + 4 /\ Configured /\ Sound(cfg) /\ Straight(cfg)
  <2>1. p <= 7 * N + 4
    BY <1>1, <1>4 DEF AtRemoval
  <2>2. Configured
    BY <1>1, <2>1 DEF Removing
  <2> QED
    BY <1>2, <2>1, <2>2 DEF Inv, Orderly
<1>5. CASE step.op \in {"disable", "unlink_connector", "unlink_encoder", "unlink_plane"}
  BY <1>4, <1>5 DEF Granted, Absent, MayDisable, MayUnlinkConnector, MayUnlinkEncoder, MayUnlinkPlane
<1>6. ASSUME step.op \in {"remove_connector", "remove_encoder", "remove_plane", "remove_crtc"}
      PROVE  /\ NoLinkFrom(cfg.connectorEncoders, i) /\ NoLinkTo(cfg.connectorEncoders, i)
             /\ NoLinkFrom(cfg.encoderCrtcs, i) /\ NoLinkTo(cfg.encoderCrtcs, i)
             /\ NoLinkFrom(cfg.planeCrtcs, i) /\ NoLinkTo(cfg.planeCrtcs, i)
  <2>1. i \in Outputs /\ i \in 1..N /\ p >= 3 * N + 4 * i - 1
    BY <1>1, <1>2, <1>6 DEF AtRemoval
  <2>2. /\ cfg.connectorEncoders \subseteq Outputs \X Outputs
        /\ cfg.encoderCrtcs \subseteq Outputs \X Outputs
        /\ cfg.planeCrtcs \subseteq Outputs \X Outputs
    BY <1>4, <1>6, PoolAssumption DEF Sound, Configs
  <2>3. NotRemoved(cfg, i, p)
    BY <1>2, <1>4, <1>6, <2>1 DEF Removing
  <2>4. ~(p <= 3 * i - 1) /\ ~(p <= 3 * i) /\ ~(p <= 3 * i + 1)
    BY <1>1, <2>1
  <2>5. /\ <<i, i>> \notin cfg.connectorEncoders /\ <<i, i>> \notin cfg.encoderCrtcs
        /\ <<i, i>> \notin cfg.planeCrtcs
    BY <2>3, <2>4 DEF NotRemoved
  <2>6. \A a \in Outputs, b \in Outputs :
            /\ <<a, b>> \in cfg.connectorEncoders => a = b
            /\ <<a, b>> \in cfg.encoderCrtcs => a = b
            /\ <<a, b>> \in cfg.planeCrtcs => a = b
    BY <1>4, <1>6 DEF Straight
  <2> QED
    BY <2>1, <2>2, <2>5, <2>6, StraightLinks
<1>7. CASE step.op \in {"remove_connector", "remove_encoder", "remove_plane", "remove_crtc"}
  BY <1>2, <1>4, <1>6, <1>7
  DEF Granted, Absent, MayReleaseConnector, MayReleaseEncoder, MayReleasePlane, MayReleaseCrtc
<1>8. CASE step.op = "remove_device"
  <2>1. p = 7 * N + 4
    BY <1>1, <1>8 DEF AtRemoval
  <2>2. ASSUME NEW j \in Outputs
        PROVE  j \notin DOMAIN cfg.status /\ j \notin cfg.encoders /\ j \notin DOMAIN cfg.types /\ j \notin cfg.crtcs
    <3>1. NotRemoved(cfg, j, p) /\ j \in 1..N
      BY <1>1, <1>2, <1>4, <1>8 DEF Removing
    <3> QED
      BY <1>1, <2>1, <3>1 DEF NotRemoved
  <2>3. DOMAIN cfg.status \subseteq Outputs /\ cfg.encoders \subseteq Outputs
        /\ DOMAIN cfg.types \subseteq Outputs /\ cfg.crtcs \subseteq Outputs
    BY <1>4, <1>8, PoolAssumption, PartialFacts DEF Sound, Configs
  <2>4. ItemsOf(cfg) = {}
    BY <2>2, <2>3 DEF ItemsOf, PlanesOf, ConnectorsOf
  <2> QED
    BY <1>2, <1>4, <1>8, <2>4 DEF Granted, MayReleaseDevice
<1>9. step.op \in {"clear_leases", "disable", "unlink_connector", "unlink_encoder", "unlink_plane",
                  "remove_connector", "remove_encoder", "remove_plane", "remove_crtc", "remove_device"}
  BY DEF AtRemoval
<1> QED
  BY <1>3, <1>5, <1>7, <1>8, <1>9

-----------------------------------------------------------------------------
(* What the steps of a build do.                                           *)

\* What a step of a build on one output makes of a configuration.
Added(step, new, old) ==
    LET i == step.item IN
    \/ /\ step.op = "make_plane" /\ Only(new, old, "types")
       /\ DOMAIN new.types = DOMAIN old.types \cup {i}
       /\ \A j \in DOMAIN old.types : j # i => new.types[j] = old.types[j]
    \/ /\ step.op = "set_primary" /\ Only(new, old, "types")
       /\ DOMAIN new.types = DOMAIN old.types
       /\ \A j \in DOMAIN old.types : new.types[j] = IF j = i THEN "primary" ELSE old.types[j]
    \/ step.op = "make_crtc" /\ Only(new, old, "crtcs") /\ new.crtcs = old.crtcs \cup {i}
    \/ step.op = "make_encoder" /\ Only(new, old, "encoders") /\ new.encoders = old.encoders \cup {i}
    \/ /\ step.op = "make_connector" /\ Only(new, old, "status")
       /\ DOMAIN new.status = DOMAIN old.status \cup {i}
       /\ \A j \in DOMAIN new.status : new.status[j] = IF j = i THEN "disconnected" ELSE old.status[j]
    \/ /\ step.op = "set_disconnected" /\ Only(new, old, "status")
       /\ DOMAIN new.status = DOMAIN old.status
       /\ \A j \in DOMAIN new.status : new.status[j] = IF j = i THEN "disconnected" ELSE old.status[j]
    \/ /\ step.op = "link_plane" /\ Only(new, old, "planeCrtcs")
       /\ new.planeCrtcs = old.planeCrtcs \cup {<<i, i>>}
    \/ /\ step.op = "link_encoder" /\ Only(new, old, "encoderCrtcs")
       /\ new.encoderCrtcs = old.encoderCrtcs \cup {<<i, i>>}
    \/ /\ step.op = "link_connector" /\ Only(new, old, "connectorEncoders")
       /\ new.connectorEncoders = old.connectorEncoders \cup {<<i, i>>}

\* A configuration with one thing more, or another type of a plane.
LEMMA AddedFacts ==
  ASSUME NEW old, Sound(old), NEW step \in JobSteps, NEW i \in Outputs, i = step.item, NEW new,
         \/ step.op = "make_plane" /\ new = CreatePlane(old, i)
         \/ step.op = "make_crtc" /\ new = CreateCrtc(old, i)
         \/ step.op = "make_encoder" /\ new = CreateEncoder(old, i)
         \/ step.op = "make_connector" /\ new = CreateConnector(old, i)
         \/ step.op = "set_primary" /\ i \in DOMAIN old.types /\ new = [old EXCEPT !.types[i] = "primary"]
         \/ step.op = "link_plane" /\ i \in DOMAIN old.types /\ i \in old.crtcs /\ new = AttachPlane(old, i, i)
         \/ step.op = "link_encoder" /\ i \in old.encoders /\ i \in old.crtcs /\ new = AttachEncoder(old, i, i)
         \/ step.op = "link_connector" /\ i \in DOMAIN old.status /\ i \in old.encoders /\ new = AttachConnector(old, i, i)
  PROVE  new \in Configs /\ Added(step, new, old)
<1>1. i \in Planes /\ i \in Crtcs /\ i \in Encoders /\ i \in Connectors
  BY PoolAssumption
<1>2. CASE step.op = "make_plane" /\ new = CreatePlane(old, i)
  <2>1. new \in Configs
    BY <1>1, <1>2, PlaneCreated DEF Sound
  <2>2. PICK f : f = Put(old.types, i, "overlay")
    OBVIOUS
  <2>3. new = [old EXCEPT !.types = f]
    BY <1>2, <2>2 DEF CreatePlane
  <2>4. Only(new, old, "types") /\ new.types = f
    BY <2>3 DEF Sound, Configs, Only
  <2>5. DOMAIN f = DOMAIN old.types \cup {i} /\ \A j \in DOMAIN old.types : j # i => f[j] = old.types[j]
    BY <2>2 DEF Put
  <2> QED
    BY <1>2, <2>1, <2>4, <2>5 DEF Added
<1>3. CASE step.op = "make_crtc" /\ new = CreateCrtc(old, i)
  <2>1. new \in Configs
    BY <1>1, <1>3, CrtcCreated DEF Sound
  <2>2. PICK f : f = old.crtcs \cup {i}
    OBVIOUS
  <2>3. new = [old EXCEPT !.crtcs = f]
    BY <1>3, <2>2 DEF CreateCrtc
  <2>4. Only(new, old, "crtcs") /\ new.crtcs = f
    BY <2>3 DEF Sound, Configs, Only
  <2> QED
    BY <1>3, <2>1, <2>2, <2>4 DEF Added
<1>4. CASE step.op = "make_encoder" /\ new = CreateEncoder(old, i)
  <2>1. new \in Configs
    BY <1>1, <1>4, EncoderCreated DEF Sound
  <2>2. PICK f : f = old.encoders \cup {i}
    OBVIOUS
  <2>3. new = [old EXCEPT !.encoders = f]
    BY <1>4, <2>2 DEF CreateEncoder
  <2>4. Only(new, old, "encoders") /\ new.encoders = f
    BY <2>3 DEF Sound, Configs, Only
  <2> QED
    BY <1>4, <2>1, <2>2, <2>4 DEF Added
<1>5. CASE step.op = "make_connector" /\ new = CreateConnector(old, i)
  <2>1. new \in Configs
    BY <1>1, <1>5, ConnectorCreated DEF Sound
  <2>2. PICK f, g : f = Put(old.status, i, "disconnected") /\ g = Put(old.modes, i, NoMode)
    OBVIOUS
  <2>3. new = [old EXCEPT !.status = f, !.modes = g]
    BY <1>5, <2>2 DEF CreateConnector
  <2>4. Only(new, old, "status") /\ new.status = f
    BY <2>3 DEF Sound, Configs, Only
  <2>5. /\ DOMAIN f = DOMAIN old.status \cup {i}
        /\ \A j \in DOMAIN f : f[j] = IF j = i THEN "disconnected" ELSE old.status[j]
    BY <2>2 DEF Put
  <2> QED
    BY <1>5, <2>1, <2>4, <2>5 DEF Added
<1>6. CASE step.op = "set_primary" /\ i \in DOMAIN old.types /\ new = [old EXCEPT !.types[i] = "primary"]
  <2>1. "primary" \in PlaneTypes
    BY DEF PlaneTypes
  <2>2. /\ Sound(new)
        /\ new.crtcs = old.crtcs /\ new.encoders = old.encoders /\ new.status = old.status
        /\ new.planeCrtcs = old.planeCrtcs /\ new.encoderCrtcs = old.encoderCrtcs
        /\ new.connectorEncoders = old.connectorEncoders
        /\ DOMAIN new.types = DOMAIN old.types
        /\ \A y \in DOMAIN old.types : new.types[y] = IF y = i THEN "primary" ELSE old.types[y]
    BY <1>6, <2>1, TypeStored
  <2>3. Only(new, old, "types")
    BY <2>2 DEF Only
  <2> QED
    BY <1>6, <2>2, <2>3 DEF Added, Sound
<1>7. CASE step.op = "link_plane" /\ i \in DOMAIN old.types /\ i \in old.crtcs /\ new = AttachPlane(old, i, i)
  <2>1. new \in Configs
    BY <1>1, <1>7, PlaneAttached DEF Sound
  <2>2. PICK f : f = old.planeCrtcs \cup {<<i, i>>}
    OBVIOUS
  <2>3. new = [old EXCEPT !.planeCrtcs = f]
    BY <1>7, <2>2 DEF AttachPlane
  <2>4. Only(new, old, "planeCrtcs") /\ new.planeCrtcs = f
    BY <2>3 DEF Sound, Configs, Only
  <2> QED
    BY <1>7, <2>1, <2>2, <2>4 DEF Added
<1>8. CASE step.op = "link_encoder" /\ i \in old.encoders /\ i \in old.crtcs /\ new = AttachEncoder(old, i, i)
  <2>1. new \in Configs
    BY <1>1, <1>8, EncoderAttached DEF Sound
  <2>2. PICK f : f = old.encoderCrtcs \cup {<<i, i>>}
    OBVIOUS
  <2>3. new = [old EXCEPT !.encoderCrtcs = f]
    BY <1>8, <2>2 DEF AttachEncoder
  <2>4. Only(new, old, "encoderCrtcs") /\ new.encoderCrtcs = f
    BY <2>3 DEF Sound, Configs, Only
  <2> QED
    BY <1>8, <2>1, <2>2, <2>4 DEF Added
<1>9. CASE /\ step.op = "link_connector"
           /\ i \in DOMAIN old.status /\ i \in old.encoders
           /\ new = AttachConnector(old, i, i)
  <2>1. new \in Configs
    BY <1>1, <1>9, ConnectorAttached DEF Sound
  <2>2. PICK f : f = old.connectorEncoders \cup {<<i, i>>}
    OBVIOUS
  <2>3. new = [old EXCEPT !.connectorEncoders = f]
    BY <1>9, <2>2 DEF AttachConnector
  <2>4. Only(new, old, "connectorEncoders") /\ new.connectorEncoders = f
    BY <2>3 DEF Sound, Configs, Only
  <2> QED
    BY <1>9, <2>1, <2>2, <2>4 DEF Added
<1> QED
  BY <1>2, <1>3, <1>4, <1>5, <1>6, <1>7, <1>8, <1>9

\* What a step of a build on one output leaves.
LEMMA Adds ==
  ASSUME Inv, NEW step \in JobSteps, step.op \in ItemOps, Perform(step)
  PROVE  /\ Configured /\ Configured' /\ device'.enabled = device.enabled
         /\ Added(step, device'.config, device.config)
<1>1. PICK old, i : old = device.config /\ i = step.item
  OBVIOUS
<1>2. i \in Outputs
  BY <1>1 DEF JobSteps
<1>3. Configured
  BY DEF Perform, ItemOps, MakePlane, MayMakePlane, MakeCrtc, MayMakeCrtc, MakeEncoder,
         MayMakeEncoder, MakeConnector, MayMakeConnector, StoreType, MayStoreType, StoreStatus,
         MayStoreStatus, LinkPlane, MayLinkPlane, LinkEncoder, MayLinkEncoder, LinkConnector,
         MayLinkConnector, Open
<1>4. Sound(old)
  BY <1>1, <1>3 DEF Inv
<1>5. CASE step.op = "make_plane"
  <2>1. PICK new : new = CreatePlane(old, i)
    OBVIOUS
  <2>2. MakePlane(i)
    BY <1>1, <1>5 DEF Perform
  <2>3. Becomes(new) /\ step.op = "make_plane"
    BY <1>1, <1>5, <2>1, <2>2 DEF MakePlane, MayMakePlane, PlanesOf, ConnectorsOf
  <2>4. new \in Configs /\ Added(step, new, old)
    BY <1>1, <1>2, <1>4, <2>1, <2>3, AddedFacts
  <2>5. Configured' /\ device'.config = new /\ device'.enabled = device.enabled
    BY <1>3, <2>3, <2>4, ConfigWritten
  <2> QED
    BY <1>1, <1>3, <2>4, <2>5
<1>6. CASE step.op = "make_crtc"
  <2>1. PICK new : new = CreateCrtc(old, i)
    OBVIOUS
  <2>2. MakeCrtc(i)
    BY <1>1, <1>6 DEF Perform
  <2>3. Becomes(new) /\ step.op = "make_crtc"
    BY <1>1, <1>6, <2>1, <2>2 DEF MakeCrtc, MayMakeCrtc, PlanesOf, ConnectorsOf
  <2>4. new \in Configs /\ Added(step, new, old)
    BY <1>1, <1>2, <1>4, <2>1, <2>3, AddedFacts
  <2>5. Configured' /\ device'.config = new /\ device'.enabled = device.enabled
    BY <1>3, <2>3, <2>4, ConfigWritten
  <2> QED
    BY <1>1, <1>3, <2>4, <2>5
<1>7. CASE step.op = "make_encoder"
  <2>1. PICK new : new = CreateEncoder(old, i)
    OBVIOUS
  <2>2. MakeEncoder(i)
    BY <1>1, <1>7 DEF Perform
  <2>3. Becomes(new) /\ step.op = "make_encoder"
    BY <1>1, <1>7, <2>1, <2>2 DEF MakeEncoder, MayMakeEncoder, PlanesOf, ConnectorsOf
  <2>4. new \in Configs /\ Added(step, new, old)
    BY <1>1, <1>2, <1>4, <2>1, <2>3, AddedFacts
  <2>5. Configured' /\ device'.config = new /\ device'.enabled = device.enabled
    BY <1>3, <2>3, <2>4, ConfigWritten
  <2> QED
    BY <1>1, <1>3, <2>4, <2>5
<1>8. CASE step.op = "make_connector"
  <2>1. PICK new : new = CreateConnector(old, i)
    OBVIOUS
  <2>2. MakeConnector(i)
    BY <1>1, <1>8 DEF Perform
  <2>3. Becomes(new) /\ step.op = "make_connector"
    BY <1>1, <1>8, <2>1, <2>2 DEF MakeConnector, MayMakeConnector, PlanesOf, ConnectorsOf
  <2>4. new \in Configs /\ Added(step, new, old)
    BY <1>1, <1>2, <1>4, <2>1, <2>3, AddedFacts
  <2>5. Configured' /\ device'.config = new /\ device'.enabled = device.enabled
    BY <1>3, <2>3, <2>4, ConfigWritten
  <2> QED
    BY <1>1, <1>3, <2>4, <2>5
<1>9. CASE step.op = "set_primary"
  <2>1. PICK new : new = [old EXCEPT !.types[i] = "primary"]
    OBVIOUS
  <2>2. StoreType(i, "primary")
    BY <1>1, <1>9 DEF Perform
  <2>3. Becomes(new) /\ step.op = "set_primary" /\ i \in DOMAIN old.types
    BY <1>1, <1>9, <2>1, <2>2 DEF StoreType, MayStoreType, PlanesOf, ConnectorsOf
  <2>4. new \in Configs /\ Added(step, new, old)
    BY <1>1, <1>2, <1>4, <2>1, <2>3, AddedFacts
  <2>5. Configured' /\ device'.config = new /\ device'.enabled = device.enabled
    BY <1>3, <2>3, <2>4, ConfigWritten
  <2> QED
    BY <1>1, <1>3, <2>4, <2>5
<1>10. CASE step.op = "link_plane"
  <2>1. PICK new : new = AttachPlane(old, i, i)
    OBVIOUS
  <2>2. LinkPlane(i, i)
    BY <1>1, <1>10 DEF Perform
  <2>3. Becomes(new) /\ step.op = "link_plane" /\ i \in DOMAIN old.types /\ i \in old.crtcs
    BY <1>1, <1>10, <2>1, <2>2 DEF LinkPlane, MayLinkPlane, PlanesOf, ConnectorsOf
  <2>4. new \in Configs /\ Added(step, new, old)
    BY <1>1, <1>2, <1>4, <2>1, <2>3, AddedFacts
  <2>5. Configured' /\ device'.config = new /\ device'.enabled = device.enabled
    BY <1>3, <2>3, <2>4, ConfigWritten
  <2> QED
    BY <1>1, <1>3, <2>4, <2>5
<1>11. CASE step.op = "link_encoder"
  <2>1. PICK new : new = AttachEncoder(old, i, i)
    OBVIOUS
  <2>2. LinkEncoder(i, i)
    BY <1>1, <1>11 DEF Perform
  <2>3. Becomes(new) /\ step.op = "link_encoder" /\ i \in old.encoders /\ i \in old.crtcs
    BY <1>1, <1>11, <2>1, <2>2 DEF LinkEncoder, MayLinkEncoder, PlanesOf, ConnectorsOf
  <2>4. new \in Configs /\ Added(step, new, old)
    BY <1>1, <1>2, <1>4, <2>1, <2>3, AddedFacts
  <2>5. Configured' /\ device'.config = new /\ device'.enabled = device.enabled
    BY <1>3, <2>3, <2>4, ConfigWritten
  <2> QED
    BY <1>1, <1>3, <2>4, <2>5
<1>12. CASE step.op = "link_connector"
  <2>1. PICK new : new = AttachConnector(old, i, i)
    OBVIOUS
  <2>2. LinkConnector(i, i)
    BY <1>1, <1>12 DEF Perform
  <2>3. Becomes(new) /\ step.op = "link_connector" /\ i \in DOMAIN old.status /\ i \in old.encoders
    BY <1>1, <1>12, <2>1, <2>2 DEF LinkConnector, MayLinkConnector, PlanesOf, ConnectorsOf
  <2>4. new \in Configs /\ Added(step, new, old)
    BY <1>1, <1>2, <1>4, <2>1, <2>3, AddedFacts
  <2>5. Configured' /\ device'.config = new /\ device'.enabled = device.enabled
    BY <1>3, <2>3, <2>4, ConfigWritten
  <2> QED
    BY <1>1, <1>3, <2>4, <2>5
<1>13. CASE step.op = "set_disconnected"
  <2>1. StoreStatus(i, "disconnected") /\ "disconnected" \in Statuses
    BY <1>1, <1>13 DEF Perform, Statuses
  <2>2. PICK new : new = [old EXCEPT !.status[i] = "disconnected"]
    OBVIOUS
  <2>3. i \in DOMAIN old.status /\ device' = [device EXCEPT !.config = new]
    BY <1>1, <2>1, <2>2 DEF StoreStatus, MayStoreStatus, ConnectorsOf
  <2>4. /\ Sound(new) /\ DOMAIN new.status = DOMAIN old.status
        /\ new.types = old.types /\ new.crtcs = old.crtcs /\ new.encoders = old.encoders
        /\ new.planeCrtcs = old.planeCrtcs /\ new.encoderCrtcs = old.encoderCrtcs
        /\ new.connectorEncoders = old.connectorEncoders
        /\ \A y \in DOMAIN old.status : new.status[y] = IF y = i THEN "disconnected" ELSE old.status[y]
    BY <1>4, <2>1, <2>2, <2>3, StatusStored
  <2>5. Only(new, old, "status") /\ Added(step, new, old)
    BY <1>1, <1>13, <2>4 DEF Only, Added
  <2>6. device'.config = new
    BY <1>3, <2>3 DEF Inv, Devices
  <2>7. Configured' /\ device'.enabled = device.enabled
    BY <1>2, <2>1, StatusWritten
  <2> QED
    BY <1>1, <1>3, <2>3, <2>5, <2>6, <2>7
<1> QED
  BY <1>5, <1>6, <1>7, <1>8, <1>9, <1>10, <1>11, <1>12, <1>13, Zenon DEF ItemOps

-----------------------------------------------------------------------------
(* How far a build is.                                                     *)

\* What there is of output j when a build comes to its p-th step has had its turn, and only that.
Made(cfg, j, p) ==
    LET N == OutputCount IN
    /\ j \in DOMAIN cfg.types <=> p > 2 * j
    /\ p > 2 * j + 1 => cfg.types[j] = "primary"
    /\ j \in cfg.crtcs <=> p > 2 * N + j + 1
    /\ j \in cfg.encoders <=> p > 3 * N + j + 1
    /\ j \in DOMAIN cfg.status <=> p > 4 * N + 2 * j
    /\ j \in DOMAIN cfg.status => cfg.status[j] = "disconnected"
    /\ <<j, j>> \in cfg.planeCrtcs <=> p > 6 * N + 3 * j - 1
    /\ <<j, j>> \in cfg.encoderCrtcs <=> p > 6 * N + 3 * j
    /\ <<j, j>> \in cfg.connectorEncoders <=> p > 6 * N + 3 * j + 1

Making(p) ==
    /\ Configured <=> p > 1
    /\ Configured =>
        /\ p <= 9 * OutputCount + 3 => ~device.enabled
        /\ \A j \in Outputs : Made(device.config, j, p)

\* The place is that of one step only, and the step has no other.
LEMMA BuildUnique ==
  ASSUME NEW step, NEW p \in Nat, AtBuild(step, p), NEW j \in Outputs,
         NEW N \in Nat, N = OutputCount
  PROVE  /\ p = 2 * j <=> step.op = "make_plane" /\ step.item = j
         /\ p = 2 * j + 1 <=> step.op = "set_primary" /\ step.item = j
         /\ p = 2 * N + j + 1 <=> step.op = "make_crtc" /\ step.item = j
         /\ p = 3 * N + j + 1 <=> step.op = "make_encoder" /\ step.item = j
         /\ p = 4 * N + 2 * j <=> step.op = "make_connector" /\ step.item = j
         /\ p = 4 * N + 2 * j + 1 <=> step.op = "set_disconnected" /\ step.item = j
         /\ p = 6 * N + 3 * j - 1 <=> step.op = "link_plane" /\ step.item = j
         /\ p = 6 * N + 3 * j <=> step.op = "link_encoder" /\ step.item = j
         /\ p = 6 * N + 3 * j + 1 <=> step.op = "link_connector" /\ step.item = j
<1> DEFINE IsOf(i) ==
          /\ step.item = i
          /\ \/ step.op = "make_plane" /\ p = 2 * i
             \/ step.op = "set_primary" /\ p = 2 * i + 1
             \/ step.op = "make_crtc" /\ p = 2 * N + i + 1
             \/ step.op = "make_encoder" /\ p = 3 * N + i + 1
             \/ step.op = "make_connector" /\ p = 4 * N + 2 * i
             \/ step.op = "set_disconnected" /\ p = 4 * N + 2 * i + 1
             \/ step.op = "link_plane" /\ p = 6 * N + 3 * i - 1
             \/ step.op = "link_encoder" /\ p = 6 * N + 3 * i
             \/ step.op = "link_connector" /\ p = 6 * N + 3 * i + 1
<1>1. j \in 1..N /\ Outputs = 1..N
  BY DEF Outputs
<1>11. \/ p \in {1, 9 * N + 2, 9 * N + 3} /\ step.op \in {"make_device", "validate", "enable"}
      \/ \E i \in 1..N : IsOf(i)
  BY <1>1 DEF AtBuild
<1>2. p = 2 * j <=> step.op = "make_plane" /\ step.item = j
  <2>1. ASSUME p = 2 * j
        PROVE  step.op = "make_plane" /\ step.item = j
    <3>1. PICK i \in 1..N : IsOf(i)
      BY <1>1, <1>11, <2>1
    <3> QED
      BY <1>1, <2>1, <3>1
  <2>2. ASSUME step.op = "make_plane" /\ step.item = j
        PROVE  p = 2 * j
    BY <1>11, <2>2
  <2> QED
    BY <2>1, <2>2
<1>3. p = 2 * j + 1 <=> step.op = "set_primary" /\ step.item = j
  <2>1. ASSUME p = 2 * j + 1
        PROVE  step.op = "set_primary" /\ step.item = j
    <3>1. PICK i \in 1..N : IsOf(i)
      BY <1>1, <1>11, <2>1
    <3> QED
      BY <1>1, <2>1, <3>1
  <2>2. ASSUME step.op = "set_primary" /\ step.item = j
        PROVE  p = 2 * j + 1
    BY <1>11, <2>2
  <2> QED
    BY <2>1, <2>2
<1>4. p = 2 * N + j + 1 <=> step.op = "make_crtc" /\ step.item = j
  <2>1. ASSUME p = 2 * N + j + 1
        PROVE  step.op = "make_crtc" /\ step.item = j
    <3>1. PICK i \in 1..N : IsOf(i)
      BY <1>1, <1>11, <2>1
    <3> QED
      BY <1>1, <2>1, <3>1
  <2>2. ASSUME step.op = "make_crtc" /\ step.item = j
        PROVE  p = 2 * N + j + 1
    BY <1>11, <2>2
  <2> QED
    BY <2>1, <2>2
<1>5. p = 3 * N + j + 1 <=> step.op = "make_encoder" /\ step.item = j
  <2>1. ASSUME p = 3 * N + j + 1
        PROVE  step.op = "make_encoder" /\ step.item = j
    <3>1. PICK i \in 1..N : IsOf(i)
      BY <1>1, <1>11, <2>1
    <3> QED
      BY <1>1, <2>1, <3>1
  <2>2. ASSUME step.op = "make_encoder" /\ step.item = j
        PROVE  p = 3 * N + j + 1
    BY <1>11, <2>2
  <2> QED
    BY <2>1, <2>2
<1>6. p = 4 * N + 2 * j <=> step.op = "make_connector" /\ step.item = j
  <2>1. ASSUME p = 4 * N + 2 * j
        PROVE  step.op = "make_connector" /\ step.item = j
    <3>1. PICK i \in 1..N : IsOf(i)
      BY <1>1, <1>11, <2>1
    <3> QED
      BY <1>1, <2>1, <3>1
  <2>2. ASSUME step.op = "make_connector" /\ step.item = j
        PROVE  p = 4 * N + 2 * j
    BY <1>11, <2>2
  <2> QED
    BY <2>1, <2>2
<1>7. p = 4 * N + 2 * j + 1 <=> step.op = "set_disconnected" /\ step.item = j
  <2>1. ASSUME p = 4 * N + 2 * j + 1
        PROVE  step.op = "set_disconnected" /\ step.item = j
    <3>1. PICK i \in 1..N : IsOf(i)
      BY <1>1, <1>11, <2>1
    <3> QED
      BY <1>1, <2>1, <3>1
  <2>2. ASSUME step.op = "set_disconnected" /\ step.item = j
        PROVE  p = 4 * N + 2 * j + 1
    BY <1>11, <2>2
  <2> QED
    BY <2>1, <2>2
<1>8. p = 6 * N + 3 * j - 1 <=> step.op = "link_plane" /\ step.item = j
  <2>1. ASSUME p = 6 * N + 3 * j - 1
        PROVE  step.op = "link_plane" /\ step.item = j
    <3>1. PICK i \in 1..N : IsOf(i)
      BY <1>1, <1>11, <2>1
    <3> QED
      BY <1>1, <2>1, <3>1
  <2>2. ASSUME step.op = "link_plane" /\ step.item = j
        PROVE  p = 6 * N + 3 * j - 1
    BY <1>11, <2>2
  <2> QED
    BY <2>1, <2>2
<1>9. p = 6 * N + 3 * j <=> step.op = "link_encoder" /\ step.item = j
  <2>1. ASSUME p = 6 * N + 3 * j
        PROVE  step.op = "link_encoder" /\ step.item = j
    <3>1. PICK i \in 1..N : IsOf(i)
      BY <1>1, <1>11, <2>1
    <3> QED
      BY <1>1, <2>1, <3>1
  <2>2. ASSUME step.op = "link_encoder" /\ step.item = j
        PROVE  p = 6 * N + 3 * j
    BY <1>11, <2>2
  <2> QED
    BY <2>1, <2>2
<1>10. p = 6 * N + 3 * j + 1 <=> step.op = "link_connector" /\ step.item = j
  <2>1. ASSUME p = 6 * N + 3 * j + 1
        PROVE  step.op = "link_connector" /\ step.item = j
    <3>1. PICK i \in 1..N : IsOf(i)
      BY <1>1, <1>11, <2>1
    <3> QED
      BY <1>1, <2>1, <3>1
  <2>2. ASSUME step.op = "link_connector" /\ step.item = j
        PROVE  p = 6 * N + 3 * j + 1
    BY <1>11, <2>2
  <2> QED
    BY <2>1, <2>2
<1> QED
  BY <1>2, <1>3, <1>4, <1>5, <1>6, <1>7, <1>8, <1>9, <1>10

\* After a step of a build what it is for has had its turn.
LEMMA MadeAdvances ==
  ASSUME NEW step, NEW p \in Nat, AtBuild(step, p), NEW j \in Outputs,
         NEW old, Made(old, j, p), NEW new, Added(step, new, old)
  PROVE  Made(new, j, p + 1)
<1>1. PICK N \in Nat : N = OutputCount /\ Outputs = 1..N /\ j \in 1..N
  BY PoolAssumption DEF Outputs
<1>2. /\ p = 2 * j <=> step.op = "make_plane" /\ step.item = j
      /\ p = 2 * j + 1 <=> step.op = "set_primary" /\ step.item = j
      /\ p = 2 * N + j + 1 <=> step.op = "make_crtc" /\ step.item = j
      /\ p = 3 * N + j + 1 <=> step.op = "make_encoder" /\ step.item = j
      /\ p = 4 * N + 2 * j <=> step.op = "make_connector" /\ step.item = j
      /\ p = 4 * N + 2 * j + 1 <=> step.op = "set_disconnected" /\ step.item = j
      /\ p = 6 * N + 3 * j - 1 <=> step.op = "link_plane" /\ step.item = j
      /\ p = 6 * N + 3 * j <=> step.op = "link_encoder" /\ step.item = j
      /\ p = 6 * N + 3 * j + 1 <=> step.op = "link_connector" /\ step.item = j
  BY <1>1, BuildUnique
<1>3. j \in DOMAIN new.types <=> p + 1 > 2 * j
  <2>1. j \in DOMAIN new.types <=> j \in DOMAIN old.types \/ p = 2 * j
    BY <1>2 DEF Added, Only
  <2>2. j \in DOMAIN old.types <=> p > 2 * j
    BY <1>1 DEF Made
  <2>3. p + 1 > 2 * j <=> p > 2 * j \/ p = 2 * j
    BY <1>1
  <2> QED
    BY <2>1, <2>2, <2>3, Zenon
<1>4. j \in new.crtcs <=> p + 1 > 2 * N + j + 1
  <2>1. j \in new.crtcs <=> j \in old.crtcs \/ p = 2 * N + j + 1
    BY <1>2 DEF Added, Only
  <2>2. j \in old.crtcs <=> p > 2 * N + j + 1
    BY <1>1 DEF Made
  <2>3. p + 1 > 2 * N + j + 1 <=> p > 2 * N + j + 1 \/ p = 2 * N + j + 1
    BY <1>1
  <2> QED
    BY <2>1, <2>2, <2>3, Zenon
<1>5. j \in new.encoders <=> p + 1 > 3 * N + j + 1
  <2>1. j \in new.encoders <=> j \in old.encoders \/ p = 3 * N + j + 1
    BY <1>2 DEF Added, Only
  <2>2. j \in old.encoders <=> p > 3 * N + j + 1
    BY <1>1 DEF Made
  <2>3. p + 1 > 3 * N + j + 1 <=> p > 3 * N + j + 1 \/ p = 3 * N + j + 1
    BY <1>1
  <2> QED
    BY <2>1, <2>2, <2>3, Zenon
<1>6. j \in DOMAIN new.status <=> p + 1 > 4 * N + 2 * j
  <2>1. j \in DOMAIN new.status <=> j \in DOMAIN old.status \/ p = 4 * N + 2 * j
    BY <1>2 DEF Added, Only
  <2>2. j \in DOMAIN old.status <=> p > 4 * N + 2 * j
    BY <1>1 DEF Made
  <2>3. p + 1 > 4 * N + 2 * j <=> p > 4 * N + 2 * j \/ p = 4 * N + 2 * j
    BY <1>1
  <2> QED
    BY <2>1, <2>2, <2>3, Zenon
<1>7. <<j, j>> \in new.planeCrtcs <=> p + 1 > 6 * N + 3 * j - 1
  <2>1. <<j, j>> \in new.planeCrtcs <=> <<j, j>> \in old.planeCrtcs \/ p = 6 * N + 3 * j - 1
    BY <1>2 DEF Added, Only
  <2>2. <<j, j>> \in old.planeCrtcs <=> p > 6 * N + 3 * j - 1
    BY <1>1 DEF Made
  <2>3. p + 1 > 6 * N + 3 * j - 1 <=> p > 6 * N + 3 * j - 1 \/ p = 6 * N + 3 * j - 1
    BY <1>1
  <2> QED
    BY <2>1, <2>2, <2>3, Zenon
<1>8. <<j, j>> \in new.encoderCrtcs <=> p + 1 > 6 * N + 3 * j
  <2>1. <<j, j>> \in new.encoderCrtcs <=> <<j, j>> \in old.encoderCrtcs \/ p = 6 * N + 3 * j
    BY <1>2 DEF Added, Only
  <2>2. <<j, j>> \in old.encoderCrtcs <=> p > 6 * N + 3 * j
    BY <1>1 DEF Made
  <2>3. p + 1 > 6 * N + 3 * j <=> p > 6 * N + 3 * j \/ p = 6 * N + 3 * j
    BY <1>1
  <2> QED
    BY <2>1, <2>2, <2>3, Zenon
<1>9. <<j, j>> \in new.connectorEncoders <=> p + 1 > 6 * N + 3 * j + 1
  <2>1. <<j, j>> \in new.connectorEncoders <=> <<j, j>> \in old.connectorEncoders \/ p = 6 * N + 3 * j + 1
    BY <1>2 DEF Added, Only
  <2>2. <<j, j>> \in old.connectorEncoders <=> p > 6 * N + 3 * j + 1
    BY <1>1 DEF Made
  <2>3. p + 1 > 6 * N + 3 * j + 1 <=> p > 6 * N + 3 * j + 1 \/ p = 6 * N + 3 * j + 1
    BY <1>1
  <2> QED
    BY <2>1, <2>2, <2>3, Zenon
<1>10. ASSUME p + 1 > 2 * j + 1
       PROVE  new.types[j] = "primary"
  <2>1. j \in DOMAIN old.types /\ p # 2 * j
    <3>1. p > 2 * j /\ p # 2 * j
      BY <1>1, <1>10
    <3> QED
      BY <3>1 DEF Made
  <2>2. p = 2 * j + 1 \/ old.types[j] = "primary"
    BY <1>1, <1>10 DEF Made
  <2> QED
    BY <1>2, <2>1, <2>2 DEF Added, Only
<1>11. ASSUME j \in DOMAIN new.status
       PROVE  new.status[j] = "disconnected"
  BY <1>11 DEF Added, Only, Made
<1> QED
  BY <1>1, <1>3, <1>4, <1>5, <1>6, <1>7, <1>8, <1>9, <1>10, <1>11 DEF Made

\* All steps on the outputs have had their turn when the pool is validated.
LEMMA MadeStays ==
  ASSUME NEW cfg, NEW j \in Outputs, NEW p \in Nat, p >= 9 * OutputCount + 2, Made(cfg, j, p)
  PROVE  Made(cfg, j, p + 1)
<1>1. PICK N \in Nat : N = OutputCount /\ j \in 1..N
  BY PoolAssumption DEF Outputs
<1>2. /\ p > 2 * j /\ p > 2 * j + 1 /\ p > 2 * N + j + 1 /\ p > 3 * N + j + 1 /\ p > 4 * N + 2 * j
      /\ p > 6 * N + 3 * j - 1 /\ p > 6 * N + 3 * j /\ p > 6 * N + 3 * j + 1
  BY <1>1
<1>3. /\ p + 1 > 2 * j /\ p + 1 > 2 * j + 1 /\ p + 1 > 2 * N + j + 1 /\ p + 1 > 3 * N + j + 1
      /\ p + 1 > 4 * N + 2 * j
      /\ p + 1 > 6 * N + 3 * j - 1 /\ p + 1 > 6 * N + 3 * j /\ p + 1 > 6 * N + 3 * j + 1
  BY <1>1, <1>2
<1> QED
  BY <1>1, <1>2, <1>3, Zenon DEF Made

\* Nothing of an output is made yet when there is only the directory of the device.
LEMMA MadeFirst ==
  ASSUME NEW j \in Outputs
  PROVE  Made(EmptyConfig, j, 2)
<1>1. PICK N \in Nat : N = OutputCount /\ j \in 1..N
  BY PoolAssumption DEF Outputs
<1>2. /\ ~(2 > 2 * j) /\ ~(2 > 2 * j + 1) /\ ~(2 > 2 * N + j + 1) /\ ~(2 > 3 * N + j + 1)
      /\ ~(2 > 4 * N + 2 * j)
      /\ ~(2 > 6 * N + 3 * j - 1) /\ ~(2 > 6 * N + 3 * j) /\ ~(2 > 6 * N + 3 * j + 1)
  BY <1>1
<1>3. PICK none : none = << >>
  OBVIOUS
<1>4. DOMAIN none = {}
  BY <1>3
<1>5. /\ EmptyConfig.types = none /\ EmptyConfig.crtcs = {} /\ EmptyConfig.encoders = {}
      /\ EmptyConfig.status = none /\ EmptyConfig.planeCrtcs = {} /\ EmptyConfig.encoderCrtcs = {}
      /\ EmptyConfig.connectorEncoders = {}
  BY <1>3 DEF EmptyConfig
<1> QED
  BY <1>1, <1>2, <1>4, <1>5 DEF Made

\* A new device has nothing in it.
LEMMA MadeDevice ==
  ASSUME MakeDevice
  PROVE  Configured' /\ device'.config = EmptyConfig /\ ~device'.enabled
<1>1. EmptyConfig \in Configs
  <2>1. DOMAIN << >> = {} /\ << >> = [x \in {} |-> x]
    OBVIOUS
  <2>2. ASSUME NEW S, NEW T
        PROVE  << >> \in PartialFunctions(S, T)
    BY <2>1 DEF PartialFunctions
  <2>3. /\ << >> \in PartialFunctions(Planes, PlaneTypes)
        /\ << >> \in PartialFunctions(Connectors, Statuses)
        /\ << >> \in PartialFunctions(Connectors, Modes \cup {NoMode})
    BY <2>2
  <2> QED
    BY <2>3 DEF EmptyConfig, Configs
<1>2. PICK empty : empty = EmptyConfig
  OBVIOUS
<1>3. PICK a \in Addresses : device' = [enabled |-> FALSE, config |-> empty, address |-> a]
  BY <1>2 DEF MakeDevice
<1>4. device' \in Devices /\ device'.config = empty /\ ~device'.enabled
  BY <1>1, <1>2, <1>3 DEF Devices
<1>5. device' # NoDevice
  BY <1>4, NoDeviceAssumption
<1> QED
  BY <1>2, <1>4, <1>5 DEF Configured

\* A step of a build is on one output, or makes, validates or enables the device.
LEMMA BuildOps ==
  ASSUME NEW step, NEW p \in Nat, AtBuild(step, p), NEW N \in Nat, N = OutputCount
  PROVE  \/ step.op = "make_device" /\ p = 1
         \/ step.op \in ItemOps /\ p >= 2 /\ p <= 9 * N + 1
         \/ step.op = "validate" /\ p = 9 * N + 2
         \/ step.op = "enable" /\ p = 9 * N + 3
<1>1. CASE step.op \in ItemOps
  <2>1. PICK i \in 1..N : i = step.item
    BY <1>1 DEF AtBuild, ItemOps, Outputs
  <2> QED
    BY <1>1, <2>1 DEF AtBuild, ItemOps
<1>2. CASE step.op \notin ItemOps
  BY <1>2 DEF AtBuild, ItemOps
<1> QED
  BY <1>1, <1>2

\* A step of a build that is done brings the build to the next one.
LEMMA MakingAdvances ==
  ASSUME Inv, NEW p \in Nat, Making(p), NEW step \in JobSteps, AtBuild(step, p), Perform(step)
  PROVE  Making(p + 1)'
<1>1. PICK N \in Nat : N = OutputCount
  BY PoolAssumption
<1>2. CASE step.op = "make_device" /\ p = 1
  <2>3. Configured' /\ device'.config = EmptyConfig /\ ~device'.enabled
    BY <1>2, MadeDevice DEF Perform
  <2>4. p + 1 = 2
    BY <1>2
  <2>5. \A j \in Outputs : Made(device'.config, j, 2)
    BY <2>3, MadeFirst
  <2> QED
    BY <2>3, <2>4, <2>5 DEF Making
<1>3. CASE step.op \in ItemOps /\ p >= 2 /\ p <= 9 * N + 1
  <2>1. /\ Configured /\ Configured' /\ device'.enabled = device.enabled
        /\ Added(step, device'.config, device.config)
    BY <1>3, Adds
  <2>2. PICK old, new : old = device.config /\ new = device'.config
    OBVIOUS
  <2>3. ASSUME NEW j \in Outputs
        PROVE  Made(new, j, p + 1)
    <3>1. Made(old, j, p)
      BY <2>1, <2>2 DEF Making
    <3> QED
      BY <2>1, <2>2, <3>1, MadeAdvances
  <2>4. p + 1 > 1 /\ ~device'.enabled
    BY <1>1, <1>3, <2>1 DEF Making
  <2> QED
    BY <2>1, <2>2, <2>3, <2>4 DEF Making
<1>4. CASE step.op = "validate" /\ p = 9 * N + 2
  <2>1. device' = device
    BY <1>4 DEF Perform, configfsVars
  <2>2. Configured /\ ~device.enabled
    BY <1>1, <1>4 DEF Making, Perform, ValidTopology
  <2>3. \A j \in Outputs : Made(device.config, j, p + 1)
    BY <1>1, <1>4, <2>2, MadeStays DEF Making
  <2>4. p + 1 > 1
    BY <1>1, <1>4
  <2> QED
    BY <2>1, <2>2, <2>3, <2>4 DEF Making, Configured
<1>5. CASE step.op = "enable" /\ p = 9 * N + 3
  <2>1. Configured /\ Configured' /\ device'.config = device.config
    BY <1>5, EnabledWritten DEF Perform, StoreEnabled, MayEnable, Open
  <2>2. \A j \in Outputs : Made(device.config, j, p + 1)
    <3>1. p >= 9 * OutputCount + 2
      BY <1>1, <1>5
    <3> QED
      BY <2>1, <3>1, MadeStays DEF Making
  <2>3. p + 1 > 1 /\ ~(p + 1 <= 9 * OutputCount + 3)
    BY <1>1, <1>5
  <2> QED
    BY <2>1, <2>2, <2>3 DEF Making
<1> QED
  BY <1>1, <1>2, <1>3, <1>4, <1>5, BuildOps

\* When all outputs are made the pool is whole.
LEMMA MadeComplete ==
  ASSUME Configured, NEW p \in Nat, Making(p), p >= 9 * OutputCount + 2
  PROVE  ValidTopology
<1>1. PICK N \in Nat : N = OutputCount /\ Outputs = 1..N
  BY PoolAssumption DEF Outputs
<1>2. PICK cfg : cfg = device.config
  OBVIOUS
<1>3. ASSUME NEW j \in Outputs
      PROVE  CompletePipeline(cfg, j)
  <2>1. Made(cfg, j, p) /\ j \in 1..N
    BY <1>1, <1>2 DEF Making
  <2>2. /\ p > 2 * j /\ p > 2 * j + 1 /\ p > 2 * N + j + 1 /\ p > 3 * N + j + 1 /\ p > 4 * N + 2 * j
        /\ p > 6 * N + 3 * j - 1 /\ p > 6 * N + 3 * j /\ p > 6 * N + 3 * j + 1
    BY <1>1, <2>1
  <2>3. /\ j \in DOMAIN cfg.types /\ cfg.types[j] = "primary" /\ j \in cfg.crtcs /\ j \in cfg.encoders
        /\ j \in DOMAIN cfg.status /\ cfg.status[j] = "disconnected"
        /\ <<j, j>> \in cfg.planeCrtcs /\ <<j, j>> \in cfg.encoderCrtcs /\ <<j, j>> \in cfg.connectorEncoders
    BY <1>1, <2>1, <2>2, Zenon DEF Made
  <2> QED
    BY <2>3 DEF CompletePipeline, PlanesOf, ConnectorsOf
<1> QED
  BY <1>2, <1>3 DEF ValidTopology

\* The kernel takes a whole pool for valid when it has no more outputs than a DRM device may have.
LEMMA WholeValid ==
  ASSUME Inv, Orderly, ValidTopology, OutputCount <= MaxItems
  PROVE  IsValid(device.config)
<1>1. PICK cfg : cfg = device.config
  OBVIOUS
<1>2. Sound(cfg) /\ Straight(cfg) /\ \A j \in Outputs : CompletePipeline(cfg, j)
  BY <1>1 DEF Inv, Orderly, ValidTopology
<1>3. DOMAIN cfg.types = Outputs /\ cfg.crtcs = Outputs /\ cfg.encoders = Outputs /\ DOMAIN cfg.status = Outputs
  <2>1. /\ DOMAIN cfg.types \subseteq Outputs /\ cfg.crtcs \subseteq Outputs
        /\ cfg.encoders \subseteq Outputs /\ DOMAIN cfg.status \subseteq Outputs
    BY <1>2, PoolAssumption, PartialFacts DEF Sound, Configs
  <2> QED
    BY <1>2, <2>1 DEF CompletePipeline, PlanesOf, ConnectorsOf
<1>4. ValidNumber(Outputs)
  <2>1. OutputCount \in Nat /\ OutputCount >= 1 /\ Outputs = 1..OutputCount
    BY PoolAssumption DEF Outputs
  <2>2. Cardinality(Outputs) = OutputCount
    <3>1. Cardinality(1..OutputCount) = IF 1 > OutputCount THEN 0 ELSE OutputCount - 1 + 1
      BY <2>1, FS_Interval
    <3> QED
      BY <2>1, <3>1
  <2> QED
    <3>1. OutputCount \in 1..MaxItems
      BY <2>1 DEF MaxItems
    <3> QED
      BY <2>2, <3>1 DEF ValidNumber
<1>5. \A items \in {PlanesOf(cfg), cfg.crtcs, cfg.encoders, ConnectorsOf(cfg)} : ValidNumber(items)
  BY <1>3, <1>4 DEF PlanesOf, ConnectorsOf
<1>6. ASSUME NEW j \in Outputs
      PROVE  /\ cfg.types[j] = "primary"
             /\ <<j, j>> \in cfg.planeCrtcs /\ <<j, j>> \in cfg.encoderCrtcs /\ <<j, j>> \in cfg.connectorEncoders
             /\ <<j, j>>[1] = j /\ <<j, j>>[2] = j
  BY <1>2 DEF CompletePipeline
<1>7. /\ AllLinked(PlanesOf(cfg), cfg.planeCrtcs) /\ AllLinked(ConnectorsOf(cfg), cfg.connectorEncoders)
      /\ AllLinked(cfg.encoders, cfg.encoderCrtcs)
      /\ \A c \in cfg.crtcs : \E link \in cfg.encoderCrtcs : link[2] = c
  BY <1>3, <1>6 DEF AllLinked, PlanesOf, ConnectorsOf
<1>8. ASSUME NEW c \in Outputs
      PROVE  ValidPlanesForCrtc(cfg, c)
  <2>1. PlanesOfType(cfg, c, "primary") = {c}
    BY <1>2, <1>3, <1>6 DEF PlanesOfType, PlanesOf, Straight
  <2>2. PlanesOfType(cfg, c, "cursor") = {}
    BY <1>3, <1>6 DEF PlanesOfType, PlanesOf
  <2>3. Cardinality(PlanesOfType(cfg, c, "primary")) = 1 /\ Cardinality(PlanesOfType(cfg, c, "cursor")) = 0
    BY <2>1, <2>2, FS_Singleton, FS_EmptySet
  <2> QED
    BY <2>3 DEF ValidPlanesForCrtc
<1> QED
  BY <1>1, <1>3, <1>5, <1>7, <1>8 DEF IsValid, ValidEncoderPossibleCrtcs

\* The kernel grants every step of a build at its place, and the pool passes its validation.
LEMMA BuildGranted ==
  ASSUME Inv, Orderly, OutputCount <= MaxItems,
         NEW p \in Nat, Making(p), NEW step \in JobSteps, AtBuild(step, p)
  PROVE  Granted(step)
<1>1. PICK N \in Nat : N = OutputCount /\ Outputs = 1..N
  BY PoolAssumption DEF Outputs
<1>2. CASE step.op = "make_device" /\ p = 1
  BY <1>2 DEF Making, Granted, MayMakeDevice
<1>3. ASSUME p >= 2
      PROVE  Configured
  BY <1>3 DEF Making
<1>4. CASE step.op \in ItemOps /\ p >= 2 /\ p <= 9 * N + 1
  <2>1. PICK cfg, i : cfg = device.config /\ i = step.item
    OBVIOUS
  <2>2. i \in Outputs /\ i \in 1..N
    BY <1>1, <1>4, <2>1 DEF AtBuild, ItemOps
  <2>3. Configured /\ Open /\ Made(cfg, i, p)
    BY <1>1, <1>3, <1>4, <2>1, <2>2 DEF Making, Open
  <2>4. /\ step.op = "make_plane" => p = 2 * i
        /\ step.op = "set_primary" => p = 2 * i + 1
        /\ step.op = "make_crtc" => p = 2 * N + i + 1
        /\ step.op = "make_encoder" => p = 3 * N + i + 1
        /\ step.op = "make_connector" => p = 4 * N + 2 * i
        /\ step.op = "set_disconnected" => p = 4 * N + 2 * i + 1
        /\ step.op = "link_plane" => p = 6 * N + 3 * i - 1
        /\ step.op = "link_encoder" => p = 6 * N + 3 * i
        /\ step.op = "link_connector" => p = 6 * N + 3 * i + 1
    <3>1. /\ p = 2 * i <=> step.op = "make_plane" /\ step.item = i
          /\ p = 2 * i + 1 <=> step.op = "set_primary" /\ step.item = i
          /\ p = 2 * N + i + 1 <=> step.op = "make_crtc" /\ step.item = i
          /\ p = 3 * N + i + 1 <=> step.op = "make_encoder" /\ step.item = i
          /\ p = 4 * N + 2 * i <=> step.op = "make_connector" /\ step.item = i
          /\ p = 4 * N + 2 * i + 1 <=> step.op = "set_disconnected" /\ step.item = i
          /\ p = 6 * N + 3 * i - 1 <=> step.op = "link_plane" /\ step.item = i
          /\ p = 6 * N + 3 * i <=> step.op = "link_encoder" /\ step.item = i
          /\ p = 6 * N + 3 * i + 1 <=> step.op = "link_connector" /\ step.item = i
      BY <1>1, <2>2, BuildUnique
    <3> QED
      BY <2>1, <3>1, Zenon
  <2>5. step.op = "make_plane" => i \notin DOMAIN cfg.types
    <3>1. step.op = "make_plane" => ~(p > 2 * i)
      BY <2>2, <2>4
    <3> QED
      BY <2>3, <3>1, Zenon DEF Made
  <2>6. step.op = "set_primary" => i \in DOMAIN cfg.types
    <3>1. step.op = "set_primary" => p > 2 * i
      BY <2>2, <2>4
    <3> QED
      BY <2>3, <3>1, Zenon DEF Made
  <2>7. step.op = "make_crtc" => i \notin cfg.crtcs
    BY <1>1, <2>2, <2>3, <2>4 DEF Made
  <2>8. step.op = "make_encoder" => i \notin cfg.encoders
    BY <1>1, <2>2, <2>3, <2>4 DEF Made
  <2>9. step.op = "make_connector" => i \notin DOMAIN cfg.status
    BY <1>1, <2>2, <2>3, <2>4 DEF Made
  <2>10. step.op = "set_disconnected" => i \in DOMAIN cfg.status
    BY <1>1, <2>2, <2>3, <2>4 DEF Made
  <2>11. step.op = "link_plane" => i \in DOMAIN cfg.types /\ i \in cfg.crtcs /\ <<i, i>> \notin cfg.planeCrtcs
    BY <1>1, <2>2, <2>3, <2>4 DEF Made
  <2>12. step.op = "link_encoder" => i \in cfg.encoders /\ i \in cfg.crtcs /\ <<i, i>> \notin cfg.encoderCrtcs
    BY <1>1, <2>2, <2>3, <2>4 DEF Made
  <2>13. step.op = "link_connector" =>
            i \in DOMAIN cfg.status /\ i \in cfg.encoders /\ <<i, i>> \notin cfg.connectorEncoders
    BY <1>1, <2>2, <2>3, <2>4 DEF Made
  <2> QED
    BY <1>4, <2>1, <2>3, <2>5, <2>6, <2>7, <2>8, <2>9, <2>10, <2>11, <2>12, <2>13
    DEF Granted, ItemOps, PlanesOf, ConnectorsOf, MayMakePlane, MayStoreType, MayMakeCrtc, MayMakeEncoder,
        MayMakeConnector, MayStoreStatus, MayLinkPlane, MayLinkEncoder, MayLinkConnector, Open
<1>5. CASE step.op = "validate" /\ p = 9 * N + 2
  <2>1. Configured /\ ValidTopology
    BY <1>1, <1>3, <1>5, MadeComplete
  <2> QED
    BY <1>5, <2>1 DEF Granted
<1>6. CASE step.op = "enable" /\ p = 9 * N + 3
  <2>1. Configured /\ ValidTopology
    BY <1>1, <1>3, <1>6, MadeComplete
  <2>2. IsValid(device.config)
    BY <2>1, WholeValid
  <2>3. Open
    BY <1>1, <1>6, <2>1 DEF Making, Open
  <2> QED
    BY <1>6, <2>2, <2>3 DEF Granted, MayEnable
<1> QED
  BY <1>1, <1>2, <1>4, <1>5, <1>6, BuildOps

-----------------------------------------------------------------------------
(* What each step leaves is in order.                                      *)

\* The links of a configuration stay straight if links go, or one of an output to itself comes.
LEMMA StraightStays ==
  ASSUME NEW old, Straight(old), NEW new, NEW i,
         \/ Shrinks(new, old)
         \/ \E step \in JobSteps : Added(step, new, old) /\ i = step.item
  PROVE  Straight(new)
<1>1. CASE Shrinks(new, old)
  BY <1>1 DEF Shrinks, Straight
<1>2. ASSUME NEW step \in JobSteps, Added(step, new, old), i = step.item
      PROVE  Straight(new)
  <2>1. /\ new.planeCrtcs \subseteq old.planeCrtcs \cup {<<i, i>>}
        /\ new.encoderCrtcs \subseteq old.encoderCrtcs \cup {<<i, i>>}
        /\ new.connectorEncoders \subseteq old.connectorEncoders \cup {<<i, i>>}
    BY <1>2 DEF Added, Only
  <2> QED
    BY <2>1 DEF Straight
<1> QED
  BY <1>1, <1>2

\* A step of a job leaves no crossed links.
LEMMA PerformOrderly ==
  ASSUME Inv, Orderly, NEW step \in JobSteps, Perform(step)
  PROVE  Orderly'
<1>1. CASE step.op \in InGroup
  BY <1>1, Removes, StraightStays DEF Orderly
<1>2. CASE step.op \in ItemOps
  BY <1>2, Adds, StraightStays DEF Orderly
<1>3. CASE step.op = "make_device"
  <2>1. Configured' /\ device'.config = EmptyConfig
    BY <1>3, MadeDevice DEF Perform, MakeDevice, MayMakeDevice
  <2>2. Straight(EmptyConfig)
    BY DEF Straight, EmptyConfig
  <2> QED
    BY <2>1, <2>2 DEF Orderly
<1>4. CASE step.op = "enable"
  <2>1. Configured /\ device'.config = device.config
    BY <1>4, EnabledWritten DEF Perform, StoreEnabled, MayEnable, CreateDevice, Open
  <2> QED
    BY <2>1 DEF Orderly
<1>5. CASE step.op = "disable"
  <2>1. StoreDisabled
    BY <1>5 DEF Perform
  <2>2. device \in Devices /\ Configured /\ device' = [device EXCEPT !.enabled = FALSE]
    BY <2>1 DEF Inv, StoreDisabled, MayDisable
  <2>3. device'.config = device.config
    BY <2>2 DEF Devices
  <2> QED
    BY <2>2, <2>3, NoDeviceAssumption DEF Orderly
<1>6. CASE step.op = "remove_device"
  <2>1. ReleaseDevice
    BY <1>6 DEF Perform
  <2>2. ~Configured'
    BY <2>1 DEF ReleaseDevice, MayReleaseDevice, Configured, Orderly
  <2> QED
    BY <2>2 DEF Orderly
<1>7. CASE UNCHANGED configfsVars
  BY <1>7 DEF Orderly, configfsVars, Configured
<1>8. \/ step.op \in InGroup \cup ItemOps \cup {"make_device", "enable", "disable", "remove_device"}
      \/ UNCHANGED configfsVars
  BY DEF Perform, InGroup, ItemOps
<1> QED
  BY <1>1, <1>2, <1>3, <1>4, <1>5, <1>6, <1>7, <1>8

\* What a broker instance writes has no links.
LEMMA WrittenOrderly ==
  ASSUME Inv, Orderly, NEW n \in Outputs,
         \/ \E v \in Statuses : StoreStatus(n, v)
         \/ \E v \in Modes : StoreRequestedMode(n, v)
  PROVE  Orderly'
<1>1. PICK old : old = device.config
  OBVIOUS
<1>2. Configured /\ device \in Devices /\ Sound(old) /\ Straight(old) /\ n \in DOMAIN old.status
  BY <1>1 DEF Inv, Orderly, StoreStatus, MayStoreStatus, StoreRequestedMode, ConnectorsOf
<1>3. ASSUME NEW new, new \in Configs, device' = [device EXCEPT !.config = new],
             new.planeCrtcs = old.planeCrtcs, new.encoderCrtcs = old.encoderCrtcs,
             new.connectorEncoders = old.connectorEncoders
      PROVE  Orderly'
  <2>1. device'.config = new /\ Straight(new)
    BY <1>2, <1>3 DEF Devices, Straight
  <2> QED
    BY <1>2, <2>1 DEF Orderly
<1>4. CASE \E v \in Statuses : StoreStatus(n, v)
  <2>1. PICK v \in Statuses : StoreStatus(n, v)
    BY <1>4
  <2>2. PICK new : new = [old EXCEPT !.status[n] = v]
    OBVIOUS
  <2>3. /\ Sound(new) /\ new.planeCrtcs = old.planeCrtcs /\ new.encoderCrtcs = old.encoderCrtcs
        /\ new.connectorEncoders = old.connectorEncoders
    BY <1>2, <2>2, StatusStored
  <2>4. device' = [device EXCEPT !.config = new]
    BY <1>1, <2>1, <2>2 DEF StoreStatus, MayStoreStatus
  <2> QED
    BY <1>3, <2>3, <2>4 DEF Sound
<1>5. CASE \E v \in Modes : StoreRequestedMode(n, v)
  <2>1. PICK v \in Modes : StoreRequestedMode(n, v)
    BY <1>5
  <2>2. PICK new : new = [old EXCEPT !.modes[n] = v]
    OBVIOUS
  <2>3. /\ Sound(new) /\ new.planeCrtcs = old.planeCrtcs /\ new.encoderCrtcs = old.encoderCrtcs
        /\ new.connectorEncoders = old.connectorEncoders
    <3>1. v \in Modes \cup {NoMode} /\ n \in DOMAIN old.modes
      BY <1>2 DEF Sound
    <3> QED
      BY <1>2, <2>2, <3>1, ModeStored
  <2>4. device' = [device EXCEPT !.config = new]
    BY <1>1, <2>1, <2>2 DEF StoreRequestedMode
  <2> QED
    BY <1>3, <2>3, <2>4 DEF Sound
<1> QED
  BY <1>4, <1>5

-----------------------------------------------------------------------------
(* The jobs of the service, when nothing fails of its own accord.          *)

\* What is left of a job is all of it from its p-th step on.
From(todo, all, p) ==
    /\ p \in 1..Len(all) + 1
    /\ Len(todo) = Len(all) + 1 - p
    /\ \A k \in 1..Len(todo) : todo[k] = all[p + k - 1]

OnCourse ==
    \/ /\ job.phase = "keep"
       /\ job.todo # << >> => job.todo = <<Step("enable", 0)>> /\ ValidTopology /\ ~device.enabled
    \/ /\ job.phase = "clear" /\ ~Configured
       /\ job.todo # << >> => job.todo = <<Step("clear_leases", 0)>>
    \/ /\ job.phase = "remove"
       /\ \E p \in Nat : From(job.todo, RemoveSteps, p) /\ Removing(p)
    \/ /\ job.phase = "build"
       /\ \E p \in Nat : From(job.todo, BuildSteps, p) /\ Making(p)

\* No job fails that no fault has hit, and what it finds in configfs is as its steps left it.
Recovering ==
    /\ Orderly
    /\ ~job.faulted => job.result = "none"
    /\ job.result = "none" => ~job.incomplete
    /\ job.kind # "none" /\ ~job.faulted => OnCourse

\* A job begins with its first step.
LEMMA FromStart ==
  ASSUME NEW all \in Seq(JobSteps)
  PROVE  From(all, all, 1)
<1>1. Len(all) \in Nat
  OBVIOUS
<1> QED
  BY <1>1 DEF From

\* A job goes on with the next step.
LEMMA FromNext ==
  ASSUME NEW all \in Seq(JobSteps), NEW todo \in Seq(JobSteps), todo # << >>, NEW p \in Nat, From(todo, all, p)
  PROVE  p \in 1..Len(all) /\ Head(todo) = all[p] /\ From(Tail(todo), all, p + 1)
<1>1. PICK n \in Nat, m \in Nat : n = Len(all) /\ m = Len(todo)
  OBVIOUS
<1>2. PICK rest : rest = Tail(todo)
  OBVIOUS
<1>3. /\ m >= 1 /\ Head(todo) = todo[1] /\ Len(rest) = m - 1
      /\ \A k \in 1..m - 1 : rest[k] = todo[k + 1]
  BY <1>1, <1>2, RestFacts
<1>4. p \in 1..n + 1 /\ m = n + 1 - p /\ \A k \in 1..m : todo[k] = all[p + k - 1]
  BY <1>1 DEF From
<1>5. p \in 1..n /\ p + 1 - 1 = p /\ Head(todo) = all[p]
  <2>1. todo[1] = all[p + 1 - 1]
    BY <1>3, <1>4
  <2> QED
    BY <1>3, <1>4, <2>1
<1>6. ASSUME NEW k \in 1..m - 1
      PROVE  rest[k] = all[(p + 1) + k - 1]
  <2>1. k + 1 \in 1..m /\ p + (k + 1) - 1 = (p + 1) + k - 1
    BY <1>3
  <2>2. todo[k + 1] = all[p + (k + 1) - 1]
    BY <1>4, <2>1
  <2> QED
    BY <1>3, <2>1, <2>2
<1>7. p + 1 \in 1..n + 1 /\ m - 1 = n + 1 - (p + 1)
  BY <1>4, <1>5
<1> QED
  BY <1>1, <1>2, <1>3, <1>5, <1>6, <1>7 DEF From

\* The next step of a removal is the one whose place it is.
LEMMA RemovalNext ==
  ASSUME NEW todo \in Seq(JobSteps), todo # << >>, NEW p \in Nat, From(todo, RemoveSteps, p)
  PROVE  AtRemoval(Head(todo), p) /\ From(Tail(todo), RemoveSteps, p + 1)
<1>1. PICK all : all = RemoveSteps
  OBVIOUS
<1>2. RemovalPiece(all, 0, 7 * OutputCount + 5)
  BY <1>1, RemovalPlaces
<1>3. all \in Seq(JobSteps) /\ \A k \in 1..Len(all) : AtRemoval(all[k], 0 + k)
  BY <1>2 DEF RemovalPiece
<1>4. p \in 1..Len(all) /\ Head(todo) = all[p] /\ From(Tail(todo), all, p + 1)
  BY <1>1, <1>3, FromNext
<1>5. AtRemoval(all[p], 0 + p) /\ 0 + p = p
  BY <1>3, <1>4
<1> QED
  BY <1>1, <1>4, <1>5

\* The next step of a build is the one whose place it is.
LEMMA BuildNext ==
  ASSUME NEW todo \in Seq(JobSteps), todo # << >>, NEW p \in Nat, From(todo, BuildSteps, p)
  PROVE  AtBuild(Head(todo), p) /\ From(Tail(todo), BuildSteps, p + 1)
<1>1. PICK all : all = BuildSteps
  OBVIOUS
<1>2. BuildPiece(all, 0, 9 * OutputCount + 3)
  BY <1>1, BuildPlaces
<1>3. all \in Seq(JobSteps) /\ \A k \in 1..Len(all) : AtBuild(all[k], 0 + k)
  BY <1>2 DEF BuildPiece
<1>4. p \in 1..Len(all) /\ Head(todo) = all[p] /\ From(Tail(todo), all, p + 1)
  BY <1>1, <1>3, FromNext
<1>5. AtBuild(all[p], 0 + p) /\ 0 + p = p
  BY <1>3, <1>4
<1> QED
  BY <1>1, <1>4, <1>5

\* The next step of a job that nothing has hit is not refused.
LEMMA NotRefused ==
  ASSUME IInv, Recovering, OutputCount <= MaxItems, ~job.faulted, job.kind # "none",
         NEW todo \in Seq(JobSteps), todo = job.todo, todo # << >>, NEW step, step = Head(todo), ~Absent(step)
  PROVE  ~Refused(step)
<1>1. Inv /\ Orderly /\ ~job.incomplete /\ OnCourse
  BY DEF IInv, Recovering
<1>2. step \in JobSteps
  BY RestFacts
<1>3. SUFFICES ASSUME step.op # "give_up"
               PROVE  Granted(step)
  BY <1>1 DEF Refused
<1>4. CASE job.phase = "keep"
  <2>1. todo = <<Step("enable", 0)>> /\ ValidTopology /\ ~device.enabled
    BY <1>1, <1>4 DEF OnCourse
  <2>2. step = Step("enable", 0)
    BY <2>1
  <2>3. step.op = "enable" /\ Open
    BY <2>1, <2>2 DEF Step, ValidTopology, Open
  <2>4. IsValid(device.config)
    BY <1>1, <2>1, WholeValid
  <2> QED
    BY <2>3, <2>4 DEF Granted, MayEnable
<1>5. CASE job.phase = "clear"
  <2>1. todo = <<Step("clear_leases", 0)>>
    BY <1>1, <1>5 DEF OnCourse
  <2>2. step = Step("clear_leases", 0)
    BY <2>1
  <2>3. step.op = "clear_leases"
    BY <2>2 DEF Step
  <2> QED
    BY <2>3 DEF Granted
<1>6. CASE job.phase = "remove"
  <2>1. PICK p \in Nat : From(todo, RemoveSteps, p) /\ Removing(p)
    BY <1>1, <1>6 DEF OnCourse
  <2>2. AtRemoval(step, p)
    BY <2>1, RemovalNext
  <2> QED
    BY <1>1, <1>2, <1>3, <2>1, <2>2, RemovalGranted
<1>7. CASE job.phase = "build"
  <2>1. PICK p \in Nat : From(todo, BuildSteps, p) /\ Making(p)
    BY <1>1, <1>7 DEF OnCourse
  <2>2. AtBuild(step, p)
    BY <2>1, BuildNext
  <2> QED
    BY <1>1, <1>2, <2>1, <2>2, BuildGranted
<1> QED
  BY <1>1, <1>4, <1>5, <1>6, <1>7 DEF OnCourse

\* A step that succeeds keeps the job on its course.
LEMMA RunRecovers ==
  ASSUME IInv, Recovering, RunStep
  PROVE  Recovering'
<1>1. PICK todo \in Seq(JobSteps) : todo = job.todo /\ todo # << >>
  BY DEF IInv, Types, JobRecord, RunStep
<1>2. PICK step, rest : step = Head(todo) /\ rest = Tail(todo)
  OBVIOUS
<1>3. step \in JobSteps /\ rest \in Seq(JobSteps)
  BY <1>1, <1>2, RestFacts
<1>4. \/ step.op # "give_up" /\ ~Absent(step) /\ Perform(step)
      \/ (step.op = "give_up" \/ Absent(step)) /\ UNCHANGED configfsVars
  BY <1>1, <1>2 DEF RunStep
<1>5. Inv /\ Orderly /\ job \in JobRecord /\ job.kind # "none"
  BY <1>1 DEF IInv, Types, Jobs, Recovering
<1>6. Orderly'
  <2>1. CASE Perform(step)
    BY <1>3, <1>5, <2>1, PerformOrderly
  <2>2. CASE UNCHANGED configfsVars
    BY <1>5, <2>2 DEF Orderly, configfsVars, Configured
  <2> QED
    BY <1>4, <2>1, <2>2
<1>7. /\ job'.todo = rest /\ job'.phase = job.phase /\ job'.kind = job.kind /\ job'.faulted = job.faulted
      /\ job'.result = job.result /\ job'.incomplete = job.incomplete
  <2>1. job' = [job EXCEPT !.phase = job.phase, !.todo = rest]
    BY <1>1, <1>2 DEF RunStep, Run
  <2> QED
    BY <1>3, <1>5, <2>1 DEF JobRecord
<1>8. ASSUME ~job.faulted
      PROVE  OnCourse'
  <2>1. OnCourse
    BY <1>5, <1>8 DEF Recovering
  <2>2. CASE job.phase = "keep"
    <3>1. todo = <<Step("enable", 0)>>
      BY <1>1, <2>1, <2>2 DEF OnCourse
    <3>2. rest = << >>
      BY <1>2, <3>1
    <3> QED
      BY <1>7, <2>2, <3>2 DEF OnCourse
  <2>3. CASE job.phase = "clear"
    <3>1. todo = <<Step("clear_leases", 0)>> /\ ~Configured
      BY <1>1, <2>1, <2>3 DEF OnCourse
    <3>2. rest = << >> /\ step = Step("clear_leases", 0)
      BY <1>2, <3>1
    <3>3. step.op = "clear_leases"
      BY <3>2 DEF Step
    <3>4. UNCHANGED configfsVars
      BY <1>4, <3>3 DEF Perform
    <3>5. ~Configured'
      BY <3>1, <3>4 DEF configfsVars, Configured
    <3> QED
      BY <1>7, <2>3, <3>2, <3>5 DEF OnCourse
  <2>4. CASE job.phase = "remove"
    <3>1. PICK p \in Nat : From(todo, RemoveSteps, p) /\ Removing(p)
      BY <1>1, <2>1, <2>4 DEF OnCourse
    <3>2. AtRemoval(step, p) /\ From(rest, RemoveSteps, p + 1)
      BY <1>1, <1>2, <3>1, RemovalNext
    <3>3. PICK next \in Nat : next = p + 1
      OBVIOUS
    <3>4. Removing(p + 1)'
      BY <1>3, <1>4, <1>5, <3>1, <3>2, RemovingAdvances
    <3>5. From(job'.todo, RemoveSteps, next) /\ Removing(next)'
      BY <1>7, <3>2, <3>3, <3>4
    <3> QED
      BY <1>7, <2>4, <3>5 DEF OnCourse
  <2>5. CASE job.phase = "build"
    <3>1. PICK p \in Nat : From(todo, BuildSteps, p) /\ Making(p)
      BY <1>1, <2>1, <2>5 DEF OnCourse
    <3>2. AtBuild(step, p) /\ From(rest, BuildSteps, p + 1)
      BY <1>1, <1>2, <3>1, BuildNext
    <3>3. PICK next \in Nat : next = p + 1
      OBVIOUS
    <3>4. Perform(step)
      BY <1>4, <3>2 DEF AtBuild, Absent
    <3>5. Making(p + 1)'
      BY <1>3, <1>5, <3>1, <3>2, <3>4, MakingAdvances
    <3>6. From(job'.todo, BuildSteps, next) /\ Making(next)'
      BY <1>7, <3>2, <3>3, <3>5
    <3> QED
      BY <1>7, <2>5, <3>6 DEF OnCourse
  <2> QED
    BY <2>1, <2>2, <2>3, <2>4, <2>5 DEF OnCourse
<1> QED
  BY <1>6, <1>7, <1>8 DEF Recovering

\* A job that starts has no faults yet, and finds in configfs what it starts from.
LEMMA BeginsRecovering ==
  ASSUME IInv, Recovering, UNCHANGED configfsVars, NEW kind, NEW phase, NEW todo \in Seq(JobSteps),
         job' = Job(kind, phase, todo),
         \/ phase = "keep" /\ todo = << >>
         \/ phase = "keep" /\ todo = <<Step("enable", 0)>> /\ ValidTopology /\ ~device.enabled
         \/ phase = "clear" /\ ~Configured /\ todo = <<Step("clear_leases", 0)>>
         \/ phase = "remove" /\ Configured /\ todo = RemoveSteps
  PROVE  Recovering'
<1>1. /\ job'.phase = phase /\ job'.todo = todo /\ ~job'.faulted /\ job'.result = "none"
      /\ ~job'.incomplete
  BY DEF Job, NoJob
<1>2. device' = device /\ Orderly' /\ (Configured' <=> Configured) /\ (ValidTopology' <=> ValidTopology)
  BY DEF configfsVars, Recovering, Orderly, Configured, ValidTopology
<1>3. CASE phase = "remove"
  <2>1. From(todo, RemoveSteps, 1)
    BY <1>3, FromStart
  <2>2. PICK N \in Nat : N = OutputCount /\ Outputs = 1..N
    BY PoolAssumption DEF Outputs
  <2>3. ASSUME NEW j \in Outputs
        PROVE  NotRemoved(device.config, j, 1)
    <3>1. j \in 1..N
      BY <2>2
    <3> QED
      BY <2>2, <3>1 DEF NotRemoved
  <2>4. Removing(1)
    BY <1>3, <2>2, <2>3 DEF Removing
  <2>5. Removing(1)'
    BY <1>2, <2>4 DEF Removing
  <2> QED
    BY <1>1, <1>2, <1>3, <2>1, <2>5 DEF Recovering, OnCourse
<1>4. CASE phase = "keep"
  BY <1>1, <1>2, <1>4 DEF Recovering, OnCourse
<1>5. CASE phase = "clear"
  BY <1>1, <1>2, <1>5 DEF Recovering, OnCourse
<1> QED
  BY <1>3, <1>4, <1>5

\* The steps of the removal, of the clearing of the leases and of the enabling are steps of jobs.
LEMMA PhasesFacts ==
  /\ RemoveSteps \in Seq(JobSteps) /\ BuildSteps \in Seq(JobSteps) /\ << >> \in Seq(JobSteps)
  /\ <<Step("clear_leases", 0)>> \in Seq(JobSteps) /\ <<Step("enable", 0)>> \in Seq(JobSteps)
<1>1. RemoveSteps \in Seq(JobSteps)
  BY RemovalPlaces DEF RemovalPiece
<1>2. BuildSteps \in Seq(JobSteps)
  BY BuildPlaces DEF BuildPiece
<1>3. PICK clear \in JobSteps, enable \in JobSteps : clear = Step("clear_leases", 0) /\ enable = Step("enable", 0)
  BY PoolStepFacts
<1>4. <<clear>> \in Seq(JobSteps) /\ <<enable>> \in Seq(JobSteps) /\ << >> \in Seq(JobSteps)
  OBVIOUS
<1> QED
  BY <1>1, <1>2, <1>3, <1>4

\* A start finds no pool, a whole one or parts of one; a stop finds the whole pool.
LEMMA StartsRecovering ==
  ASSUME IInv, Recovering, StartService \/ StopService
  PROVE  Recovering'
<1>1. UNCHANGED configfsVars
  BY DEF StartService, StopService
<1>2. CASE StartService /\ ~Configured
  <2>1. job' = Job("start", "clear", <<Step("clear_leases", 0)>>)
    BY <1>2 DEF StartService, StartJob
  <2> QED
    BY <1>1, <1>2, <2>1, PhasesFacts, BeginsRecovering
<1>3. CASE StartService /\ Configured /\ ValidTopology
  <2>1. CASE device.enabled
    <3>1. job' = Job("start", "keep", << >>)
      BY <1>3, <2>1 DEF StartService, StartJob
    <3> QED
      BY <1>1, <3>1, PhasesFacts, BeginsRecovering
  <2>2. CASE ~device.enabled
    <3>1. job' = Job("start", "keep", <<Step("enable", 0)>>)
      BY <1>3, <2>2 DEF StartService, StartJob
    <3> QED
      BY <1>1, <1>3, <2>2, <3>1, PhasesFacts, BeginsRecovering
  <2> QED
    BY <2>1, <2>2
<1>4. CASE StartService /\ Configured /\ ~ValidTopology
  <2>1. job' = Job("start", "remove", RemoveSteps)
    BY <1>4 DEF StartService, StartJob, RemovePool
  <2> QED
    BY <1>1, <1>4, <2>1, PhasesFacts, BeginsRecovering
<1>5. CASE StopService
  <2>1. Configured
    BY <1>5 DEF IInv, Whole, StopService, InService, ValidTopology
  <2>2. job' = Job("stop", "keep", << >>) \/ job' = Job("stop", "remove", RemoveSteps)
    BY <1>5, <2>1 DEF StopService, RemovePool
  <2> QED
    BY <1>1, <2>1, <2>2, PhasesFacts, BeginsRecovering
<1> QED
  BY <1>2, <1>3, <1>4, <1>5

\* When the old pool is removed its directory is gone, and the new pool is built from nothing.
LEMMA NextPhaseRecovers ==
  ASSUME IInv, Recovering, NextPhase
  PROVE  Recovering'
<1>1. /\ job \in JobRecord /\ job.kind = "start" /\ job.result = "none" /\ job.todo = << >>
      /\ job.phase \in {"remove", "clear"} /\ UNCHANGED configfsVars
  BY DEF IInv, Types, NextPhase, MorePhases
<1>2. device' = device /\ Orderly' /\ (Configured' <=> Configured)
  BY <1>1 DEF configfsVars, Recovering, Orderly, Configured
<1>3. PICK N \in Nat : N = OutputCount
  BY PoolAssumption
<1>4. CASE job.phase = "remove"
  <2>1. job' = Run("clear", <<Step("clear_leases", 0)>>)
    BY <1>4 DEF NextPhase
  <2>2. /\ job'.phase = "clear" /\ job'.todo = <<Step("clear_leases", 0)>> /\ job'.result = job.result
        /\ job'.faulted = job.faulted /\ job'.incomplete = job.incomplete
    BY <1>1, <2>1 DEF Run, JobRecord
  <2>3. ASSUME ~job.faulted
        PROVE  ~Configured
    <3>1. PICK p \in Nat : From(job.todo, RemoveSteps, p) /\ Removing(p)
      BY <1>1, <1>4, <2>3 DEF Recovering, OnCourse
    <3>2. PICK all : all = RemoveSteps
      OBVIOUS
    <3>3. Len(all) = 7 * N + 5
      BY <1>3, <3>2, RemovalPlaces DEF RemovalPiece
    <3>4. Len(job.todo) = 0 /\ p \in 1..Len(all) + 1 /\ Len(job.todo) = Len(all) + 1 - p
      BY <1>1, <3>1, <3>2 DEF From
    <3>5. ~(p <= 7 * N + 4)
      BY <1>3, <3>3, <3>4
    <3> QED
      BY <1>3, <3>1, <3>5 DEF Removing
  <2> QED
    BY <1>1, <1>2, <2>2, <2>3 DEF Recovering, OnCourse
<1>5. CASE job.phase = "clear"
  <2>1. job' = Run("build", BuildSteps)
    BY <1>5 DEF NextPhase
  <2>2. PICK todo \in Seq(JobSteps) : todo = BuildSteps
    BY PhasesFacts
  <2>3. /\ job'.phase = "build" /\ job'.todo = todo /\ job'.result = job.result
        /\ job'.faulted = job.faulted /\ job'.incomplete = job.incomplete
    BY <1>1, <2>1, <2>2 DEF Run, JobRecord
  <2>4. From(todo, BuildSteps, 1)
    BY <2>2, FromStart
  <2>5. ASSUME ~job.faulted
        PROVE  Making(1)'
    <3>1. ~Configured
      BY <1>1, <1>5, <2>5 DEF Recovering, OnCourse
    <3> QED
      BY <1>2, <3>1 DEF Making
  <2> QED
    BY <1>1, <1>2, <2>3, <2>4, <2>5 DEF Recovering, OnCourse
<1> QED
  BY <1>1, <1>4, <1>5

\* A job fails only by a fault.
LEMMA FailsByFault ==
  ASSUME IInv, Recovering, OutputCount <= MaxItems, StepFails \/ KillJob
  PROVE  Recovering'
<1>1. PICK todo \in Seq(JobSteps) : todo = job.todo /\ todo # << >>
  BY DEF IInv, Types, JobRecord, StepFails, KillJob
<1>2. job \in JobRecord /\ job.kind # "none"
  BY <1>1 DEF IInv, Types, Jobs
<1>3. Orderly'
  <2>1. UNCHANGED configfsVars
    BY Zenon DEF StepFails, KillJob
  <2> QED
    BY <2>1 DEF Recovering, Orderly, configfsVars, Configured
<1>4. SUFFICES job'.faulted /\ job'.result = "failed"
  BY <1>3 DEF Recovering
<1>5. CASE KillJob
  <2>1. job' = [job EXCEPT !.todo = << >>, !.faulted = TRUE, !.result = "failed"]
    BY <1>5 DEF KillJob
  <2> QED
    BY <1>2, <2>1 DEF JobRecord
<1>6. CASE StepFails
  <2>1. PICK step, next : step = Head(job.todo) /\ next = AfterFailure(step)
    OBVIOUS
  <2>2. PICK steps \in Seq(JobSteps), rest \in Seq(JobSteps) : steps = RemovePool /\ rest = Tail(todo)
    BY <1>1, RemoveFacts, RestFacts
  <2>3. PICK failed : failed = [job EXCEPT !.result = "failed"]
    OBVIOUS
  <2>4. failed \in JobRecord /\ failed.result = "failed" /\ failed.todo = todo /\ failed.faulted = job.faulted
    BY <1>1, <1>2, <2>3 DEF JobRecord
  <2>5. \/ next = [failed EXCEPT !.incomplete = TRUE, !.todo = rest]
        \/ next = [failed EXCEPT !.phase = "rollback", !.todo = steps]
        \/ next = [failed EXCEPT !.todo = << >>]
    <3>1. CASE step.op \in InGroup
      <4>1. next = [failed EXCEPT !.incomplete = TRUE, !.todo = Tail(failed.todo)]
        BY <2>1, <2>3, <3>1 DEF AfterFailure
      <4> QED
        BY <2>2, <2>4, <4>1
    <3>2. CASE step.op \notin InGroup
      BY <2>1, <2>2, <2>3, <3>2 DEF AfterFailure
    <3> QED
      BY <3>1, <3>2
  <2>6. next.result = "failed" /\ next.faulted = job.faulted /\ next = [next EXCEPT !.faulted = next.faulted]
        /\ [next EXCEPT !.faulted = TRUE].result = "failed" /\ [next EXCEPT !.faulted = TRUE].faulted
    BY <2>4, <2>5 DEF JobRecord
  <2>7. \/ Refused(step) /\ job' = next
        \/ job' = [next EXCEPT !.faulted = TRUE]
    BY <1>6, <2>1, Zenon DEF StepFails
  <2>8. ~Absent(step)
    BY <1>6, <2>1, Zenon DEF StepFails
  <2>9. Refused(step) => job.faulted
    BY <1>1, <1>2, <2>1, <2>8, NotRefused
  <2> QED
    BY <2>6, <2>7, <2>9
<1> QED
  BY <1>5, <1>6

\* The instances run while there is no job, and leave the links alone.
LEMMA InstanceRecovers ==
  ASSUME IInv, Recovering, NEW i \in Instances, InstanceStep(i)
  PROVE  Recovering'
<1>1. instance[i].pc # "free"
  BY DEF InstanceStep, CheckPool, Lock, LockTimesOut, ConnectConnected, ConnectDisconnected, WriteLease,
         WriteStatusConnected, ReportConnected, ConnectFails, Disconnect, WriteStatusDisconnected,
         ReleaseLease, CheckModeOwner, WriteMode, InstanceFails
<1>2. job.kind = "none"
  BY <1>1, JobMeansIdle
<1>3. job' = job
  BY DEF InstanceStep, CheckPool, Lock, LockTimesOut, ConnectConnected, ConnectDisconnected, WriteLease,
         WriteStatusConnected, ReportConnected, ConnectFails, Disconnect, WriteStatusDisconnected,
         ReleaseLease, CheckModeOwner, WriteMode, InstanceFails, Answering, GoesOn, poolVars
<1>4. Orderly'
  <2>1. Inv /\ Orderly /\ instance[i].output \in Outputs /\ Seen(i)
    BY <1>1, RunningFacts DEF IInv, Recovering
  <2>2. CASE WriteStatusConnected(i) \/ WriteStatusDisconnected(i)
    <3>1. \E v \in Statuses : StoreStatus(instance[i].output, v)
      BY <2>2 DEF WriteStatusConnected, WriteStatusDisconnected, Statuses
    <3> QED
      BY <2>1, <3>1, WrittenOrderly
  <2>3. CASE WriteMode(i)
    <3>1. instance[i].mode \in Modes /\ StoreRequestedMode(instance[i].output, instance[i].mode)
      BY <2>1, <2>3 DEF WriteMode, Seen
    <3> QED
      BY <2>1, <3>1, WrittenOrderly
  <2>4. CASE UNCHANGED configfsVars
    BY <2>1, <2>4 DEF Orderly, configfsVars, Configured
  <2>5. \/ WriteStatusConnected(i) \/ WriteStatusDisconnected(i) \/ WriteMode(i) \/ UNCHANGED configfsVars
    BY Zenon DEF InstanceStep, CheckPool, Lock, LockTimesOut, ConnectConnected, ConnectDisconnected, WriteLease,
           ReportConnected, ConnectFails, Disconnect, ReleaseLease, CheckModeOwner, InstanceFails
  <2> QED
    BY <2>2, <2>3, <2>4, <2>5
<1> QED
  BY <1>2, <1>3, <1>4 DEF Recovering

\* A service whose job has ended, or whose job goes on as it was, is still on its course.
LEMMA OthersRecover ==
  ASSUME IInv, Recovering, device' = device, job' = job \/ job' = NoJob
  PROVE  Recovering'
<1>1. Orderly'
  BY DEF Recovering, Orderly, Configured
<1>2. CASE job' = job
  <2>1. OnCourse => OnCourse'
    BY <1>2 DEF OnCourse, Removing, Making, Configured, ValidTopology
  <2> QED
    BY <1>1, <1>2, <2>1 DEF Recovering
<1>3. CASE job' = NoJob
  BY <1>1, <1>3 DEF Recovering, NoJob
<1> QED
  BY <1>2, <1>3

\* No start or stop fails by itself, whatever earlier ones that failed or were killed between two
\* of their steps have left in configfs, and a service that is active has the whole pool, enabled:
\* for any number of outputs that a DRM device may have, and while clients still have devices of
\* earlier pools open.
THEOREM PoolAlwaysRecovers ==
  ASSUME OutputCount <= MaxItems
  PROVE  Spec => []PoolServiceRecovers
<1>1. Init => Recovering
  BY DEF Init, ConfigfsInit, Recovering, Orderly, Configured, NoJob
<1>2. IInv /\ Recovering /\ [Next]_vars => Recovering'
  <2>1. SUFFICES ASSUME IInv, Recovering, [Next]_vars
                 PROVE  Recovering'
    OBVIOUS
  <2>2. CASE StartService \/ StopService
    BY <2>1, <2>2, StartsRecovering
  <2>3. CASE RunStep
    BY <2>1, <2>3, RunRecovers
  <2>4. CASE NextPhase
    BY <2>1, <2>4, NextPhaseRecovers
  <2>5. CASE StepFails \/ KillJob
    BY <2>1, <2>5, FailsByFault
  <2>6. CASE DrainInstances \/ EndJob
    <3>1. device' = device /\ (job' = job \/ job' = NoJob)
      BY <2>6 DEF DrainInstances, EndJob, configfsVars
    <3> QED
      BY <2>1, <3>1, OthersRecover
  <2>7. CASE \E u \in Uids : TimeOut(u) \/ Receive(u) \/ \E n \in Outputs : Request(u, n)
    <3>1. device' = device /\ job' = job
      BY <2>7 DEF TimeOut, Receive, Request, poolVars, configfsVars
    <3> QED
      BY <2>1, <3>1, OthersRecover
  <2>8. CASE \E i \in Instances : InstanceStep(i)
    BY <2>1, <2>8, InstanceRecovers
  <2>9. CASE \E a \in Addresses : CloseUnplugged(a)
    <3>1. device' = device /\ job' = job
      BY <2>9 DEF CloseUnplugged, LastClose, poolVars
    <3> QED
      BY <2>1, <3>1, OthersRecover
  <2>10. CASE UNCHANGED vars
    <3>1. device' = device /\ job' = job
      BY <2>10 DEF vars, poolVars, configfsVars
    <3> QED
      BY <2>1, <3>1, OthersRecover
  <2> QED
    BY <2>1, <2>2, <2>3, <2>4, <2>5, <2>6, <2>7, <2>8, <2>9, <2>10 DEF Next
<1>3. IInv /\ Recovering => PoolServiceRecovers
  BY DEF IInv, Whole, Recovering, PoolServiceRecovers
<1> QED
  BY <1>1, <1>2, <1>3, BrokerInvariant, PTL DEF Spec
=============================================================================
