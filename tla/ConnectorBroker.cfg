SPECIFICATION Spec
CONSTANTS
  usual = usual  u1 = u1  u2 = u2  root = root  i1 = i1  i2 = i2
  OutputCount = 1
  Planes = {1}
  Crtcs = {1}
  Encoders = {1}
  Connectors = {1}
  Modes <- MCModes
  PoolModes <- MCModes
  UsualSize = usual
  NoMode = NoMode
  NoDevice = NoDevice
  a1 = a1  a2 = a2
  Addresses = {a1, a2}
  MaxHeld = 1
  Users = {u1, u2}
  Root = root
  NoUser = NoUser
  Instances = {i1, i2}
  NoInstance = NoInstance
  MaxRequests = 3
  MaxJobs = 3
  MaxFaults = 2
SYMMETRY Symmetry
INVARIANTS
  ConnectedHasOwner
  AcknowledgedOutputsKept
  PoolServiceRecovers
PROPERTIES
  OnlyOwnersChangeOutputs
CHECK_DEADLOCK FALSE
