SPECIFICATION FairSpec
CONSTANTS
  d1 = d1  d2 = d2  l1 = l1  l2 = l2  o1 = o1  m1 = m1  m2 = m2  w1 = w1  w2 = w2  w3 = w3
  e1 = e1  e2 = e2  f1 = f1  f2 = f2  f3 = f3  f4 = f4  f5 = f5
  DisplayIds = {d1}
  LeaseIds = {l1, l2}
  Capabilities = {o1}
  Edids = {e1, e2, f1, f2, f3, f4, f5}
  RetainedEdid <- MCRetainedEdid
  EphemeralEdid <- MCEphemeralEdid
  MaxPermanent = 1
  MaxTemporary = 2
  MaxIndex = 9
  DefaultTimeout = 1
  MinTimeout = 1
  MaxTimeout = 2
  RequestedTimeouts = {0}
  NoDisplay = NoDisplay
  NoLease = NoLease
  NoCapability = NoCapability
  NoConnector = NoConnector
  MaxGeneration = 4
  MaxEphemeral = 5
  MaxTime = 1
  MaxClockLag = 1
  Workers = {w1}
  Reaper = Reaper
  NoThread = NoThread
  Requests <- ClientRequests
  NoRequest = NoRequest
  NoSnapshot = NoSnapshot
  Manifests = {m1}
  FirstManifest = m1
  PartialManifest = PartialManifest
  FailsWhenDown = TRUE
  MaxRequests = 3
  MaxFailures = 2
  MaxBusy = 1
INVARIANTS
  LiveDisplaysEstablished
PROPERTIES
  RecordsFenced
  RequestsServed
  RetirementCompletes
CHECK_DEADLOCK FALSE
