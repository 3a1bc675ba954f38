SPECIFICATION FairSpec
CONSTANTS
  d1 = d1
  DisplayIds <- OneDisplay
  LeaseIds = {l1, l2}
  Capabilities = {o1}
  Edids = {1, 2, 3}
  RetainedEdid <- MCOneEdid
  EphemeralEdid <- MCEphemeralEdid
  MaxPermanent = 1
  MaxTemporary = 1
  MaxIndex = 9
  DefaultTimeout = 2
  MinTimeout = 1
  MaxTimeout = 2
  RequestedTimeouts = {0}
  NoDisplay = NoDisplay
  NoLease = NoLease
  NoCapability = NoCapability
  NoConnector = NoConnector
  MaxGeneration = 2
  MaxEphemeral = 0
  MaxTime = 2
  MaxClockLag = 1
  Peers = {p1, p2}
  MaxCookie = 2
  MaxRing = 2
  NoEntry = NoEntry
  NoRing = NoRing
INVARIANTS
  OpenRingsAccountedFor
PROPERTIES
  LateDuplicatesFenced
  LostOwnersRetired
CHECK_DEADLOCK FALSE
