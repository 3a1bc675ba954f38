SPECIFICATION ArrivalSpec
CONSTANTS
  d1 = d1  d2 = d2  d3 = d3  p1 = p1  p2 = p2  q1 = q1  e1 = e1
  Displays = {d1, d2, d3}
  Places = {p1, p2, q1}
  Scalings = {0, 1, 2}
  MaxValue = 500000
  Descriptors <- MCDescriptors
  EdidOf <- MCEdidOf
  TimingOf <- MCTimingOf
  Covers <- MCCovers
  FirstPlaces <- MCFirstPlaces
  FirstAges <- MCFirstAges
  MaxArrivals = 2
  MaxAttempts = 1
  MaxDisturbances = 1
  NoMode = NoMode
  NoDisplay = NoDisplay
  NoPlace = NoPlace
  NoScaling = NoScaling
INVARIANTS
  ListsUsable
  SettingsRetained
CHECK_DEADLOCK FALSE
