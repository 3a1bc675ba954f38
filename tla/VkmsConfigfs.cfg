SPECIFICATION ConfigfsSpec
CONSTANTS
  p1 = p1  p2 = p2  c1 = c1  c2 = c2  e1 = e1  e2 = e2  n1 = n1
  small = small  usual = usual
  Planes = {p1, p2}
  Crtcs = {c1, c2}
  Encoders = {e1, e2}
  Connectors = {n1}
  Modes <- MCModes
  PoolModes <- MCPoolModes
  UsualSize = usual
  NoMode = NoMode
  NoDevice = NoDevice
  a1 = a1  a2 = a2
  Addresses = {a1, a2}
  MaxHeld = 1
SYMMETRY Symmetry
INVARIANTS
  ConfigurationSound
