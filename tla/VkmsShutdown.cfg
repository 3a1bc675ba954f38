SPECIFICATION FairSpec
CONSTANTS
  f1 = f1  f2 = f2  w1 = w1  w2 = w2  r1 = r1
  Notifier = Notifier  Quiescer = Quiescer
  Framebuffers = {f1, f2}
  NoFramebuffer = NoFramebuffer
  Client = Client
  Closers = {Notifier, Destroyer, Quiescer}
  Destroyer = Destroyer
  Quiescers = {Quiescer}
  NoThread = NoThread
  Waiters = {}
  Readers = {}
  MaxWaiters = 1
  HistorySize = 2
  MaxEvents = 1
  MaxCommits = 2
  MaxTime = 3
INVARIANTS
  ReleasedForGood
PROPERTIES
  ClosersFinish
CHECK_DEADLOCK FALSE
