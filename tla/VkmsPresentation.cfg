SPECIFICATION Spec
CONSTANTS
  f1 = f1  f2 = f2  w1 = w1  w2 = w2  r1 = r1
  Notifier = Notifier  Quiescer = Quiescer
  Framebuffers = {f1, f2}
  NoFramebuffer = NoFramebuffer
  Client = Client
  Closers = {}
  Destroyer = Destroyer
  Quiescers = {}
  NoThread = NoThread
  Waiters = {w1, w2}
  Readers = {r1}
  MaxWaiters = 1
  HistorySize = 2
  MaxEvents = 1
  MaxCommits = 3
  MaxTime = 4
INVARIANTS
  CountersExact
  PresentationsMatchFlips
  NoSleeperLeftBehind
  TraceRepliesComplete
CHECK_DEADLOCK FALSE
