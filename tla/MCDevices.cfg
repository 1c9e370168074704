SPECIFICATION Spec
CONSTANTS
  Threads = {t1, t2}
  Prints <- MCPrints
  Reads = {0, 2}
  Input <- MCInput
  MaxDisplay = 3
  Eof = eof
  Clients = {c1, c2}
  NumTracks = 2
  SectorsPerTrack = 2
  RotationTime = 2
  SeekTime = 1
  MaxTicks = 6
  Machines = {"m1", "m2"}
  Senders = {"s1", "s2"}
  Home <- MCHome
  Boxes = {"b"}
  MaxMail = 2
  MaxStarts = 2
  Polls = {"keyboard"}
  Completions = {"disk"}
  Delays = {1, 3}
  UserTick = 1
  SystemTick = 2
  MaxTime = 6
  Callers = {p1, p2}
  Names = {"mutex", "long", "longer"}
  LongNames = {"long", "longer"}
  Inits <- MCInits
  MaxSemaphore = 2
  MaxSignals = 2
INVARIANTS
  ConsoleSafe
  DiskSafe
  MailSafe
  ClockSafe
  SemaphoresSafe
PROPERTIES
  DevicesServe
CHECK_DEADLOCK FALSE
