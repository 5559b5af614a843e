SPECIFICATION LoopSpec
CONSTANTS
  Interval = 4
  Kinds = {"icmp", "mtr", "tcp", "dns", "http"}
  Pings = 2
  Timeout = 1
  Spacing = 1
  HTTPRequests = 2
  SeqSpace = 8
  WalkRounds = 2
  WalkDepth = 2
  TraceTimeout = 1
  TraceSpacing = 0
  Sinks = 2
  MaxCyclesPerBatch = 1
  MaxPingsPerCycle = 2
  MaxTraceRounds = 2
  MaxTraceTTL = 2
  MaxRTTsPerHop = 2
  MaxHTTPSamplesPerCycle = 2
  MaxSampleRTT = 4
  MaxCounter = 2
  MaxHopIndex = 2
  MaxInterfaceNameLen = 1
  MaxCycleAge = 6
  MaxFutureSkew = 2
  StoreSources = {1, 2}
  MaxCycleCounterKeys = 1
  StatusCycles = 2
  StatusMaxSources = 1
  SparkBuckets = 2
  FutureSkew = 1
  Second = 2
  Tables <- MCTables
  WindowEnd = 4
  Step = 2
  Spans <- MCSpans
  ScheduleIntervals <- MCIntervals
CHECK_DEADLOCK FALSE
INVARIANTS LoopInv MeasuredOnly PathIsReal RecordArrives ViewsAgree GridsFit
PROPERTIES LoopLives
