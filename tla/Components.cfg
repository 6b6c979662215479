CONSTANTS
  Browsers = {b1, b2}
  Streamed = {m1}
  Typed = {t1}
  HistoryMax = 1
  MaxRetries = 1
  MaxDrops = 1
  Requests = {q1, q2}
  NoToken = NoToken
  MaxTimes = 1
  Jobs = {j1, j2}
  Cleanups = {"thread", "branch"}
  NoJob = NoJob
  MaxFails = 2
  Tasks = {d1, d2}
  MaxTries = 2
  Deliveries = {h1}
  Tries = {1, 2, 3}
  Matched = 2
  Loads = {"job", "push", "cleanup", "both", "bad"}
  MaxErrors = 2
  Keys = {k1, k2}
  MaxHooks = 2
  MaxJobRetries = 2
  MaxFaults = 2
  Instances = {i1, i2}
  ra = ra
  rb = rb
  Installed <- TwoRepos
  Calls = {c1}
  TickAt = 1
  Ttl = 2
  NoTick = NoTick
  MaxMinute = 3
  MaxFailures = 1
  Callers = {a1, a2}
  MaxRequests = 1
  Window = 2
  Timeout = 2
  MaxTime = 4
  MaxCalls = 2
  WorkflowOrder <- Yaml
  Triggers <- YamlTriggers
  CommandsOf <- YamlCommands
  FiltersOf <- YamlFilters
  SkipSelf = {"triage", "review"}
  AutoContinue = {"triage"}
  Webhooks <- Hooks
  None = None
  MaxDeliveries = 2
  MaxStops = 2
  Nobody = Nobody
  MaxLines = 2
  MaxSlips = 1
SPECIFICATION Spec
CHECK_DEADLOCK FALSE
INVARIANTS
  TypeOK
  FeedComplete
  SessionReachable
  NoEternalKey
  
  ClosedWhenQuiet
  QueuedOnce
  RetryAccepted
  
  
  
  ThreadRefAgree
  TracedOnce
