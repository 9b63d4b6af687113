\* Each operator with a few events, its caps and thresholds within their reach.
CONSTANTS
  Operators <- AllOperators
  TimeOf <- Times
  EventsOf <- Events
  MaxTime = 6
  MaxEvents = 5
  Flows <- SomeFlows
  Hosts = {h1, h2}
  Ports = {p1, p2}
  Outcomes = {"failed"}
  Authorized = FALSE
  Loads = {"flow", "syn", "more"}
  External = TRUE
  Periodic = FALSE
  Dsts = {h1, h2}
  Amounts = {2}
  Handshakes <- SomeHandshakes
  MinScore = 1
  MinPositive = 2
  Names = {n1, n2, n3}
  Dense = {n1}
  HighBytes = 3
  Domains = {h1, h2, h3}
  None = None
  OutOfOrderness = 1
  FlowIdle = 2
  FlowTombstone = 1
  FlowStep = 2
  ScanHorizon = 2
  ScanHosts = 2
  ScanPorts = 2
  ScanPairCap = 3
  ScanStep = 2
  DdosMinFlows = 2
  DdosWarmup = 1
  DdosGap = 1
  DdosIdle = 2
  DdosStep = 2
  KeepBuckets = 2
  DdosWindow = 1
  BeaconMinEvents = 3
  BeaconMaxEvents = 4
  BeaconIdle = 2
  BeaconStep = 2
  DnsWindow = 2
  DnsLabelCap = 2
  TunnelLabels = 2
  BurstDomains = 2
  BurstLike = 1
  BurstDomainCap = 2
  ModelErrors = 2
  TlsHorizon = 2
  TlsSessions = 2
  TlsManySessions = 3
  TlsStep = 2
  ExfilWindow = 2
  ExfilMinBytes = 2
  ExfilMinSpan = 1
  ExfilMinRecords = 2
  ExfilDstCap = 1
  ExfilMaxRecords = 2
  ExfilWarmup = 1
  ExfilIdle = 2
  ExfilStep = 2
SPECIFICATION Spec
INVARIANTS
  BytesCountedOnce
  WindowsAreExact
  CountsAreExact
  EpisodeShown
  ModelGivesUp
  SilentIsForgotten
CHECK_DEADLOCK FALSE
