---------------------------- MODULE DetectConfig ----------------------------
(***************************************************************************)
(* The configuration of the detectors (config.py), as far as their state   *)
(* depends on it, and the grids of their timers.                           *)
(***************************************************************************)
EXTENDS Integers

CONSTANTS
  OutOfOrderness,                                  \* of the events of a partition
  FlowIdle, FlowTombstone, FlowStep,               \* flowdelta.py
  ScanHorizon, ScanHosts, ScanPorts, ScanPairCap, ScanStep, \* scan.py
  DdosMinFlows, DdosWarmup, DdosGap, DdosIdle, DdosStep, KeepBuckets, DdosWindow, \* ddos.py
  BeaconMinEvents, BeaconMaxEvents, BeaconIdle, BeaconStep, \* beacon.py
  DnsWindow, DnsLabelCap, TunnelLabels, BurstDomains, BurstLike, BurstDomainCap, ModelErrors, \* dns.py
  TlsHorizon, TlsSessions, TlsManySessions, TlsStep, \* encrypted.py
  ExfilWindow, ExfilMinBytes, ExfilMinSpan, ExfilMinRecords, ExfilDstCap, ExfilMaxRecords, ExfilWarmup, ExfilIdle, ExfilStep \* exfil.py

Sizes == {OutOfOrderness, FlowIdle, FlowTombstone, ScanHorizon, DdosGap, DdosIdle, DdosWindow,
          DdosWarmup, BeaconIdle, TlsHorizon, ExfilWarmup, ExfilIdle, ExfilMinSpan}

Counts == {FlowStep, ScanHosts, ScanPorts, ScanPairCap, ScanStep, DdosMinFlows, DdosStep,
           KeepBuckets, BeaconMinEvents, BeaconMaxEvents, BeaconStep, DnsWindow, DnsLabelCap,
           TunnelLabels, BurstDomains, BurstLike, BurstDomainCap, ModelErrors, TlsSessions,
           TlsManySessions, TlsStep, ExfilWindow, ExfilMinBytes, ExfilMinRecords, ExfilDstCap,
           ExfilMaxRecords, ExfilStep}

\* Durations may be zero, grids, caps and thresholds may not, one connection has
\* no intervals to look at, and the seconds kept are those of a window and of events
\* out of order.
ASSUME ConfigAssumption ==
  Sizes \subseteq Nat /\ Counts \subseteq Nat \ {0} /\ BeaconMinEvents > 1
  /\ DdosWindow <= KeepBuckets /\ OutOfOrderness <= KeepBuckets

=============================================================================
