------------------------------ MODULE Detection ------------------------------
(***************************************************************************)
(* The keyed operators of the job (job.py).  Operators and keys share      *)
(* nothing but the watermark, so that one key of one operator at a time,   *)
(* fed with what its upstream operators let through, is all there is.      *)
(***************************************************************************)
EXTENDS KeyedOperator

CONSTANTS
  Operators,                                     \* those to look at
  TimeOf, EventsOf,                              \* the bounds of each
  Flows,                                         \* flow-delta
  Hosts, Ports, Outcomes, Authorized,            \* detect-scan
  Loads,                                         \* detect-ddos
  External, Periodic,                            \* detect-beacon, detect-encrypted
  Dsts, Amounts,                                 \* detect-exfil
  Handshakes, MinScore, MinPositive,             \* detect-encrypted
  Names, Dense, HighBytes,                       \* detect-dns-domain
  Domains                                        \* detect-dga-burst

VARIABLES
  op,   \* the operator
  model \* the model of the subtask (detect-dga-burst)

FlowDelta == INSTANCE FlowDelta WITH MaxTime <- TimeOf["flow"], MaxEvents <- EventsOf["flow"]
Scan      == INSTANCE Scan WITH MaxTime <- TimeOf["scan"], MaxEvents <- EventsOf["scan"]
Ddos      == INSTANCE Ddos WITH MaxTime <- TimeOf["ddos"], MaxEvents <- EventsOf["ddos"]
Beacon    == INSTANCE Beacon WITH MaxTime <- TimeOf["beacon"], MaxEvents <- EventsOf["beacon"]
Exfil     == INSTANCE Exfil WITH MaxTime <- TimeOf["exfil"], MaxEvents <- EventsOf["exfil"]
Encrypted == INSTANCE Encrypted WITH MaxTime <- TimeOf["encrypted"], MaxEvents <- EventsOf["encrypted"]
DnsDomain == INSTANCE DnsDomain WITH MaxTime <- TimeOf["dns"], MaxEvents <- EventsOf["dns"]
DgaBurst  == INSTANCE DgaBurst WITH MaxTime <- TimeOf["burst"], MaxEvents <- EventsOf["burst"]

\* The operators are those of the job; the inputs have the fields that are read, and
\* None is no state.
ASSUME DetectionAssumption ==
  /\ Operators \subseteq {"flow", "scan", "ddos", "beacon", "exfil", "encrypted", "dns", "burst"}
  /\ \A flow \in Flows : flow \subseteq FlowDelta!Record
  /\ None \notin FlowDelta!FlowState /\ None \notin Beacon!PairState
  /\ None \notin Ddos!TargetState /\ None \notin Scan!ScanState
  /\ None \notin Encrypted!PairState /\ None \notin Exfil!SourceState
  /\ None \notin DnsDomain!WindowState
  /\ Handshakes \ {None} \subseteq [score: Nat, positives: Nat] /\ Amounts \subseteq Nat

NoModel == [active |-> FALSE, errors |-> 0]

Init ==
  /\ op \in Operators
  /\ CASE op = "flow"      -> FlowDelta!Init /\ model = NoModel
       [] op = "scan"      -> Scan!Init /\ model = NoModel
       [] op = "ddos"      -> Ddos!Init /\ model = NoModel
       [] op = "beacon"    -> Beacon!Init /\ model = NoModel
       [] op = "exfil"     -> Exfil!Init /\ model = NoModel
       [] op = "encrypted" -> Encrypted!Init /\ model = NoModel
       [] op = "dns"       -> DnsDomain!Init /\ model = NoModel
       [] op = "burst"     -> DgaBurst!Init

RunFlowDelta == op = "flow" /\ FlowDelta!Next /\ UNCHANGED <<op, model>>
RunScan      == op = "scan" /\ Scan!Next /\ UNCHANGED <<op, model>>
RunDdos      == op = "ddos" /\ Ddos!Next /\ UNCHANGED <<op, model>>
RunBeacon    == op = "beacon" /\ Beacon!Next /\ UNCHANGED <<op, model>>
RunExfil     == op = "exfil" /\ Exfil!Next /\ UNCHANGED <<op, model>>
RunEncrypted == op = "encrypted" /\ Encrypted!Next /\ UNCHANGED <<op, model>>
RunDnsDomain == op = "dns" /\ DnsDomain!Next /\ UNCHANGED <<op, model>>
RunDgaBurst  == op = "burst" /\ DgaBurst!Next /\ UNCHANGED op

Next ==
  \/ RunFlowDelta \/ RunScan \/ RunDdos \/ RunBeacon
  \/ RunExfil \/ RunEncrypted \/ RunDnsDomain \/ RunDgaBurst

Spec == Init /\ [][Next]_<<vars, op, model>>

-----------------------------------------------------------------------------
\* The bytes and packets of a flow are handed on once, whatever repeats or comes late
\* while the flow is known; again only of a flow that was short or forgotten, and
\* none is forgotten early (flowdelta.py:1-6).
BytesCountedOnce == op = "flow" => FlowDelta!CountedOnce

\* A window holds what was observed within it, however the events are out of order:
\* the horizon of a scan, the sliding window of uploads, the sessions that follow
\* one another.  A tumbling window of names holds its queries since the last one of
\* another window, no more and no fewer (scan.py, exfil.py, encrypted.py, dns.py).
WindowsAreExact ==
  /\ op = "scan" => Scan!HorizonIsExact
  /\ op = "exfil" => Exfil!WindowIsExact
  /\ op = "encrypted" => Encrypted!SessionsAreOneRun
  /\ op = "dns" => DnsDomain!WindowIsOneRun

\* What is counted on the way is what counting anew would give: hosts and ports,
\* the flows of a second and what the baseline learned of it, the latest starts of
\* connections, names asked for in vain (scan.py, ddos.py, beacon.py, dns.py).
CountsAreExact ==
  /\ op = "scan" => Scan!CountsAreExact
  /\ op = "ddos" => Ddos!SecondsAreExact
  /\ op = "beacon" => Beacon!StartsAreLatest
  /\ op = "burst" => DgaBurst!BurstIsExact

\* A flood's findings keep up with its evidence (ddos.py).
EpisodeShown == op = "ddos" => Ddos!EpisodeShown

\* The model is given up after errors in a row only (dga_model.py).
ModelGivesUp == op = "burst" => DgaBurst!ModelGivesUp

\* A key that falls silent is forgotten (docs/architecture.md:121), a pair that
\* connected too rarely to be looked at excepted.
SilentIsForgotten == IF op = "beacon" THEN Beacon!PairsAreForgotten ELSE NothingLeaks

\* The pairs that rarely connect are forgotten, too (docs/feature-catalog.md:64).
StateExpires == op = "beacon" => Beacon!StateExpires

=============================================================================
