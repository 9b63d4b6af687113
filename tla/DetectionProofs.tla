--------------------------- MODULE DetectionProofs ---------------------------
(***************************************************************************)
(* What holds of the keyed operators for every configuration, every bound  *)
(* and every input.                                                        *)
(***************************************************************************)
EXTENDS Detection, FiniteSetTheorems, SequenceTheorems, WellFoundedInduction, TLAPS

\* The operator stays the one it is.
LEMMA OneOperator ==
  Next => op' = op
BY DEF Next, RunFlowDelta, RunScan, RunDdos, RunBeacon, RunExfil, RunEncrypted, RunDnsDomain,
       RunDgaBurst

-----------------------------------------------------------------------------
(***************************************************************************)
(* The counters of a flow                                                  *)
(***************************************************************************)

FlowHistory ==
  [flow: Flows, counted: Nat, earlier: Nat, peak: Nat, dropped: Nat, announced: Nat,
   ended: Nat, known: Int]

FlowTypes == history \in FlowHistory /\ (state = None \/ state \in FlowDelta!FlowState)

\* The flow while it is kept: its counter is the highest count, and nothing up to
\* its sequence number, or nothing at all after its terminal record, was more.
FlowCounts ==
  /\ history.counted = history.earlier + history.peak
  /\ history.ended = 0 => history.earlier = 0 /\ (state = None => history.counted = 0)
  /\ history.announced = history.ended + (IF state = None THEN 0 ELSE 1)
  /\ state # None /\ ~state.term => FlowDelta!OrZero(state.count) = history.peak

FlowDrops ==
  /\ state = None /\ history.ended = 0 => history.dropped = 0
  /\ FlowDelta!Grows(history.flow) /\ history.ended = 0 =>
       /\ history.dropped <= history.peak
       /\ state # None =>
            \A q \in history.flow :
              state.term \/ (~q.terminal /\ q.seq <= state.seq) =>
                FlowDelta!OrZero(q.count) <= history.peak

FlowInv == FlowTypes /\ FlowCounts /\ FlowDrops

\* The configured durations and grids that the timers are set with (config.py).
LEMMA Durations ==
  /\ {FlowIdle, FlowTombstone, DdosIdle, ExfilIdle, TlsHorizon} \subseteq Nat
  /\ {FlowStep, ScanStep, DdosStep, ExfilStep, TlsStep, DnsWindow, ModelErrors} \subseteq Nat \ {0}
BY ConfigAssumption DEF Sizes, Counts

\* The maximum of two numbers is the greater of them.
LEMMA PairMax ==
  ASSUME NEW a \in Int, NEW b \in Int
  PROVE  Max({a, b}) = IF a >= b THEN a ELSE b
<1>1. \E x \in {a, b} : \A y \in {a, b} : x >= y
  <2>1. CASE a >= b
    BY <2>1
  <2>2. CASE b >= a
    BY <2>2
  <2> QED
    BY <2>1, <2>2
<1>2. Max({a, b}) \in {a, b} /\ \A y \in {a, b} : Max({a, b}) >= y
  BY <1>1 DEF Max
<1> QED
  BY <1>2

LEMMA FlowMax ==
  ASSUME NEW a \in Int, NEW b \in Int
  PROVE  FlowDelta!Max({a, b}) = IF a >= b THEN a ELSE b
<1>1. FlowDelta!Max({a, b}) = Max({a, b})
  BY DEF FlowDelta!Max, Max
<1> QED
  BY <1>1, PairMax

LEMMA DdosMax ==
  ASSUME NEW a \in Int, NEW b \in Int
  PROVE  Ddos!Max({a, b}) = IF a >= b THEN a ELSE b
<1>1. Ddos!Max({a, b}) = Max({a, b})
  BY DEF Ddos!Max, Max
<1> QED
  BY <1>1, PairMax

\* The fields of a record and of the state.
LEMMA FlowFields ==
  ASSUME FlowTypes, NEW r \in history.flow
  PROVE  /\ r \in FlowDelta!Record /\ r.terminal \in BOOLEAN /\ r.seq \in Nat /\ r.obs \in Nat
         /\ r.count = None \/ r.count \in Nat
         /\ FlowDelta!OrZero(r.count) \in Nat /\ FlowDelta!Before \in Nat
         /\ state # None => state.count \in Nat \cup {None} /\ state.seq \in Nat
                            /\ state.term \in BOOLEAN /\ state.last \in Nat
<1>1. r \in FlowDelta!Record
  BY DetectionAssumption DEF FlowTypes, FlowHistory
<1>2. /\ r.terminal \in BOOLEAN /\ r.seq \in Nat /\ r.obs \in Nat
      /\ r.count = None \/ r.count \in Nat
  BY <1>1 DEF FlowDelta!Record
<1>3. state # None => state.count \in Nat \cup {None} /\ state.seq \in Nat
                      /\ state.term \in BOOLEAN /\ state.last \in Nat
  BY DEF FlowTypes, FlowDelta!FlowState
<1> QED
  BY <1>1, <1>2, <1>3 DEF FlowDelta!OrZero, FlowDelta!Before

\* What the counting of a record leaves, field by field (flowdelta.py:83).
LEMMA CountedFields ==
  ASSUME FlowTypes, NEW r \in history.flow
  PROVE  LET c == FlowDelta!OrZero(r.count)
             p == IF state = None THEN 0 ELSE history.peak
         IN FlowDelta!Counted(r) =
              [flow |-> history.flow,
               counted |-> history.counted
                             + (IF c >= FlowDelta!Before THEN c - FlowDelta!Before ELSE 0),
               earlier |-> IF state = None THEN history.counted ELSE history.earlier,
               peak |-> IF p >= c THEN p ELSE c,
               dropped |-> history.dropped,
               announced |-> IF state = None THEN history.announced + 1 ELSE history.announced,
               ended |-> history.ended, known |-> history.known]
<1> DEFINE c == FlowDelta!OrZero(r.count)
           b == FlowDelta!Before
           p == IF state = None THEN 0 ELSE history.peak
           e == IF state = None THEN history.counted ELSE history.earlier
           m == FlowDelta!Max({p, c})
           d == FlowDelta!Delta(r)
           h == IF state = None THEN [history EXCEPT !.earlier = history.counted, !.peak = 0]
                ELSE history
<1>1. c \in Nat /\ b \in Nat /\ history \in FlowHistory
  BY FlowFields DEF FlowTypes
<1>2. p \in Nat
  BY <1>1 DEF FlowHistory
<1>3. m = IF p >= c THEN p ELSE c
  BY <1>1, <1>2, FlowMax
<1>4. d = IF c >= b THEN c - b ELSE 0
  <2>1. d = FlowDelta!Max({0, c - b})
    BY DEF FlowDelta!Delta
  <2>2. FlowDelta!Max({0, c - b}) = IF 0 >= c - b THEN 0 ELSE c - b
    BY <1>1, FlowMax
  <2> QED
    BY <1>1, <2>1, <2>2
<1>5. h = [flow |-> history.flow, counted |-> history.counted, earlier |-> e, peak |-> p,
           dropped |-> history.dropped, announced |-> history.announced,
           ended |-> history.ended, known |-> history.known]
  BY <1>1 DEF FlowHistory
<1>6. FlowDelta!Counted(r) =
        [h EXCEPT !.counted = @ + d, !.peak = FlowDelta!Max({@, c}),
                  !.announced = IF state = None THEN @ + 1 ELSE @]
  BY DEF FlowDelta!Counted
<1> HIDE DEF c, b, p, e, d, h
<1>7. FlowDelta!Counted(r) =
        [flow |-> history.flow, counted |-> history.counted + d, earlier |-> e, peak |-> m,
         dropped |-> history.dropped,
         announced |-> IF state = None THEN history.announced + 1 ELSE history.announced,
         ended |-> history.ended, known |-> history.known]
  BY <1>5, <1>6
<1> QED
  BY <1>3, <1>4, <1>7 DEF c, b, p, e

\* Nothing was counted or dropped of a flow that was not seen.
LEMMA FlowInit ==
  ASSUME FlowDelta!Init
  PROVE  FlowInv
<1>1. PICK flow \in Flows :
        /\ state = None
        /\ history = [flow |-> flow, counted |-> 0, earlier |-> 0, peak |-> 0, dropped |-> 0,
                      announced |-> 0, ended |-> 0, known |-> -1]
  BY DEF FlowDelta!Init, FlowDelta!Start
<1> QED
  BY <1>1 DEF FlowInv, FlowTypes, FlowHistory, FlowCounts, FlowDrops

\* A late or a repeated record is dropped; that is no more than what was counted
\* (flowdelta.py:88-94).
LEMMA FlowDropped ==
  ASSUME FlowInv, NEW r \in history.flow, FlowDelta!Late(r) \/ FlowDelta!Repeated(r)
  PROVE  FlowInv'
<1> DEFINE c == FlowDelta!OrZero(r.count)
           m == FlowDelta!Max({history.dropped, c})
<1>1. history \in FlowHistory /\ c \in Nat
  BY FlowFields DEF FlowInv, FlowTypes
<1>2. history.dropped \in Nat /\ history.peak \in Nat
  BY <1>1 DEF FlowHistory
<1>3. m = IF history.dropped >= c THEN history.dropped ELSE c
  BY <1>1, <1>2, FlowMax
<1>4. state # None /\ state' = state /\ history' = [history EXCEPT !.dropped = m]
  BY DEF FlowDelta!Late, FlowDelta!Repeated, FlowDelta!Dropped, FlowDelta!Ignore,
         FlowDelta!Handle
<1>5. state.term \/ (~r.terminal /\ r.seq <= state.seq)
  BY DEF FlowDelta!Late, FlowDelta!Repeated
<1> HIDE DEF m
<1>6. history' = [flow |-> history.flow, counted |-> history.counted,
                  earlier |-> history.earlier, peak |-> history.peak, dropped |-> m,
                  announced |-> history.announced, ended |-> history.ended,
                  known |-> history.known]
  BY <1>1, <1>4 DEF FlowHistory
<1>7. FlowTypes'
  BY <1>1, <1>2, <1>3, <1>4, <1>6 DEF FlowInv, FlowTypes, FlowHistory
<1>8. FlowCounts'
  BY <1>4, <1>6 DEF FlowInv, FlowCounts
<1>9. FlowDrops'
  <2>1. FlowDelta!Grows(history.flow) /\ history.ended = 0 => c <= history.peak
    BY <1>4, <1>5 DEF FlowInv, FlowDrops
  <2> QED
    BY <1>2, <1>3, <1>4, <1>6, <2>1 DEF FlowInv, FlowDrops
<1> QED
  BY <1>7, <1>8, <1>9 DEF FlowInv

\* What a counted record leaves in the history: the counts that were kept meet the
\* record's in their maximum, on top of what was counted before the flow was announced.
LEMMA FlowCounted ==
  ASSUME FlowInv, NEW r \in history.flow, state # None => ~state.term
  PROVE  LET c == FlowDelta!OrZero(r.count)
             p == IF state = None THEN 0 ELSE history.peak
             e == IF state = None THEN history.counted ELSE history.earlier
             m == IF p >= c THEN p ELSE c
         IN /\ FlowDelta!Before = p /\ p \in Nat /\ c \in Nat
            /\ e \in Nat /\ (history.ended = 0 => e = 0)
            /\ FlowDelta!Counted(r) =
                 [flow |-> history.flow, counted |-> e + m, earlier |-> e, peak |-> m,
                  dropped |-> history.dropped, announced |-> history.ended + 1,
                  ended |-> history.ended, known |-> history.known]
<1> DEFINE c == FlowDelta!OrZero(r.count)
           b == FlowDelta!Before
           p == IF state = None THEN 0 ELSE history.peak
           e == IF state = None THEN history.counted ELSE history.earlier
           d == IF c >= b THEN c - b ELSE 0
           a == IF state = None THEN history.announced + 1 ELSE history.announced
           m == IF p >= c THEN p ELSE c
<1>1. FlowTypes /\ history \in FlowHistory
  BY DEF FlowInv, FlowTypes
<1>2. c \in Nat /\ b \in Nat
  BY <1>1, FlowFields
<1>3. /\ history.peak \in Nat /\ history.ended \in Nat /\ history.announced \in Nat
      /\ history.counted \in Nat /\ history.earlier \in Nat
  BY <1>1 DEF FlowHistory
<1>4. b = p
  BY DEF FlowInv, FlowCounts, FlowDelta!Before
<1>5. FlowDelta!Counted(r) =
        [flow |-> history.flow, counted |-> history.counted + d, earlier |-> e, peak |-> m,
         dropped |-> history.dropped, announced |-> a, ended |-> history.ended,
         known |-> history.known]
  BY <1>1, CountedFields
<1>6. a = history.ended + 1
  BY <1>3 DEF FlowInv, FlowCounts
<1>7. p \in Nat /\ e \in Nat /\ (history.ended = 0 => e = 0)
  BY <1>3 DEF FlowInv, FlowCounts
<1>8. history.counted = e + p
  BY <1>3 DEF FlowInv, FlowCounts
<1> HIDE DEF c, b, p, e, a
<1>9. history.counted + d = e + m
  BY <1>2, <1>4, <1>7, <1>8
<1> HIDE DEF d, m
<1>10. FlowDelta!Counted(r) =
        [flow |-> history.flow, counted |-> e + m, earlier |-> e, peak |-> m,
         dropped |-> history.dropped, announced |-> history.ended + 1, ended |-> history.ended,
         known |-> history.known]
  BY <1>5, <1>6, <1>9
<1> QED
  BY <1>2, <1>4, <1>7, <1>10 DEF c, b, p, e, m

\* A snapshot's totals become the counters that are kept (flowdelta.py:97-120).
LEMMA FlowSnapshot ==
  ASSUME FlowInv, NEW r \in history.flow, FlowDelta!Snapshot(r)
  PROVE  FlowInv'
<1> DEFINE c == FlowDelta!OrZero(r.count)
           p == IF state = None THEN 0 ELSE history.peak
           e == IF state = None THEN history.counted ELSE history.earlier
           m == IF p >= c THEN p ELSE c
           k == FlowDelta!Merged(r)
<1>1. /\ ~r.terminal /\ (state # None => ~state.term /\ r.seq > state.seq)
      /\ state' = [count |-> k, seq |-> r.seq, term |-> FALSE, last |-> r.obs]
      /\ history' = [FlowDelta!Counted(r) EXCEPT !.known = r.obs + FlowIdle]
  BY DEF FlowDelta!Snapshot, FlowDelta!Handle
<1>2. FlowTypes /\ history \in FlowHistory
  BY DEF FlowInv, FlowTypes
<1>3. /\ r.seq \in Nat /\ r.obs \in Nat /\ (r.count = None \/ r.count \in Nat)
      /\ (state # None => state.count \in Nat \cup {None} /\ state.seq \in Nat)
  BY <1>2, FlowFields
<1>4. /\ FlowDelta!Before = p /\ p \in Nat /\ c \in Nat
      /\ e \in Nat /\ (history.ended = 0 => e = 0)
      /\ history' = [flow |-> history.flow, counted |-> e + m, earlier |-> e, peak |-> m,
                     dropped |-> history.dropped, announced |-> history.ended + 1,
                     ended |-> history.ended, known |-> r.obs + FlowIdle]
  <2>1. /\ FlowDelta!Before = p /\ p \in Nat /\ c \in Nat
        /\ e \in Nat /\ (history.ended = 0 => e = 0)
        /\ FlowDelta!Counted(r) =
             [flow |-> history.flow, counted |-> e + m, earlier |-> e, peak |-> m,
              dropped |-> history.dropped, announced |-> history.ended + 1,
              ended |-> history.ended, known |-> history.known]
    BY <1>1, FlowCounted
  <2> HIDE DEF c, p, e, m
  <2> QED
    BY <1>1, <2>1
<1>5. m \in Nat /\ m >= c /\ m >= p
  BY <1>4
<1>6. None \notin Nat
  BY BoundsAssumption
<1>7. k \in Nat \cup {None} /\ FlowDelta!OrZero(k) = m
  <2>1. CASE r.count # None
    <3>1. c = r.count
      BY <2>1 DEF FlowDelta!OrZero
    <3>2. k = m
      BY <1>4, <2>1, <3>1, FlowMax DEF FlowDelta!Merged
    <3> QED
      BY <1>5, <1>6, <3>2 DEF FlowDelta!OrZero
  <2>2. CASE r.count = None
    <3>1. c = 0 /\ m = p
      BY <1>4, <2>2 DEF FlowDelta!OrZero
    <3>2. k = IF state = None THEN None ELSE state.count
      BY <2>2 DEF FlowDelta!Merged
    <3>3. FlowDelta!OrZero(k) = p
      BY <1>1, <3>2 DEF FlowInv, FlowCounts, FlowDelta!OrZero
    <3> QED
      BY <1>3, <3>1, <3>2, <3>3
  <2> QED
    BY <2>1, <2>2
<1> HIDE DEF c, p, e, m, k
<1>8. state' \in FlowDelta!FlowState /\ state' # None
  <2>1. state' \in FlowDelta!FlowState
    BY <1>1, <1>3, <1>7 DEF FlowDelta!FlowState
  <2> QED
    BY <2>1, DetectionAssumption, Zenon
<1>9. FlowTypes'
  <2>1. r.obs + FlowIdle \in Int /\ e + m \in Nat
    BY <1>3, <1>4, <1>5, Durations
  <2> QED
    BY <1>2, <1>4, <1>5, <1>8, <2>1 DEF FlowTypes, FlowHistory
<1>10. FlowCounts'
  BY <1>1, <1>4, <1>7, <1>8 DEF FlowCounts
<1>11. FlowDrops'
  <2>1. ASSUME FlowDelta!Grows(history.flow), history.ended = 0
        PROVE  history.dropped <= m
    <3>1. history.dropped \in Nat
      BY <1>2 DEF FlowHistory
    <3>2. CASE state = None
      BY <1>5, <2>1, <3>1, <3>2 DEF FlowInv, FlowDrops
    <3>3. CASE state # None
      BY <1>4, <1>5, <2>1, <3>1, <3>3 DEF FlowInv, FlowDrops, p
    <3> QED
      BY <3>2, <3>3
  <2>2. ASSUME FlowDelta!Grows(history.flow), NEW q \in history.flow,
               ~q.terminal, q.seq <= r.seq
        PROVE  FlowDelta!OrZero(q.count) <= m
    <3>1. FlowDelta!OrZero(q.count) <= c
      BY <2>2 DEF FlowDelta!Grows, c
    <3>2. FlowDelta!OrZero(q.count) \in Nat
      BY <1>2, FlowFields
    <3> QED
      BY <1>4, <1>5, <3>1, <3>2
  <2> QED
    BY <1>1, <1>4, <1>8, <2>1, <2>2 DEF FlowDrops
<1> QED
  BY <1>9, <1>10, <1>11 DEF FlowInv

\* A terminal record is the last that counts, whether a state was there or not
\* (flowdelta.py:106-116).
LEMMA FlowTerminal ==
  ASSUME FlowInv, NEW r \in history.flow, FlowDelta!Terminal(r) \/ FlowDelta!ShortFlow(r)
  PROVE  FlowInv'
<1> DEFINE c == FlowDelta!OrZero(r.count)
           p == IF state = None THEN 0 ELSE history.peak
           e == IF state = None THEN history.counted ELSE history.earlier
           m == IF p >= c THEN p ELSE c
<1>1. r.terminal /\ (state # None => ~state.term)
  BY DEF FlowDelta!Terminal, FlowDelta!ShortFlow
<1>2. FlowTypes /\ history \in FlowHistory
  BY DEF FlowInv, FlowTypes
<1>3. /\ p \in Nat /\ c \in Nat
      /\ e \in Nat /\ (history.ended = 0 => e = 0)
      /\ FlowDelta!Counted(r) =
           [flow |-> history.flow, counted |-> e + m, earlier |-> e, peak |-> m,
            dropped |-> history.dropped, announced |-> history.ended + 1,
            ended |-> history.ended, known |-> history.known]
  BY <1>1, FlowCounted
<1>4. m \in Nat /\ m >= c /\ m >= p /\ e \in Nat /\ e + m \in Nat
  BY <1>3
<1>5. history.dropped \in Nat /\ history.ended \in Nat /\ history.known \in Int
  BY <1>2 DEF FlowHistory
<1> HIDE DEF c, p, e, m
<1>6. CASE FlowDelta!Terminal(r)
  <2>1. /\ state # None /\ state' = [state EXCEPT !.term = TRUE, !.last = r.obs]
        /\ history' = [FlowDelta!Counted(r) EXCEPT !.known = r.obs + FlowTombstone]
    BY <1>6 DEF FlowDelta!Terminal, FlowDelta!Handle
  <2>2. history' = [flow |-> history.flow, counted |-> e + m, earlier |-> e, peak |-> m,
                     dropped |-> history.dropped, announced |-> history.ended + 1,
                     ended |-> history.ended, known |-> r.obs + FlowTombstone]
    BY <1>3, <2>1
  <2>3. state' \in FlowDelta!FlowState /\ state'.term /\ state' # None
    BY <1>2, <2>1, FlowFields, DetectionAssumption DEF FlowTypes, FlowDelta!FlowState
  <2>4. FlowTypes'
    <3>1. r.obs + FlowTombstone \in Int
      BY <1>2, FlowFields, Durations
    <3> QED
      BY <1>2, <1>4, <1>3, <2>3, <2>2, <3>1 DEF FlowTypes, FlowHistory
  <2>5. FlowCounts'
    BY <1>3, <2>3, <2>2 DEF FlowCounts
  <2>6. ASSUME FlowDelta!Grows(history.flow), history.ended = 0
        PROVE  history.dropped <= m
    BY <1>3, <1>4, <1>5, <2>1, <2>6 DEF FlowInv, FlowDrops, p, FlowHistory
  <2>7. ASSUME FlowDelta!Grows(history.flow), NEW q \in history.flow
        PROVE  FlowDelta!OrZero(q.count) <= m
    <3>1. FlowDelta!OrZero(q.count) <= c
      BY <1>1, <2>7 DEF FlowDelta!Grows, c
    <3>2. FlowDelta!OrZero(q.count) \in Nat
      BY <1>2, FlowFields
    <3> QED
      BY <1>3, <1>4, <3>1, <3>2
  <2>8. FlowDrops'
    BY <1>3, <2>3, <2>6, <2>7, <2>2 DEF FlowDrops
  <2> QED
    BY <2>4, <2>5, <2>8 DEF FlowInv
<1>7. CASE FlowDelta!ShortFlow(r)
  <2>1. /\ state = None /\ state' = None
        /\ history' = [FlowDelta!Counted(r) EXCEPT !.ended = @ + 1]
    BY <1>7 DEF FlowDelta!ShortFlow, FlowDelta!Handle
  <2>2. history' = [flow |-> history.flow, counted |-> e + m, earlier |-> e, peak |-> m,
                    dropped |-> history.dropped, announced |-> history.ended + 1,
                    ended |-> history.ended + 1, known |-> history.known]
    BY <1>3, <2>1
  <2>3. history.ended + 1 # 0
    BY <1>5
  <2>4. FlowTypes'
    <3>1. history.flow \in Flows /\ history.ended + 1 \in Nat
      BY <1>2, <1>5 DEF FlowHistory
    <3>2. history' \in FlowHistory
      BY <1>4, <1>5, <2>2, <3>1 DEF FlowHistory
    <3> QED
      BY <2>1, <3>2 DEF FlowTypes
  <2>5. FlowCounts'
    BY <1>5, <2>1, <2>2, <2>3 DEF FlowCounts
  <2>6. FlowDrops'
    BY <2>1, <2>2, <2>3 DEF FlowDrops
  <2> QED
    BY <2>4, <2>5, <2>6 DEF FlowInv
<1> QED
  BY <1>6, <1>7

\* A timer forgets the flow or leaves everything as it is (flowdelta.py:125-138).
LEMMA FlowTimer ==
  ASSUME FlowInv, FlowDelta!OnTimer
  PROVE  FlowInv'
<1>1. \/ state' = state /\ history' = history
      \/ state # None /\ state' = None /\ history' = [history EXCEPT !.ended = @ + 1]
  BY DEF FlowDelta!OnTimer, FlowDelta!Expire, FlowDelta!Tick
<1>2. CASE state' = state /\ history' = history
  BY <1>2 DEF FlowInv, FlowTypes, FlowCounts, FlowDrops
<1>3. CASE state # None /\ state' = None /\ history' = [history EXCEPT !.ended = @ + 1]
  <2>1. history \in FlowHistory
    BY DEF FlowInv, FlowTypes
  <2>2. history.ended \in Nat /\ history.ended + 1 # 0
    BY <2>1 DEF FlowHistory
  <2>3. history' = [flow |-> history.flow, counted |-> history.counted,
                    earlier |-> history.earlier, peak |-> history.peak,
                    dropped |-> history.dropped, announced |-> history.announced,
                    ended |-> history.ended + 1, known |-> history.known]
    BY <1>3, <2>1 DEF FlowHistory
  <2>4. FlowTypes'
    BY <1>3, <2>1, <2>2, <2>3 DEF FlowTypes, FlowHistory
  <2>5. FlowCounts'
    BY <1>3, <2>2, <2>3 DEF FlowInv, FlowCounts
  <2>6. FlowDrops'
    BY <1>3, <2>2, <2>3 DEF FlowDrops
  <2> QED
    BY <2>4, <2>5, <2>6 DEF FlowInv
<1> QED
  BY <1>1, <1>2, <1>3

LEMMA FlowInvPreserved ==
  ASSUME FlowInv, FlowDelta!Next
  PROVE  FlowInv'
<1>1. CASE FlowDelta!OnTimer
  BY <1>1, FlowTimer
<1>2. CASE \E r \in history.flow : FlowDelta!Receive(r)
  <2>1. PICK r \in history.flow : FlowDelta!Receive(r)
    BY <1>2
  <2> QED
    BY <2>1, FlowDropped, FlowSnapshot, FlowTerminal, Zenon DEF FlowDelta!Receive
<1> QED
  BY <1>1, <1>2, Zenon DEF FlowDelta!Next

-----------------------------------------------------------------------------
(***************************************************************************)
(* Timers                                                                  *)
(***************************************************************************)

\* No timer is overdue, so that those of a tick are of one instant.
TimersAhead == watermark \in Int /\ \A t \in timers : t \in Int /\ t > watermark

\* The key has the timer that is set for the deadline d.
Awaits(d, step) == d \in Nat /\ BucketUp(d, step) \in timers

\* A timer lies beyond the time it is set for (harness.py:81).
LEMMA TimerBeyond ==
  ASSUME NEW d \in Nat, NEW step \in Nat \ {0}
  PROVE  BucketUp(d, step) \in Int /\ BucketUp(d, step) > d
<1>1. d = step * (d \div step) + (d % step) /\ d % step < step /\ d \div step \in Nat
  OBVIOUS
<1>2. (d \div step + 1) * step = step * (d \div step) + step
  BY <1>1
<1>3. step * (d \div step) \in Nat
  BY <1>1
<1> QED
  BY <1>1, <1>2, <1>3 DEF BucketUp

\* An event sets the timer of a deadline that is not over.
LEMMA TimerSet ==
  ASSUME TimersAhead, NEW d \in Nat, NEW step \in Nat \ {0}, d >= watermark,
         watermark' = watermark, timers' = timers \cup {BucketUp(d, step)}
  PROVE  TimersAhead' /\ BucketUp(d, step) \in timers'
<1>1. BucketUp(d, step) \in Int /\ BucketUp(d, step) > watermark
  BY TimerBeyond DEF TimersAhead
<1> QED
  BY <1>1 DEF TimersAhead

\* The timers that are due are those of the next instant.
LEMMA DueNow ==
  ASSUME TimersAhead
  PROVE  Due = {} \/ (Due = {watermark + 1} /\ Max(Due) = watermark + 1)
<1>1. Due \subseteq {watermark + 1}
  BY DEF TimersAhead, Due
<1>2. ASSUME Due = {watermark + 1}
      PROVE  Max(Due) = watermark + 1
  <2>1. watermark + 1 >= watermark + 1
    BY DEF TimersAhead
  <2> QED
    BY <1>2, <2>1 DEF Max
<1> QED
  BY <1>1, <1>2

\* A tick leaves the timers that are not due.
LEMMA TimersTick ==
  ASSUME TimersAhead, watermark' = watermark + 1, timers' = timers \ Due
  PROVE  TimersAhead'
BY DEF TimersAhead, Due

\* A tick that does not pass the deadline leaves its timer.
LEMMA TimerPassed ==
  ASSUME TimersAhead, NEW d, NEW step \in Nat \ {0}, Awaits(d, step),
         timers' = timers \ Due, ~(Due # {} /\ d < Max(Due))
  PROVE  d \in Nat /\ BucketUp(d, step) \in timers'
<1>1. /\ BucketUp(d, step) \in timers /\ BucketUp(d, step) \in Int
      /\ BucketUp(d, step) > d /\ d \in Nat
  BY TimerBeyond DEF Awaits
<1>2. BucketUp(d, step) \notin Due
  <2> SUFFICES ASSUME BucketUp(d, step) \in Due
               PROVE  FALSE
    OBVIOUS
  <2>1. BucketUp(d, step) = watermark + 1 /\ Max(Due) = watermark + 1
    BY DueNow
  <2> QED
    BY <1>1, <2>1
<1> QED
  BY <1>1, <1>2

\* No more does one that does not reach it.
LEMMA TimerStays ==
  ASSUME TimersAhead, NEW d, NEW step \in Nat \ {0}, Awaits(d, step),
         timers' = timers \ Due, ~(Due # {} /\ d <= Max(Due))
  PROVE  d \in Nat /\ BucketUp(d, step) \in timers'
<1>1. Due # {} => d \in Int /\ Max(Due) \in Int
  BY DueNow DEF TimersAhead, Awaits
<1>2. ~(Due # {} /\ d < Max(Due))
  BY <1>1
<1> QED
  BY <1>2, TimerPassed, Zenon

\* So the deadline of a key that is still there is to come.
LEMMA AwaitsNothingLeaks ==
  ASSUME TimersAhead, NEW d, NEW step, Awaits(d, step)
  PROVE  \E t \in timers : t > watermark
BY DEF TimersAhead, Awaits

\* A flow waits to be forgotten, after its terminal record for another time, and is
\* not before that is over.
FlowWaits ==
  /\ state # None =>
       /\ Awaits(state.last + FlowDelta!Limit, FlowStep)
       /\ history.known = state.last + FlowDelta!Limit
  /\ watermark < history.known => state # None

LEMMA FlowWaiting ==
  ASSUME FlowInv, TimersAhead, FlowWaits, FlowDelta!Next
  PROVE  TimersAhead' /\ FlowWaits'
<1>0. history.known \in Int /\ watermark \in Int
  BY DEF FlowInv, FlowTypes, FlowHistory, TimersAhead
<1>1. CASE FlowDelta!OnTimer
  <2>1. /\ watermark' = watermark + 1 /\ timers' = timers \ Due
        /\ \/ /\ state # None /\ state' = None /\ Due # {}
              /\ state.last + FlowDelta!Limit <= Max(Due)
              /\ history' = [history EXCEPT !.ended = @ + 1]
           \/ /\ state' = state /\ history' = history
              /\ state # None => ~(Due # {} /\ state.last + FlowDelta!Limit <= Max(Due))
    BY <1>1 DEF FlowDelta!OnTimer, FlowDelta!Expire, FlowDelta!Tick, FlowDelta!Due, Due,
                FlowDelta!Max, Max
  <2>2. CASE state # None /\ state' = state
    <3> DEFINE d == state.last + FlowDelta!Limit
    <3>1. d \in Nat /\ BucketUp(d, FlowStep) \in timers /\ history.known = d
      BY <2>2 DEF FlowWaits, Awaits
    <3>2. state' # None /\ (state.last + FlowDelta!Limit)' = d
      BY <2>2 DEF FlowDelta!Limit
    <3>3. ~(Due # {} /\ d <= Max(Due)) /\ history' = history
      BY <2>1, <2>2
    <3> HIDE DEF d
    <3>4. BucketUp(d, FlowStep) \in timers'
      BY <2>1, <3>1, <3>3, Durations, TimerStays, Zenon DEF Awaits
    <3> QED
      BY <2>1, <3>1, <3>2, <3>3, <3>4, TimersTick DEF FlowWaits, Awaits, BucketUp
  <2>3. CASE state # None /\ state' = None
    <3> DEFINE d == state.last + FlowDelta!Limit
    <3>1. d \in Nat /\ history.known = d
      BY <2>3 DEF FlowWaits, Awaits
    <3>2. d <= Max(Due) /\ Max(Due) = watermark + 1
      BY <2>1, <2>3, DueNow
    <3>3. history'.known = history.known
      BY <2>1, <2>3 DEF FlowInv, FlowTypes, FlowHistory
    <3> HIDE DEF d
    <3>4. ~(watermark' < history'.known)
      BY <1>0, <2>1, <3>1, <3>2, <3>3
    <3> QED
      BY <2>1, <2>3, <3>4, TimersTick DEF FlowWaits
  <2>4. CASE state = None
    <3>1. state' = state /\ history' = history
      BY <2>1, <2>4
    <3>2. ~(watermark' < history'.known)
      BY <1>0, <2>1, <2>4, <3>1 DEF FlowWaits
    <3> QED
      BY <2>1, <2>4, <3>1, <3>2, TimersTick DEF FlowWaits
  <2> QED
    BY <2>1, <2>2, <2>3, <2>4
<1>2. CASE \E r \in history.flow : FlowDelta!Receive(r)
  <2>1. PICK r \in history.flow : FlowDelta!Receive(r)
    BY <1>2
  <2>2. r.obs \in Nat /\ r.terminal \in BOOLEAN /\ FlowTypes
    BY FlowFields DEF FlowInv
  <2>3. CASE FlowDelta!Late(r) \/ FlowDelta!Repeated(r) \/ FlowDelta!ShortFlow(r)
    <3>1. watermark' = watermark /\ timers' = timers /\ state' = state
      BY <2>3 DEF FlowDelta!Late, FlowDelta!Repeated, FlowDelta!Dropped, FlowDelta!Ignore,
                  FlowDelta!ShortFlow, FlowDelta!Handle
    <3>2. history'.known = history.known
      <4>1. CASE FlowDelta!Late(r) \/ FlowDelta!Repeated(r)
        BY <2>2, <4>1 DEF FlowDelta!Late, FlowDelta!Repeated, FlowDelta!Dropped,
                          FlowDelta!Ignore, FlowDelta!Handle, FlowTypes, FlowHistory
      <4>2. CASE FlowDelta!ShortFlow(r)
        <5> DEFINE h == FlowDelta!Counted(r)
        <5>1. history' = [h EXCEPT !.ended = @ + 1]
          BY <4>2 DEF FlowDelta!ShortFlow, FlowDelta!Handle
        <5>2. h.known = history.known
          BY <2>2, CountedFields
        <5> HIDE DEF h
        <5> QED
          BY <5>1, <5>2
      <4> QED
        BY <2>3, <4>1, <4>2
    <3> QED
      BY <3>1, <3>2 DEF TimersAhead, FlowWaits, Awaits, FlowDelta!Limit
  <2>4. CASE FlowDelta!Snapshot(r) \/ FlowDelta!Terminal(r)
    <3> DEFINE limit == IF r.terminal THEN FlowTombstone ELSE FlowIdle
               h == FlowDelta!Counted(r)
    <3>1. /\ watermark' = watermark /\ r.obs > watermark
          /\ timers' = timers \cup {BucketUp(r.obs + limit, FlowStep)}
          /\ history' = [h EXCEPT !.known = r.obs + limit]
      BY <2>4 DEF FlowDelta!Snapshot, FlowDelta!Terminal, FlowDelta!Handle, FlowDelta!BucketUp,
                  BucketUp
    <3>2. limit \in Nat /\ r.obs + limit \in Nat /\ r.obs + limit >= watermark
      BY <2>2, <3>1, Durations DEF TimersAhead
    <3>3. state'.last = r.obs /\ state'.term = r.terminal
      <4>1. CASE FlowDelta!Snapshot(r)
        BY <2>2, <4>1 DEF FlowDelta!Snapshot, FlowDelta!Handle
      <4>2. CASE FlowDelta!Terminal(r)
        <5>1. state \in FlowDelta!FlowState /\ state' = [state EXCEPT !.term = TRUE, !.last = r.obs]
          BY <2>2, <4>2 DEF FlowTypes, FlowDelta!Terminal, FlowDelta!Handle
        <5>2. state'.last = r.obs /\ state'.term = TRUE
          BY <5>1 DEF FlowDelta!FlowState
        <5> QED
          BY <2>2, <4>2, <5>2 DEF FlowDelta!Terminal
      <4> QED
        BY <2>4, <4>1, <4>2
    <3>4. (state.last + FlowDelta!Limit)' = r.obs + limit
      BY <3>3 DEF FlowDelta!Limit
    <3>5. history'.known = r.obs + limit /\ state' # None
      <4>1. state # None => ~state.term
        BY <2>4 DEF FlowDelta!Snapshot, FlowDelta!Terminal
      <4>2. /\ "known" \in DOMAIN h /\ h.announced = history.ended + 1
            /\ h.ended = history.ended /\ history.ended \in Nat
        BY <2>2, <4>1, FlowCounted DEF FlowTypes, FlowHistory
      <4> HIDE DEF h, limit
      <4>3. /\ history'.known = r.obs + limit /\ history'.announced = history.ended + 1
            /\ history'.ended = history.ended
        BY <3>1, <4>2
      <4>4. history'.announced = history'.ended + (IF state' = None THEN 0 ELSE 1)
        BY FlowInvPreserved DEF FlowInv, FlowCounts
      <4> QED
        BY <4>2, <4>3, <4>4
    <3> HIDE DEF limit
    <3>6. TimersAhead' /\ BucketUp(r.obs + limit, FlowStep) \in timers'
      BY <3>1, <3>2, Durations, TimerSet, Zenon
    <3> QED
      BY <3>2, <3>4, <3>5, <3>6 DEF FlowWaits, Awaits, BucketUp
  <2> QED
    BY <2>1, <2>3, <2>4 DEF FlowDelta!Receive
<1> QED
  BY <1>1, <1>2 DEF FlowDelta!Next

\* The state has the field of the time that the timer counts from.
Has(field) == state # None => field \in DOMAIN state

\* A pair's TLS sessions wait for the horizon after the last one.
EncryptedWaits ==
  Has("last") /\ (state # None => Awaits(state.last + TlsHorizon, TlsStep))

LEMMA EncryptedWaiting ==
  ASSUME TimersAhead, EncryptedWaits, Encrypted!Next
  PROVE  TimersAhead' /\ EncryptedWaits'
<1>1. CASE Encrypted!OnTimer
  <2>1. /\ watermark' = watermark + 1 /\ timers' = timers \ Due
        /\ \/ state' = None
           \/ state' = state /\ (state # None => ~(Due # {} /\ state.last + TlsHorizon <= Max(Due)))
    BY <1>1 DEF Encrypted!OnTimer, Encrypted!Expire, Encrypted!Tick, Encrypted!Due, Due,
                Encrypted!Max, Max
  <2>2. CASE state # None /\ state' = state
    <3> DEFINE d == state.last + TlsHorizon
    <3>1. Awaits(d, TlsStep) /\ ~(Due # {} /\ d <= Max(Due))
      BY <2>1, <2>2 DEF EncryptedWaits
    <3> HIDE DEF d
    <3>2. d \in Nat /\ BucketUp(d, TlsStep) \in timers'
      BY <2>1, <3>1, Durations, TimerStays, Zenon
    <3> QED
      BY <2>1, <2>2, <3>2, TimersTick DEF EncryptedWaits, Awaits, Has, BucketUp, d
  <2> QED
    BY <2>1, <2>2, TimersTick DEF EncryptedWaits, Has
<1>2. CASE \E e \in Encrypted!Session : Encrypted!Abstain(e) \/ Encrypted!Score(e)
  <2>1. PICK e \in Encrypted!Session : Encrypted!Abstain(e) \/ Encrypted!Score(e)
    BY <1>2
  <2>2. e.obs \in Nat
    BY <2>1 DEF Encrypted!Session
  <2>3. /\ watermark' = watermark /\ e.obs > watermark
        /\ timers' = timers \cup {BucketUp(e.obs + TlsHorizon, TlsStep)}
        /\ \/ state' = Encrypted!Shown(Encrypted!Session1(e))
           \/ state' = Encrypted!Shown(Encrypted!Scored(e))
    BY <2>1 DEF Encrypted!Abstain, Encrypted!Score, Encrypted!Handle, Encrypted!Registered,
                Encrypted!BucketUp, BucketUp
  <2>4. "last" \in DOMAIN state' /\ state'.last = e.obs
    <3> DEFINE s == Encrypted!Session1(e)
               t == Encrypted!Scored(e)
    <3>1. "last" \in DOMAIN s /\ s.last = e.obs
      BY DEF Encrypted!Session1, Encrypted!Continues, Encrypted!Empty, EncryptedWaits, Has
    <3> HIDE DEF s
    <3>2. "last" \in DOMAIN t /\ t.last = e.obs
      BY <3>1 DEF Encrypted!Scored, s
    <3> HIDE DEF t
    <3>3. ASSUME NEW x, "last" \in DOMAIN x, x.last = e.obs
          PROVE  "last" \in DOMAIN Encrypted!Shown(x) /\ Encrypted!Shown(x).last = e.obs
      BY <3>3 DEF Encrypted!Shown
    <3> QED
      BY <2>3, <3>1, <3>2, <3>3 DEF s, t
  <2>5. TlsHorizon \in Nat /\ e.obs + TlsHorizon \in Nat /\ e.obs + TlsHorizon >= watermark
    BY <2>2, <2>3, Durations DEF TimersAhead
  <2>6. TimersAhead' /\ BucketUp(e.obs + TlsHorizon, TlsStep) \in timers'
    BY <2>3, <2>5, Durations, TimerSet, Zenon
  <2> QED
    BY <2>4, <2>5, <2>6 DEF EncryptedWaits, Awaits, Has, BucketUp
<1> QED
  BY <1>1, <1>2 DEF Encrypted!Next

\* The uploads of a host wait for the idle time after the last one.
ExfilWaits ==
  Has("last") /\ (state # None => Awaits(state.last + ExfilIdle, ExfilStep))

LEMMA ExfilWaiting ==
  ASSUME TimersAhead, ExfilWaits, Exfil!Next
  PROVE  TimersAhead' /\ ExfilWaits'
<1>1. CASE Exfil!OnTimer
  <2>1. /\ watermark' = watermark + 1 /\ timers' = timers \ Due
        /\ \/ state' = None
           \/ state' = state /\ (state # None => ~(Due # {} /\ state.last + ExfilIdle <= Max(Due)))
    BY <1>1 DEF Exfil!OnTimer, Exfil!Expire, Exfil!Tick, Exfil!Due, Due, Exfil!Max, Max
  <2>2. CASE state # None /\ state' = state
    <3> DEFINE d == state.last + ExfilIdle
    <3>1. Awaits(d, ExfilStep) /\ ~(Due # {} /\ d <= Max(Due))
      BY <2>1, <2>2 DEF ExfilWaits
    <3> HIDE DEF d
    <3>2. d \in Nat /\ BucketUp(d, ExfilStep) \in timers'
      BY <2>1, <3>1, Durations, TimerStays, Zenon
    <3> QED
      BY <2>1, <2>2, <3>2, TimersTick DEF ExfilWaits, Awaits, Has, BucketUp, d
  <2> QED
    BY <2>1, <2>2, TimersTick DEF ExfilWaits, Has
<1>2. CASE \E e \in Exfil!Delta : Exfil!Upload(e)
  <2>1. PICK e \in Exfil!Delta : Exfil!Upload(e)
    BY <1>2
  <2>2. e.obs \in Nat
    BY <2>1 DEF Exfil!Delta
  <2> DEFINE x == Exfil!Rolled(Exfil!Current, e)
             y == Exfil!Added(x, e)
  <2>3. /\ watermark' = watermark /\ e.obs > watermark
        /\ timers' = timers \cup {BucketUp(e.obs + ExfilIdle, ExfilStep)}
        /\ \E threshold : state' = Exfil!Shown(y, threshold, e.dst \notin Exfil!Current.dsts)
    BY <2>1 DEF Exfil!Upload, Exfil!Handle, Exfil!BucketUp, BucketUp
  <2>4. "last" \in DOMAIN state' /\ state'.last = e.obs
    <3>1. "last" \in DOMAIN x
      BY DEF Exfil!Rolled, Exfil!Current, Exfil!Empty, ExfilWaits, Has
    <3> HIDE DEF x
    <3>2. "last" \in DOMAIN y /\ y.last = e.obs
      BY <3>1 DEF Exfil!Added
    <3> HIDE DEF y
    <3>3. ASSUME NEW threshold, NEW new
          PROVE  LET z == Exfil!Shown(y, threshold, new) IN "last" \in DOMAIN z /\ z.last = e.obs
      BY <3>2 DEF Exfil!Shown
    <3> QED
      BY <2>3, <3>3 DEF x, y
  <2>5. ExfilIdle \in Nat /\ e.obs + ExfilIdle \in Nat /\ e.obs + ExfilIdle >= watermark
    BY <2>2, <2>3, Durations DEF TimersAhead
  <2>6. TimersAhead' /\ BucketUp(e.obs + ExfilIdle, ExfilStep) \in timers'
    BY <2>3, <2>5, Durations, TimerSet, Zenon
  <2> QED
    BY <2>4, <2>5, <2>6 DEF ExfilWaits, Awaits, Has, BucketUp
<1> QED
  BY <1>1, <1>2 DEF Exfil!Next

\* The seconds of a destination wait for the idle time after the last event.
DdosWaits ==
  Has("last") /\ (state # None => Awaits(state.last + DdosIdle, DdosStep))

LEMMA DdosWaiting ==
  ASSUME TimersAhead, DdosWaits, Ddos!Next
  PROVE  TimersAhead' /\ DdosWaits'
<1>1. CASE Ddos!OnTimer
  <2>1. /\ watermark' = watermark + 1 /\ timers' = timers \ Due
        /\ \/ state' = None
           \/ state' = state /\ (state # None => ~(Due # {} /\ state.last + DdosIdle <= Max(Due)))
    BY <1>1 DEF Ddos!OnTimer, Ddos!Expire, Ddos!Tick, Ddos!Due, Due, Ddos!Max, Max
  <2>2. CASE state # None /\ state' = state
    <3> DEFINE d == state.last + DdosIdle
    <3>1. Awaits(d, DdosStep) /\ ~(Due # {} /\ d <= Max(Due))
      BY <2>1, <2>2 DEF DdosWaits
    <3> HIDE DEF d
    <3>2. d \in Nat /\ BucketUp(d, DdosStep) \in timers'
      BY <2>1, <3>1, Durations, TimerStays, Zenon
    <3> QED
      BY <2>1, <2>2, <3>2, TimersTick DEF DdosWaits, Awaits, Has, BucketUp, d
  <2> QED
    BY <2>1, <2>2, TimersTick DEF DdosWaits, Has
<1>2. CASE \E e \in Ddos!Delta : \E s \in {Ddos!Counted(e)} : Ddos!Calm(e, s) \/ Ddos!Flood(e, s)
  <2>1. PICK e \in Ddos!Delta : \E s \in {Ddos!Counted(e)} : Ddos!Calm(e, s) \/ Ddos!Flood(e, s)
    BY <1>2
  <2> DEFINE s == Ddos!Counted(e)
  <2>2. e.obs \in Nat
    BY <2>1 DEF Ddos!Delta
  <2>3. Ddos!Calm(e, s) \/ Ddos!Flood(e, s)
    BY <2>1
  <2>4. "last" \in DOMAIN s /\ s.last = e.obs
    <3>1. "last" \in DOMAIN Ddos!Current
      BY DEF Ddos!Current, Ddos!Empty, DdosWaits, Has
    <3>2. "last" \in DOMAIN Ddos!Closed(Ddos!Current, e.obs)
      BY <3>1 DEF Ddos!Closed
    <3> QED
      BY <3>2 DEF Ddos!Counted
  <2> HIDE DEF s
  <2>5. /\ watermark' = watermark /\ e.obs > watermark
        /\ timers' = timers \cup {BucketUp(e.obs + DdosIdle, DdosStep)}
    BY <2>3 DEF Ddos!Calm, Ddos!Flood, Ddos!Handle, Ddos!Registered, Ddos!BucketUp, BucketUp
  <2>6. \/ state' = s
        \/ \E episode : state' = [s EXCEPT !.buckets[e.obs].anomalous = TRUE,
                                           !.episode = episode]
    <3>1. CASE Ddos!Calm(e, s)
      BY <3>1 DEF Ddos!Calm, Ddos!Handle
    <3>2. CASE Ddos!Flood(e, s)
      BY <3>2, Zenon DEF Ddos!Flood, Ddos!Handle
    <3> QED
      BY <2>3, <3>1, <3>2
  <2>7. "last" \in DOMAIN state' /\ state'.last = e.obs
    <3>1. ASSUME NEW episode
          PROVE  LET t == [s EXCEPT !.buckets[e.obs].anomalous = TRUE, !.episode = episode]
                 IN "last" \in DOMAIN t /\ t.last = e.obs
      <4> DEFINE b == [s.buckets EXCEPT ![e.obs].anomalous = TRUE]
      <4>1. [s EXCEPT !.buckets[e.obs].anomalous = TRUE, !.episode = episode]
              = [s EXCEPT !.buckets = b, !.episode = episode]
        OBVIOUS
      <4> HIDE DEF b
      <4>2. "last" \in DOMAIN [s EXCEPT !.buckets = b, !.episode = episode]
        BY <2>4
      <4>3. [s EXCEPT !.buckets = b, !.episode = episode].last = e.obs
        BY <2>4
      <4> QED
        BY <4>1, <4>2, <4>3
    <3>2. CASE state' = s
      BY <2>4, <3>2
    <3>3. CASE state' # s
      <4>1. PICK episode : state' = [s EXCEPT !.buckets[e.obs].anomalous = TRUE,
                                              !.episode = episode]
        BY <2>6, <3>3, Zenon
      <4> QED
        BY <3>1, <4>1, Zenon
    <3> QED
      BY <3>2, <3>3
  <2>8. DdosIdle \in Nat /\ e.obs + DdosIdle \in Nat /\ e.obs + DdosIdle >= watermark
    BY <2>2, <2>5, Durations DEF TimersAhead
  <2>9. TimersAhead' /\ BucketUp(e.obs + DdosIdle, DdosStep) \in timers'
    BY <2>5, <2>8, Durations, TimerSet, Zenon
  <2> QED
    BY <2>7, <2>8, <2>9 DEF DdosWaits, Awaits, Has, BucketUp
<1> QED
  BY <1>1, <1>2 DEF Ddos!Next

\* The end of the window of an event is not over (dns.py:66, dns.py:176).
LEMMA WindowEnd ==
  ASSUME NEW t \in Nat
  PROVE  /\ (t \div DnsWindow + 1) * DnsWindow \in Nat
         /\ (t \div DnsWindow + 1) * DnsWindow > t
<1>1. DnsWindow \in Nat \ {0}
  BY Durations
<1>2. BucketUp(t, DnsWindow) \in Int /\ BucketUp(t, DnsWindow) > t
  BY <1>1, TimerBeyond
<1> QED
  BY <1>2 DEF BucketUp

\* The names under a domain wait for the end of their window.
DnsWaits ==
  Has("win") /\ (state # None => Awaits((state.win + 1) * DnsWindow, DnsWindow))

LEMMA DnsWaiting ==
  ASSUME TimersAhead, DnsWaits, DnsDomain!Next
  PROVE  TimersAhead' /\ DnsWaits'
<1> DEFINE end(win) == (win + 1) * DnsWindow
<1>1. CASE DnsDomain!OnTimer
  <2>1. /\ watermark' = watermark + 1 /\ timers' = timers \ Due
        /\ \/ state' = None
           \/ state' = state /\ (state # None => ~(Due # {} /\ end(state.win) < Max(Due)))
    BY <1>1 DEF DnsDomain!OnTimer, DnsDomain!Expire, DnsDomain!Tick, DnsDomain!Due, Due,
                DnsDomain!Max, Max
  <2>2. CASE state # None /\ state' = state
    <3> DEFINE d == end(state.win)
    <3>1. Awaits(d, DnsWindow) /\ ~(Due # {} /\ d < Max(Due))
      BY <2>1, <2>2 DEF DnsWaits
    <3> HIDE DEF d
    <3>2. d \in Nat /\ BucketUp(d, DnsWindow) \in timers'
      BY <2>1, <3>1, Durations, TimerPassed, Zenon
    <3> QED
      BY <2>1, <2>2, <3>2, TimersTick DEF DnsWaits, Awaits, Has, BucketUp, d
  <2> QED
    BY <2>1, <2>2, TimersTick DEF DnsWaits, Has
<1>2. CASE \E q \in DnsDomain!Query : DnsDomain!Observe(q)
  <2>1. PICK q \in DnsDomain!Query : DnsDomain!Observe(q)
    BY <1>2
  <2>2. q.obs \in Nat
    BY <2>1 DEF DnsDomain!Query
  <2> DEFINE m == DnsDomain!Opened(q)
             n == DnsDomain!Added(m, q)
             w == q.obs \div DnsWindow
  <2>3. "win" \in DOMAIN m /\ m.win = w
    BY DEF DnsDomain!Opened, DnsDomain!Window, DnsDomain!Empty, DnsWaits, Has
  <2>4. /\ watermark' = watermark /\ q.obs > watermark
        /\ timers' = timers \cup {BucketUp(end(m.win), DnsWindow)}
        /\ state' = DnsDomain!Shown(n, q)
    BY <2>1 DEF DnsDomain!Observe, DnsDomain!Handle, DnsDomain!BucketUp, BucketUp
  <2> HIDE DEF m
  <2>5. "win" \in DOMAIN n /\ n.win = w
    BY <2>3 DEF DnsDomain!Added
  <2> HIDE DEF n
  <2>6. "win" \in DOMAIN state' /\ state'.win = w
    BY <2>4, <2>5 DEF DnsDomain!Shown
  <2>7. end(w) \in Nat /\ end(w) >= q.obs
    BY <2>2, WindowEnd
  <2> HIDE DEF w
  <2>8. end(w) >= watermark
    BY <2>2, <2>4, <2>7 DEF TimersAhead
  <2> HIDE DEF end
  <2>9. TimersAhead' /\ BucketUp(end(w), DnsWindow) \in timers'
    BY <2>3, <2>4, <2>7, <2>8, Durations, TimerSet, Zenon
  <2> QED
    BY <2>6, <2>7, <2>9 DEF DnsWaits, Awaits, Has, BucketUp, end
<1> QED
  BY <1>1, <1>2 DEF DnsDomain!Next

\* The names that a source asked for in vain wait for the end of their window, through
\* a new load of the model, too.
BurstWaits ==
  Has("win") /\ (state # None => Awaits((state.win + 1) * DnsWindow, DnsWindow))

LEMMA BurstWaiting ==
  ASSUME TimersAhead, BurstWaits, DgaBurst!Next
  PROVE  TimersAhead' /\ BurstWaits'
<1> DEFINE end(win) == (win + 1) * DnsWindow
<1>1. CASE DgaBurst!OnTimer
  <2>1. /\ watermark' = watermark + 1 /\ timers' = timers \ Due
        /\ \/ state' = None
           \/ state' = state /\ (state # None => ~(Due # {} /\ end(state.win) < Max(Due)))
    BY <1>1 DEF DgaBurst!OnTimer, DgaBurst!Expire, DgaBurst!Tick, DgaBurst!Due, Due,
                DgaBurst!Max, Max
  <2>2. CASE state # None /\ state' = state
    <3> DEFINE d == end(state.win)
    <3>1. Awaits(d, DnsWindow) /\ ~(Due # {} /\ d < Max(Due))
      BY <2>1, <2>2 DEF BurstWaits
    <3> HIDE DEF d
    <3>2. d \in Nat /\ BucketUp(d, DnsWindow) \in timers'
      BY <2>1, <3>1, Durations, TimerPassed, Zenon
    <3> QED
      BY <2>1, <2>2, <3>2, TimersTick DEF BurstWaits, Awaits, Has, BucketUp, d
  <2> QED
    BY <2>1, <2>2, TimersTick DEF BurstWaits, Has
<1>2. CASE \E q \in DgaBurst!Query : DgaBurst!Observe(q)
  <2>1. PICK q \in DgaBurst!Query : DgaBurst!Observe(q)
    BY <1>2
  <2>2. q.obs \in Nat
    BY <2>1 DEF DgaBurst!Query
  <2> DEFINE m == DgaBurst!Opened(q)
             n == DgaBurst!Added(m, q)
             w == q.obs \div DnsWindow
  <2>3. "win" \in DOMAIN m /\ m.win = w
    BY DEF DgaBurst!Opened, DgaBurst!Window, DgaBurst!Empty, BurstWaits, Has
  <2>4. /\ watermark' = watermark /\ q.obs > watermark
        /\ timers' = timers \cup {BucketUp(end(m.win), DnsWindow)}
        /\ state' = DgaBurst!Shown(n)
    BY <2>1 DEF DgaBurst!Observe, DgaBurst!Handle, DgaBurst!BucketUp, BucketUp
  <2> HIDE DEF m
  <2>5. "win" \in DOMAIN n /\ n.win = w
    BY <2>3 DEF DgaBurst!Added
  <2> HIDE DEF n
  <2>6. "win" \in DOMAIN state' /\ state'.win = w
    BY <2>4, <2>5 DEF DgaBurst!Shown
  <2>7. end(w) \in Nat /\ end(w) >= q.obs
    BY <2>2, WindowEnd
  <2> HIDE DEF w
  <2>8. end(w) >= watermark
    BY <2>2, <2>4, <2>7 DEF TimersAhead
  <2> HIDE DEF end
  <2>9. TimersAhead' /\ BucketUp(end(w), DnsWindow) \in timers'
    BY <2>3, <2>4, <2>7, <2>8, Durations, TimerSet, Zenon
  <2> QED
    BY <2>6, <2>7, <2>9 DEF BurstWaits, Awaits, Has, BucketUp, end
<1>3. CASE DgaBurst!Reload \/ \E q \in DgaBurst!Query : DgaBurst!Answered(q)
  <2>1. state' = state /\ watermark' = watermark /\ timers' = timers
    BY <1>3 DEF DgaBurst!Reload, DgaBurst!Answered, DgaBurst!Ignore, DgaBurst!Handle
  <2> QED
    BY <2>1 DEF TimersAhead, BurstWaits, Awaits, Has
<1> QED
  BY <1>1, <1>2, <1>3, Zenon DEF DgaBurst!Next

\* A host that scans has a timer to come, each time a later one (scan.py).
ScanWaits == state # None => \E t \in timers : t > watermark

LEMMA ScanWaiting ==
  ASSUME TimersAhead, ScanWaits, Scan!Next
  PROVE  TimersAhead' /\ ScanWaits'
<1>1. CASE Scan!OnTimer
  <2>1. CASE Due = {} \/ state = None
    <3>1. state' = state /\ watermark' = watermark + 1 /\ timers' = timers \ Due
      BY <1>1, <2>1 DEF Scan!OnTimer, Scan!Tick, Scan!Due, Due
    <3> QED
      BY <2>1, <3>1, TimersTick DEF TimersAhead, ScanWaits, Due
  <2>2. CASE Due # {} /\ state # None
    <3>1. /\ watermark' = watermark + 1
          /\ \/ state' = None /\ timers' = timers \ Due
             \/ timers' = (timers \ Due) \cup {Max(Due) + ScanStep}
      BY <1>1, <2>2 DEF Scan!OnTimer, Scan!Tick, Scan!Due, Due, Scan!Max, Max
    <3>2. Max(Due) = watermark + 1 /\ ScanStep \in Nat \ {0} /\ watermark \in Int
      BY <2>2, DueNow, Durations DEF TimersAhead
    <3>3. CASE state' = None /\ timers' = timers \ Due
      BY <3>1, <3>3, TimersTick DEF ScanWaits
    <3>4. CASE timers' = (timers \ Due) \cup {watermark + 1 + ScanStep}
      BY <3>1, <3>2, <3>4 DEF TimersAhead, ScanWaits, Due
    <3> QED
      BY <3>1, <3>2, <3>3, <3>4
  <2> QED
    BY <2>1, <2>2
<1>2. CASE \E e \in Scan!Flow : Scan!Contact(e)
  <2>1. PICK e \in Scan!Flow : Scan!Contact(e)
    BY <1>2
  <2>2. e.obs \in Nat
    BY <2>1 DEF Scan!Flow
  <2>3. /\ watermark' = watermark /\ e.obs > watermark
        /\ timers' = timers \cup {BucketUp(e.obs, ScanStep)}
    BY <2>1 DEF Scan!Contact, Scan!Handle, Scan!BucketUp, BucketUp
  <2>4. TimersAhead' /\ BucketUp(e.obs, ScanStep) \in timers'
    BY <2>2, <2>3, Durations, TimerSet DEF TimersAhead
  <2> QED
    BY <2>4 DEF TimersAhead, ScanWaits
<1>3. CASE \E t \in 0 .. TimeOf["scan"] : Scan!NotNew(t)
  <2>1. state' = state /\ watermark' = watermark /\ timers' = timers
    BY <1>3 DEF Scan!NotNew, Scan!Ignore, Scan!Handle
  <2> QED
    BY <2>1 DEF TimersAhead, ScanWaits
<1> QED
  BY <1>1, <1>2, <1>3 DEF Scan!Next

-----------------------------------------------------------------------------
(***************************************************************************)
(* Intervals                                                               *)
(***************************************************************************)

\* A set of numbers has a least one, if it has any.
LEMMA Smallest ==
  ASSUME NEW S \in SUBSET Nat, S # {}
  PROVE  Min(S) \in S /\ \A y \in S : Min(S) <= y
<1> DEFINE R == OpToRel(<, Nat)
<1>1. IsWellFoundedOn(R, Nat)
  BY NatLessThanWellFounded
<1>2. \A x, y \in Nat : y < x => <<y, x>> \in R
  BY DEF OpToRel
<1> HIDE DEF R
<1>3. PICK x \in S : \A y \in S : ~(<<y, x>> \in R)
  BY <1>1, WFMin
<1>4. \A u, v \in Nat : ~(u < v) => v <= u
  OBVIOUS
<1>5. \A y \in S : x <= y
  BY <1>2, <1>3, <1>4, Zenon
<1> QED
  BY <1>5 DEF Min

\* And a greatest one, if it is bounded.
LEMMA Greatest ==
  ASSUME NEW S \in SUBSET Nat, S # {}, NEW n \in Nat, \A s \in S : s <= n
  PROVE  Max(S) \in S /\ \A y \in S : y <= Max(S)
<1> DEFINE T == {n - s : s \in S}
<1>1. T \in SUBSET Nat /\ T # {}
  <2>1. \A s \in S : n - s \in Nat
    OBVIOUS
  <2> QED
    BY <2>1
<1>2. Min(T) \in T /\ \A y \in T : Min(T) <= y
  BY <1>1, Smallest
<1>3. PICK x \in S : Min(T) = n - x
  BY <1>2
<1>4. ASSUME NEW y \in S
      PROVE  x >= y
  <2>1. n - y \in T
    OBVIOUS
  <2>2. n - x <= n - y
    BY <1>2, <1>3, <2>1
  <2> QED
    BY <2>2
<1>5. \E z \in S : \A y \in S : z >= y
  BY <1>4
<1>6. Max(S) \in S /\ \A y \in S : Max(S) >= y
  BY <1>5 DEF Max
<1> QED
  BY <1>6, \A y \in S : y \in Nat

LEMMA SameExtremes ==
  ASSUME NEW S
  PROVE  Beacon!Max(S) = Max(S) /\ Beacon!Min(S) = Min(S)
BY DEF Beacon!Max, Max, Beacon!Min, Min

LEMMA DdosCardinality ==
  ASSUME NEW S
  PROVE  Ddos!Cardinality(S) = Cardinality(S)
BY Zenon DEF Ddos!Cardinality, Cardinality

LEMMA SameCardinality ==
  ASSUME NEW S
  PROVE  Beacon!Cardinality(S) = Cardinality(S)
BY Zenon DEF Beacon!Cardinality, Cardinality

\* The starts of the connections of a pair.
Starts(S) == S \in SUBSET Nat /\ S # {} /\ \E n \in Nat : \A t \in S : t <= n

LEMMA StartsFinite ==
  ASSUME NEW S, Starts(S)
  PROVE  IsFiniteSet(S) /\ Cardinality(S) \in Nat
BY FS_BoundedSetOfNaturals, FS_CardinalityType DEF Starts

LEMMA LastStart ==
  ASSUME NEW S, Starts(S)
  PROVE  Beacon!Max(S) \in S /\ \A t \in S : t <= Beacon!Max(S)
<1>1. S \in SUBSET Nat /\ S # {}
  BY DEF Starts
<1>2. PICK n \in Nat : \A t \in S : t <= n
  BY DEF Starts
<1>3. Max(S) \in S /\ \A t \in S : t <= Max(S)
  BY <1>1, <1>2, Greatest
<1> QED
  BY <1>3, SameExtremes

\* Another start makes starts; so do all but the earliest of several.
LEMMA MoreStarts ==
  ASSUME NEW S, Starts(S) \/ S = {}, NEW t \in Nat
  PROVE  Starts(Beacon!Latest(S, t))
<1> DEFINE all == S \cup {t}
<1>1. Starts(all)
  <2>1. S \in SUBSET Nat
    BY DEF Starts
  <2>2. \E n \in Nat : \A u \in all : u <= n
    <3>1. CASE S = {}
      BY <3>1
    <3>2. CASE Starts(S)
      <4>1. PICK n \in Nat : \A u \in S : u <= n
        BY <3>2 DEF Starts
      <4>2. \A u \in all : u <= n + t
        BY <2>1, <4>1
      <4> QED
        BY <4>2
    <3> QED
      BY <3>1, <3>2
  <2> QED
    BY <2>1, <2>2 DEF Starts
<1>2. Beacon!Latest(S, t) =
        IF Cardinality(all) > BeaconMaxEvents THEN all \ {Beacon!Min(all)} ELSE all
  BY SameCardinality, Zenon DEF Beacon!Latest
<1> HIDE DEF all
<1>3. CASE Cardinality(all) > BeaconMaxEvents
  <2>1. all \ {Beacon!Min(all)} # {}
    <3> SUFFICES ASSUME all \subseteq {Beacon!Min(all)}
                 PROVE  FALSE
      OBVIOUS
    <3>1. all = {Beacon!Min(all)}
      BY <1>1 DEF Starts
    <3>2. Cardinality({Beacon!Min(all)}) = 1
      BY FS_Singleton
    <3>3. BeaconMaxEvents \in Nat \ {0}
      BY ConfigAssumption DEF Counts
    <3> QED
      BY <1>3, <3>1, <3>2, <3>3
  <2>2. Starts(all \ {Beacon!Min(all)})
    BY <1>1, <2>1 DEF Starts
  <2> QED
    BY <1>2, <1>3, <2>2
<1> QED
  BY <1>1, <1>2, <1>3

\* Of several starts all but the last have an interval.
LEMMA IntervalsType ==
  ASSUME NEW S, Starts(S), Cardinality(S) >= 2
  PROVE  LET f == Beacon!Intervals(S) IN
         /\ DOMAIN f \subseteq S /\ f \in [DOMAIN f -> Nat]
         /\ Cardinality(DOMAIN f) \in Nat \ {0}
         /\ \E n \in Nat : \A t \in DOMAIN f : f[t] <= n
<1> DEFINE f == Beacon!Intervals(S)
           D == S \ {Beacon!Max(S)}
<1>1. Beacon!Max(S) \in S /\ (\A t \in S : t <= Beacon!Max(S)) /\ S \in SUBSET Nat
  BY LastStart DEF Starts
<1>2. DOMAIN f = D /\ \A t \in D : f[t] = Beacon!Min({u \in S : u > t}) - t
  BY DEF Beacon!Intervals
<1>3. ASSUME NEW t \in D
      PROVE  f[t] \in Nat /\ f[t] <= Beacon!Max(S)
  <2> DEFINE U == {u \in S : u > t}
  <2>1. U \in SUBSET Nat /\ Beacon!Max(S) \in U
    <3>1. t \in Nat /\ Beacon!Max(S) \in Nat /\ t <= Beacon!Max(S) /\ t # Beacon!Max(S)
      BY <1>1
    <3>2. Beacon!Max(S) > t
      BY <3>1
    <3> QED
      BY <1>1, <3>2
  <2>2. Beacon!Min(U) \in U /\ Beacon!Min(U) <= Beacon!Max(S)
    BY <2>1, Smallest, SameExtremes
  <2>3. f[t] = Beacon!Min(U) - t /\ t \in Nat
    BY <1>1, <1>2
  <2>4. Beacon!Min(U) \in Nat /\ Beacon!Min(U) > t
    BY <1>1, <2>2
  <2>5. Beacon!Max(S) \in Nat
    BY <1>1
  <2> HIDE DEF U, f, D
  <2> QED
    BY <2>2, <2>3, <2>4, <2>5
<1>4. Cardinality(D) = Cardinality(S) - 1 /\ Cardinality(S) \in Nat
  BY <1>1, StartsFinite, FS_RemoveElement
<1>5. Beacon!Max(S) \in Nat
  BY <1>1
<1>6. f = [t \in DOMAIN f |-> f[t]]
  BY DEF Beacon!Intervals
<1> HIDE DEF f, D
<1>7. f \in [DOMAIN f -> Nat]
  BY <1>2, <1>3, <1>6
<1>8. D \subseteq S
  BY DEF D
<1> QED
  BY <1>2, <1>3, <1>4, <1>5, <1>7, <1>8 DEF f

\* Each rank has its interval.
LEMMA RankedType ==
  ASSUME NEW D, NEW f \in [D -> Nat], D # {}, NEW n \in Nat, \A t \in D : f[t] <= n,
         NEW k, Cardinality(D) >= k
  PROVE  Beacon!Ranked(f, k) \in Nat
<1> DEFINE V == {f[t] : t \in D}
           K == {d \in V : Cardinality({t \in D : f[t] <= d}) >= k}
<1>1. V \in SUBSET Nat /\ V # {}
  OBVIOUS
<1>2. Max(V) \in V /\ \A v \in V : v <= Max(V)
  BY <1>1, Greatest
<1>3. {t \in D : f[t] <= Max(V)} = D
  BY <1>2
<1>4. Max(V) \in K
  BY <1>2, <1>3
<1>5. K \in SUBSET Nat
  BY <1>1
<1>6. Beacon!Min(K) \in K
  BY <1>4, <1>5, Smallest, SameExtremes
<1>7. DOMAIN f = D
  OBVIOUS
<1>8. Beacon!Ranked(f, k) = Beacon!Min(K)
  BY <1>7, SameCardinality, Zenon DEF Beacon!Ranked
<1> QED
  BY <1>5, <1>6, <1>8

\* Several starts have a horizon, and as many as are looked at the same one.
LEMMA HorizonType ==
  ASSUME NEW S, Starts(S)
  PROVE  /\ Beacon!Horizon(S, 2) \in Nat /\ Beacon!Horizon(S, BeaconMinEvents) \in Nat
         /\ Cardinality(S) >= BeaconMinEvents =>
              Beacon!Horizon(S, BeaconMinEvents) = Beacon!Horizon(S, 2)
<1>1. /\ BeaconIdle \in Nat /\ BeaconMinEvents \in Nat /\ BeaconMinEvents >= 2
      /\ Cardinality(S) \in Nat
  BY ConfigAssumption, StartsFinite DEF Sizes, Counts
<1>2. ASSUME Cardinality(S) >= 2
      PROVE  Beacon!Max({2 * Beacon!TwiceMedian(Beacon!Intervals(S)), BeaconIdle}) \in Nat
  <2> DEFINE f == Beacon!Intervals(S)
             D == DOMAIN f
             n == Cardinality(D)
  <2>1. D \subseteq S /\ f \in [D -> Nat] /\ n \in Nat \ {0}
    BY <1>2, IntervalsType
  <2>2. PICK m \in Nat : \A t \in D : f[t] <= m
    BY <1>2, IntervalsType
  <2>3. D # {}
    BY <2>1, FS_EmptySet
  <2>4. n >= (n + 1) \div 2 /\ n >= (n + 2) \div 2
    BY <2>1
  <2>5. Beacon!TwiceMedian(f) = Beacon!Ranked(f, (n + 1) \div 2) + Beacon!Ranked(f, (n + 2) \div 2)
    BY SameCardinality, Zenon DEF Beacon!TwiceMedian
  <2> HIDE DEF f, D, n
  <2>6. Beacon!Ranked(f, (n + 1) \div 2) \in Nat /\ Beacon!Ranked(f, (n + 2) \div 2) \in Nat
    <3>1. Cardinality(D) >= (n + 1) \div 2 /\ Cardinality(D) >= (n + 2) \div 2
      BY <2>4 DEF n
    <3> QED
      BY <2>1, <2>2, <2>3, <3>1, RankedType
  <2>7. 2 * Beacon!TwiceMedian(f) \in Nat
    BY <2>5, <2>6
  <2> DEFINE x == 2 * Beacon!TwiceMedian(f)
  <2>8. {x, BeaconIdle} \in SUBSET Nat /\ \A y \in {x, BeaconIdle} : y <= x + BeaconIdle
    BY <1>1, <2>7
  <2>9. x + BeaconIdle \in Nat
    BY <1>1, <2>7
  <2> HIDE DEF x
  <2>10. Beacon!Max({x, BeaconIdle}) \in {x, BeaconIdle}
    BY <2>8, <2>9, Greatest, SameExtremes
  <2> QED
    BY <2>8, <2>10 DEF x, f
<1> DEFINE h == Beacon!Max({2 * Beacon!TwiceMedian(Beacon!Intervals(S)), BeaconIdle})
<1>3. ASSUME NEW enough
      PROVE  Beacon!Horizon(S, enough) = IF Cardinality(S) < enough THEN BeaconIdle ELSE h
  BY SameCardinality, Zenon DEF Beacon!Horizon
<1> HIDE DEF h
<1>4. Cardinality(S) >= 2 => h \in Nat
  BY <1>2 DEF h
<1>5. /\ Beacon!Horizon(S, 2) = IF Cardinality(S) < 2 THEN BeaconIdle ELSE h
      /\ Beacon!Horizon(S, BeaconMinEvents) =
           IF Cardinality(S) < BeaconMinEvents THEN BeaconIdle ELSE h
  BY <1>3
<1> QED
  BY <1>1, <1>4, <1>5

-----------------------------------------------------------------------------
(***************************************************************************)
(* Keys that fall silent                                                   *)
(***************************************************************************)

\* A pair with as many connections as are looked at has the timer that forgets it.  A
\* timer may be set for an instant that is over: connections are told when they end.
BeaconWaits ==
  /\ watermark \in Int /\ timers \subseteq Nat
  /\ state # None =>
       /\ "starts" \in DOMAIN state /\ Starts(state.starts)
       /\ Cardinality(state.starts) >= BeaconMinEvents =>
            BucketUp(Beacon!Max(state.starts) + Beacon!Horizon(state.starts, 2), BeaconStep)
              \in timers

LEMMA BeaconWaiting ==
  ASSUME BeaconWaits, Beacon!Next
  PROVE  BeaconWaits'
<1> DEFINE end(starts) == Beacon!Max(starts) + Beacon!Horizon(starts, 2)
<1>1. ASSUME NEW S, Starts(S)
      PROVE  end(S) \in Nat /\ BucketUp(end(S), BeaconStep) \in Nat
             /\ BucketUp(end(S), BeaconStep) > end(S)
  <2>1. Beacon!Max(S) \in Nat /\ Beacon!Horizon(S, 2) \in Nat
    BY <1>1, LastStart, HorizonType DEF Starts
  <2>2. end(S) \in Nat
    BY <2>1
  <2>3. BeaconStep \in Nat \ {0}
    BY ConfigAssumption DEF Counts
  <2> HIDE DEF end
  <2>4. BucketUp(end(S), BeaconStep) \in Int /\ BucketUp(end(S), BeaconStep) > end(S)
    BY <2>2, <2>3, TimerBeyond
  <2> QED
    BY <2>2, <2>4
<1>2. CASE Beacon!OnTimer
  <2>1. /\ watermark' = watermark + 1 /\ timers' = timers \ Due
        /\ \/ state' = None
           \/ state' = state /\ (state # None => ~(Due # {} /\ end(state.starts) <= Max(Due)))
    BY <1>2, SameExtremes DEF Beacon!OnTimer, Beacon!Expire, Beacon!Tick, Beacon!Due, Due
  <2>2. ASSUME state # None, state' = state, Cardinality(state.starts) >= BeaconMinEvents
        PROVE  BucketUp(end(state.starts), BeaconStep) \in timers'
    <3> DEFINE d == end(state.starts)
               b == BucketUp(d, BeaconStep)
    <3>1. d \in Nat /\ b \in Nat /\ b > d /\ b \in timers
      BY <1>1, <2>2 DEF BeaconWaits
    <3>2. ~(Due # {} /\ d <= Max(Due))
      BY <2>1, <2>2
    <3> HIDE DEF b, d
    <3>3. b \notin Due
      <4> SUFFICES ASSUME b \in Due
                   PROVE  FALSE
        OBVIOUS
      <4>1. Due \in SUBSET Nat /\ \A t \in Due : t <= watermark + 1
        BY DEF BeaconWaits, Due
      <4>2. watermark + 1 \in Nat
        BY <3>1, <4>1 DEF BeaconWaits
      <4>3. Max(Due) \in Due /\ b <= Max(Due)
        BY <4>1, <4>2, Greatest
      <4>4. Max(Due) \in Nat
        BY <4>1, <4>3
      <4>5. d <= Max(Due)
        BY <3>1, <4>3, <4>4
      <4> QED
        BY <3>2, <4>5
    <3> QED
      BY <2>1, <3>1, <3>3 DEF b, d
  <2>3. watermark' \in Int /\ timers' \subseteq Nat
    <3>1. watermark' = watermark + 1 /\ timers' = timers \ Due
      BY <2>1
    <3>2. watermark \in Int /\ timers \subseteq Nat
      BY DEF BeaconWaits
    <3>3. watermark' \in Int
      BY <3>1, <3>2
    <3>4. timers' \subseteq Nat
      BY <3>1, <3>2, Zenon
    <3> QED
      BY <3>3, <3>4
  <2>4. CASE state' = None
    BY <2>3, <2>4 DEF BeaconWaits
  <2>5. CASE state' = state
    BY <2>2, <2>3, <2>5 DEF BeaconWaits, BucketUp
  <2> QED
    BY <2>1, <2>4, <2>5
<1>3. CASE \E e \in Beacon!Delta : Beacon!Connect(e) \/ Beacon!Beaconing(e)
  <2>1. PICK e \in Beacon!Delta : Beacon!Connect(e) \/ Beacon!Beaconing(e)
    BY <1>3
  <2> DEFINE b == Beacon!Connected(e)
             S == Beacon!Latest(Beacon!Current.starts, e.start)
  <2>2. e.start \in Nat
    BY <2>1 DEF Beacon!Delta
  <2>3. "starts" \in DOMAIN b /\ b.starts = S /\ Starts(S)
    <3>1. "starts" \in DOMAIN Beacon!Current
      BY DEF Beacon!Current, Beacon!Empty, BeaconWaits
    <3>2. Starts(Beacon!Current.starts) \/ Beacon!Current.starts = {}
      BY DEF Beacon!Current, Beacon!Empty, BeaconWaits
    <3>3. Starts(S)
      BY <2>2, <3>2, MoreStarts
    <3> HIDE DEF S
    <3>4. "starts" \in DOMAIN b
      BY <3>1 DEF Beacon!Connected
    <3>5. b.starts = S
      BY <3>1 DEF Beacon!Connected, S
    <3> QED
      BY <3>3, <3>4, <3>5
  <2> HIDE DEF b, S
  <2>4. /\ watermark' = watermark /\ timers' = timers \cup {Beacon!Timer(b)}
        /\ \/ state' = b
           \/ \E rank, emitted : state' = [b EXCEPT !.rank = rank, !.emitted = emitted]
    <3>1. CASE Beacon!Connect(e)
      BY <3>1 DEF Beacon!Connect, Beacon!Handle, b
    <3>2. CASE Beacon!Beaconing(e)
      BY <3>2, Zenon DEF Beacon!Beaconing, Beacon!Handle, b
    <3> QED
      BY <2>1, <3>1, <3>2
  <2>5. "starts" \in DOMAIN state' /\ state'.starts = S
    BY <2>3, <2>4
  <2>6. Beacon!Timer(b) =
          BucketUp(Beacon!Max(S) + Beacon!Horizon(S, BeaconMinEvents), BeaconStep)
    BY <2>3 DEF Beacon!Timer, Beacon!BucketUp, BucketUp
  <2>7. Cardinality(S) >= BeaconMinEvents => Beacon!Timer(b) = BucketUp(end(S), BeaconStep)
    BY <2>3, <2>6, HorizonType
  <2>8. Beacon!Timer(b) \in Nat
    <3> DEFINE d == Beacon!Max(S) + Beacon!Horizon(S, BeaconMinEvents)
    <3>1. Beacon!Max(S) \in Nat /\ Beacon!Horizon(S, BeaconMinEvents) \in Nat
      BY <2>3, LastStart, HorizonType DEF Starts
    <3>2. d \in Nat /\ BeaconStep \in Nat \ {0}
      BY <3>1, ConfigAssumption DEF Counts
    <3> HIDE DEF d
    <3>3. BucketUp(d, BeaconStep) \in Int /\ BucketUp(d, BeaconStep) > d
      BY <3>2, TimerBeyond
    <3> QED
      BY <2>6, <3>2, <3>3 DEF d
  <2>9. watermark' \in Int /\ timers' \subseteq Nat
    BY <2>4, <2>8 DEF BeaconWaits
  <2> QED
    BY <2>3, <2>4, <2>5, <2>7, <2>9 DEF BeaconWaits, BucketUp
<1>4. CASE \E t \in 0 .. TimeOf["beacon"] : Beacon!Known(t)
  <2>1. state' = state /\ watermark' = watermark /\ timers' = timers
    BY <1>4 DEF Beacon!Known, Beacon!Ignore, Beacon!Handle
  <2> QED
    BY <2>1 DEF BeaconWaits, BucketUp
<1> QED
  BY <1>2, <1>3, <1>4 DEF Beacon!Next

\* Each operator's key waits for its timer.
Waits ==
  /\ op \in Operators
  /\ op # "beacon" => TimersAhead
  /\ op = "flow" => FlowInv /\ FlowWaits
  /\ op = "scan" => ScanWaits
  /\ op = "ddos" => DdosWaits
  /\ op = "beacon" => BeaconWaits
  /\ op = "exfil" => ExfilWaits
  /\ op = "encrypted" => EncryptedWaits
  /\ op = "dns" => DnsWaits
  /\ op = "burst" => BurstWaits

LEMMA WaitsInit ==
  Init => Waits
<1> SUFFICES ASSUME Init
             PROVE  Waits
  OBVIOUS
<1>1. op \in Operators /\ state = None /\ timers = {} /\ watermark = -1
  BY DetectionAssumption
     DEF Init, FlowDelta!Init, FlowDelta!Start, Scan!Init, Scan!Start, Ddos!Init, Ddos!Start,
         Beacon!Init, Beacon!Start, Exfil!Init, Exfil!Start, Encrypted!Init, Encrypted!Start,
         DnsDomain!Init, DnsDomain!Start, DgaBurst!Init, DgaBurst!Start
<1>2. op = "flow" => FlowInv /\ history.known = -1
  BY FlowInit DEF Init, FlowDelta!Init, FlowDelta!Start
<1> QED
  BY <1>1, <1>2 DEF Waits, TimersAhead, Has, FlowWaits, ScanWaits, DdosWaits, BeaconWaits,
       ExfilWaits, EncryptedWaits, DnsWaits, BurstWaits

LEMMA WaitsPreserved ==
  ASSUME Waits, [Next]_<<vars, op, model>>
  PROVE  Waits'
<1>1. CASE UNCHANGED <<vars, op, model>>
  <2>1. /\ state' = state /\ timers' = timers /\ watermark' = watermark
        /\ history' = history /\ op' = op
    BY <1>1 DEF vars
  <2>2. TimersAhead => TimersAhead'
    BY <2>1 DEF TimersAhead
  <2>3. FlowInv /\ FlowWaits => FlowInv' /\ FlowWaits'
    BY <2>1 DEF FlowInv, FlowTypes, FlowCounts, FlowDrops, FlowWaits, Awaits, FlowDelta!Limit
  <2>4. (ScanWaits => ScanWaits') /\ (BeaconWaits => BeaconWaits')
    BY <2>1 DEF ScanWaits, BeaconWaits
  <2>5. (DdosWaits => DdosWaits') /\ (ExfilWaits => ExfilWaits')
    BY <2>1 DEF DdosWaits, ExfilWaits, Awaits, Has
  <2>6. EncryptedWaits => EncryptedWaits'
    BY <2>1 DEF EncryptedWaits, Awaits, Has
  <2>7. (DnsWaits => DnsWaits') /\ (BurstWaits => BurstWaits')
    BY <2>1 DEF DnsWaits, BurstWaits, Awaits, Has
  <2> QED
    BY <2>1, <2>2, <2>3, <2>4, <2>5, <2>6, <2>7 DEF Waits
<1>2. CASE RunFlowDelta
  BY <1>2, FlowInvPreserved, FlowWaiting DEF RunFlowDelta, Waits
<1>3. CASE RunScan
  BY <1>3, ScanWaiting DEF RunScan, Waits
<1>4. CASE RunDdos
  BY <1>4, DdosWaiting DEF RunDdos, Waits
<1>5. CASE RunBeacon
  BY <1>5, BeaconWaiting DEF RunBeacon, Waits
<1>6. CASE RunExfil
  BY <1>6, ExfilWaiting DEF RunExfil, Waits
<1>7. CASE RunEncrypted
  BY <1>7, EncryptedWaiting DEF RunEncrypted, Waits
<1>8. CASE RunDnsDomain
  BY <1>8, DnsWaiting DEF RunDnsDomain, Waits
<1>9. CASE RunDgaBurst
  BY <1>9, BurstWaiting DEF RunDgaBurst, Waits
<1> QED
  BY <1>1, <1>2, <1>3, <1>4, <1>5, <1>6, <1>7, <1>8, <1>9 DEF Next

\* The bytes and packets of a flow are handed on once for each time it was announced,
\* and it is announced again only after it ended without a trace, for every set of
\* flows, whatever repeats or comes late: a flow that is kept is known until its idle
\* period, or its tombstone's, is over (flowdelta.py:1-6 and 77-80).
THEOREM CountedOnceEver ==
  Spec => []BytesCountedOnce
<1>1. Waits => BytesCountedOnce
  <2> SUFFICES ASSUME op = "flow", FlowInv, FlowWaits
               PROVE  FlowDelta!CountedOnce
    BY DEF BytesCountedOnce, Waits
  <2>1. /\ history.counted = history.earlier + history.peak
        /\ history.ended = 0 => history.earlier = 0
        /\ history.announced = history.ended + (IF state = None THEN 0 ELSE 1)
    BY DEF FlowInv, FlowCounts
  <2>2. history.peak \in Nat /\ (history.ended = 0 => history.counted = history.peak)
    BY <2>1 DEF FlowInv, FlowTypes, FlowHistory
  <2>3. FlowDelta!Grows(history.flow) /\ history.ended = 0 => history.dropped <= history.counted
    BY <2>2 DEF FlowInv, FlowDrops
  <2>4. watermark < history.known => state # None
    BY DEF FlowWaits
  <2> QED
    BY <2>1, <2>3, <2>4 DEF FlowDelta!CountedOnce
<1> QED
  BY <1>1, WaitsInit, WaitsPreserved, PTL DEF Spec

\* A key that falls silent is forgotten: whatever detector keeps state of it has a
\* timer to come, for all idle times, horizons, windows and grids; of a pair of a
\* service, the timer that forgets it, once it has enough connections to be looked
\* at (docs/architecture.md:121).
THEOREM ForgottenEver ==
  Spec => []SilentIsForgotten
<1>1. Waits => SilentIsForgotten
  <2> SUFFICES ASSUME Waits
               PROVE  SilentIsForgotten
    OBVIOUS
  <2>1. CASE op = "beacon"
    <3> SUFFICES ASSUME state # None, Beacon!Cardinality(state.starts) >= BeaconMinEvents
                 PROVE  \E t \in timers :
                          Beacon!Max(state.starts) + Beacon!Horizon(state.starts, 2) <= t
      BY <2>1 DEF SilentIsForgotten, Beacon!PairsAreForgotten
    <3> DEFINE d == Beacon!Max(state.starts) + Beacon!Horizon(state.starts, 2)
    <3>1. Starts(state.starts) /\ BucketUp(d, BeaconStep) \in timers
      BY <2>1, SameCardinality DEF Waits, BeaconWaits
    <3>2. Beacon!Max(state.starts) \in Nat /\ Beacon!Horizon(state.starts, 2) \in Nat
      BY <3>1, LastStart, HorizonType DEF Starts
    <3>3. d \in Nat /\ BeaconStep \in Nat \ {0}
      BY <3>2, ConfigAssumption DEF Counts
    <3> HIDE DEF d
    <3>4. BucketUp(d, BeaconStep) \in Int /\ BucketUp(d, BeaconStep) > d
      BY <3>3, TimerBeyond
    <3>5. d <= BucketUp(d, BeaconStep)
      BY <3>3, <3>4
    <3> QED
      BY <3>1, <3>5 DEF d
  <2>2. CASE op # "beacon"
    <3> SUFFICES ASSUME state # None
                 PROVE  \E t \in timers : t > watermark
      BY <2>2 DEF SilentIsForgotten, NothingLeaks
    <3>1. TimersAhead
      BY <2>2 DEF Waits
    <3>2. (\E t \in timers : t > watermark) \/ \E d, step : Awaits(d, step)
      <4>1. op \in {"flow", "scan", "ddos", "exfil", "encrypted", "dns", "burst"}
        BY <2>2, DetectionAssumption DEF Waits
      <4> QED
        BY <4>1 DEF Waits, FlowWaits, ScanWaits, DdosWaits, ExfilWaits, EncryptedWaits,
                    DnsWaits, BurstWaits
    <3> QED
      BY <3>1, <3>2, AwaitsNothingLeaks, Zenon
  <2> QED
    BY <2>1, <2>2
<1> QED
  BY <1>1, WaitsInit, WaitsPreserved, PTL DEF Spec

-----------------------------------------------------------------------------
(***************************************************************************)
(* The model of a subtask                                                  *)
(***************************************************************************)

\* From i on there are as many errors in a row as disable the model.
ErrorsFrom(outs, i) == \A j \in i .. i + ModelErrors - 1 : outs[j]

GivenUp(outs) == \E i \in 1 .. Len(outs) - ModelErrors + 1 : ErrorsFrom(outs, i)

\* The active model counts the errors in a row that there were last; they are too few
\* to disable it, as were those before.
ModelInv ==
  /\ "outcomes" \in DOMAIN history /\ history.outcomes \in Seq(BOOLEAN)
  /\ model.active \in BOOLEAN /\ "active" \in DOMAIN model /\ "errors" \in DOMAIN model
  /\ LET outs == history.outcomes
         n    == Len(outs)
     IN IF model.active
        THEN /\ model.errors \in 0 .. n /\ model.errors < ModelErrors
             /\ \A j \in n - model.errors + 1 .. n : outs[j]
             /\ model.errors < n => ~outs[n - model.errors]
             /\ ~GivenUp(outs)
        ELSE outs = << >> \/ GivenUp(outs)

\* Another outcome makes no earlier one part of more errors in a row.
LEMMA GivenUpNext ==
  ASSUME NEW outs \in Seq(BOOLEAN), NEW failed \in BOOLEAN
  PROVE  GivenUp(Append(outs, failed)) <=>
           \/ GivenUp(outs)
           \/ failed /\ Len(outs) + 1 >= ModelErrors
              /\ \A j \in Len(outs) - ModelErrors + 2 .. Len(outs) : outs[j]
<1> DEFINE n    == Len(outs)
           more == Append(outs, failed)
           k    == n + 1 - ModelErrors + 1
<1>1. n \in Nat /\ ModelErrors \in Nat \ {0} /\ Len(more) = n + 1
  BY Durations
<1>2. more[n + 1] = failed /\ \A j \in 1 .. n : more[j] = outs[j]
  OBVIOUS
<1> HIDE DEF more, n
<1>3. ASSUME NEW i \in 1 .. n - ModelErrors + 1
      PROVE  ErrorsFrom(more, i) <=> ErrorsFrom(outs, i)
  BY <1>1, <1>2 DEF ErrorsFrom
<1>4. ErrorsFrom(more, k) /\ k >= 1 <=>
        failed /\ n + 1 >= ModelErrors /\ \A j \in n - ModelErrors + 2 .. n : outs[j]
  <2>1. k + ModelErrors - 1 = n + 1 /\ k = n - ModelErrors + 2
    BY <1>1
  <2>2. ASSUME k >= 1
        PROVE  (\A j \in k .. n + 1 : more[j]) <=> failed /\ \A j \in k .. n : outs[j]
    <3>1. \A j \in k .. n : more[j] = outs[j]
      BY <1>1, <1>2, <2>2
    <3>2. n + 1 \in k .. n + 1 /\ k .. n + 1 = (k .. n) \cup {n + 1}
      BY <1>1, <2>2
    <3> HIDE DEF k
    <3> QED
      BY <1>2, <3>1, <3>2, Zenon
  <2>3. k >= 1 <=> n + 1 >= ModelErrors
    BY <1>1
  <2> HIDE DEF k
  <2> QED
    BY <2>1, <2>2, <2>3 DEF ErrorsFrom
<1>5. GivenUp(more) <=> GivenUp(outs) \/ (k >= 1 /\ ErrorsFrom(more, k))
  <2>1. Len(more) - ModelErrors + 1 = k
    BY <1>1
  <2>2. \A i \in 1 .. k : i = k \/ i \in 1 .. n - ModelErrors + 1
    BY <1>1
  <2>3. \A i \in 1 .. n - ModelErrors + 1 : i \in 1 .. k
    BY <1>1
  <2>4. k >= 1 => k \in 1 .. k
    BY <1>1
  <2>5. \A i \in 1 .. k : k >= 1
    BY <1>1
  <2>6. GivenUp(more) <=> \E i \in 1 .. k : ErrorsFrom(more, i)
    BY <2>1 DEF GivenUp
  <2>7. GivenUp(outs) <=> \E i \in 1 .. n - ModelErrors + 1 : ErrorsFrom(outs, i)
    BY DEF GivenUp, n
  <2> HIDE DEF k
  <2> QED
    BY <1>3, <2>2, <2>3, <2>4, <2>5, <2>6, <2>7, Zenon
<1> QED
  BY <1>4, <1>5 DEF n, more

LEMMA ModelInit ==
  ASSUME DgaBurst!Init
  PROVE  ModelInv
<1>1. /\ model \in [active: BOOLEAN, errors: {0}]
      /\ history = [run |-> << >>, outcomes |-> << >>]
  BY DEF DgaBurst!Init, DgaBurst!Start
<1>2. << >> \in Seq(BOOLEAN) /\ Len(<< >>) = 0 /\ ModelErrors \in Nat \ {0}
  BY Durations
<1>3. ~GivenUp(<< >>)
  BY <1>2 DEF GivenUp
<1> QED
  BY <1>1, <1>2, <1>3 DEF ModelInv

\* An inference that fails is counted, one that succeeds starts the count anew
\* (dga_model.py:108-125).
LEMMA ModelScores ==
  ASSUME ModelInv, NEW q \in DgaBurst!Query,
         "outcomes" \in DOMAIN history', history'.outcomes = DgaBurst!Inferred(q),
         model' = DgaBurst!After(q)
  PROVE  ModelInv'
<1> DEFINE outs == history.outcomes
           n    == Len(outs)
           more == Append(outs, q.failed)
<1>1. q.failed \in BOOLEAN /\ q.short \in BOOLEAN
  BY DEF DgaBurst!Query
<1>2. outs \in Seq(BOOLEAN) /\ n \in Nat /\ ModelErrors \in Nat \ {0}
  BY Durations DEF ModelInv
<1>3. CASE ~DgaBurst!Infers(q)
  <2>1. history'.outcomes = outs /\ model' = model
    BY <1>3 DEF DgaBurst!Inferred, DgaBurst!After
  <2> QED
    BY <2>1 DEF ModelInv
<1>4. CASE DgaBurst!Infers(q)
  <2>1. /\ model.active /\ model.errors \in 0 .. n /\ model.errors < ModelErrors
        /\ \A j \in n - model.errors + 1 .. n : outs[j]
        /\ model.errors < n => ~outs[n - model.errors]
        /\ ~GivenUp(outs)
    BY <1>4 DEF ModelInv, DgaBurst!Infers
  <2>2. history'.outcomes = more
    BY <1>4 DEF DgaBurst!Inferred
  <2>3. /\ more \in Seq(BOOLEAN) /\ Len(more) = n + 1 /\ more[n + 1] = q.failed
        /\ \A j \in 1 .. n : more[j] = outs[j]
    BY <1>1, <1>2
  <2>4. GivenUp(more) <=>
          GivenUp(outs) \/ (q.failed /\ n + 1 >= ModelErrors
                            /\ \A j \in n - ModelErrors + 2 .. n : outs[j])
    BY <1>1, <1>2, GivenUpNext
  <2> HIDE DEF more, n, outs
  <2>5. CASE ~q.failed
    <3>1. model' = [model EXCEPT !.errors = 0]
      BY <1>4, <2>5 DEF DgaBurst!After
    <3>2. "active" \in DOMAIN model /\ "errors" \in DOMAIN model
      BY DEF ModelInv
    <3>3. /\ "active" \in DOMAIN model' /\ "errors" \in DOMAIN model'
          /\ model'.active = model.active /\ model'.errors = 0
      BY <3>1, <3>2
    <3>4. ~GivenUp(more)
      BY <2>1, <2>4, <2>5
    <3>5. \A j \in n + 1 - 0 + 1 .. n + 1 : more[j]
      BY <1>2
    <3>6. ~more[n + 1 - 0]
      BY <1>2, <2>3, <2>5
    <3> QED
      BY <1>2, <2>1, <2>2, <2>3, <3>3, <3>4, <3>5, <3>6 DEF ModelInv
  <2>6. CASE q.failed
    <3> DEFINE errors == model.errors
    <3>1. model' = [active |-> errors + 1 < ModelErrors, errors |-> errors + 1]
      BY <1>4, <2>6 DEF DgaBurst!After
    <3>2. errors \in Nat /\ errors <= n
      BY <1>2, <2>1
    <3>3. /\ model'.active = (errors + 1 < ModelErrors) /\ model'.errors = errors + 1
          /\ "active" \in DOMAIN model' /\ "errors" \in DOMAIN model'
          /\ model'.active \in BOOLEAN
      BY <3>1
    <3>4. CASE errors + 1 < ModelErrors
      <4>1. ~GivenUp(more)
        <5> SUFFICES ASSUME n + 1 >= ModelErrors, \A j \in n - ModelErrors + 2 .. n : outs[j]
                     PROVE  FALSE
          BY <2>1, <2>4
        <5>1. n - errors \in n - ModelErrors + 2 .. n /\ errors < n
          BY <1>2, <3>2, <3>4
        <5> QED
          BY <2>1, <5>1
      <4> DEFINE e == errors + 1
                 m == n + 1
      <4>2. \A j \in m - e + 1 .. m : more[j]
        <5> SUFFICES ASSUME NEW j \in m - e + 1 .. m
                     PROVE  more[j]
          OBVIOUS
        <5>1. CASE j = n + 1
          BY <2>3, <2>6, <5>1
        <5>2. CASE j # n + 1
          <6>1. j \in n - errors + 1 .. n /\ j \in 1 .. n
            BY <1>2, <3>2, <5>2
          <6> QED
            BY <2>1, <2>3, <6>1
        <5> QED
          BY <5>1, <5>2
      <4>3. e < m => ~more[m - e]
        <5> SUFFICES ASSUME e < m
                     PROVE  ~more[m - e]
          OBVIOUS
        <5>1. n - errors \in 1 .. n /\ m - e = n - errors /\ errors < n
          BY <1>2, <3>2
        <5> QED
          BY <2>1, <2>3, <5>1
      <4>4. errors + 1 \in 0 .. n + 1
        BY <1>2, <3>2
      <4>5. /\ model'.active = TRUE /\ model'.errors = e /\ Len(more) = m
            /\ e \in 0 .. m /\ e < ModelErrors /\ ~GivenUp(more)
            /\ \A j \in m - e + 1 .. m : more[j]
            /\ e < m => ~more[m - e]
        <5>1. model'.active = TRUE /\ model'.errors = e /\ Len(more) = m
          BY <2>3, <3>3, <3>4
        <5>2. e \in 0 .. m /\ e < ModelErrors /\ ~GivenUp(more)
          BY <3>4, <4>1, <4>4
        <5> QED
          BY <4>2, <4>3, <5>1, <5>2, Zenon
      <4> HIDE DEF errors, e, m
      <4> QED
        BY <2>2, <2>3, <3>3, <4>5 DEF ModelInv
    <3>5. CASE ~(errors + 1 < ModelErrors)
      <4>1. errors + 1 = ModelErrors /\ n + 1 >= ModelErrors
        BY <1>2, <2>1, <3>2, <3>5
      <4>2. n - ModelErrors + 2 = n - errors + 1
        BY <1>2, <3>2, <4>1
      <4>3. GivenUp(more)
        BY <2>1, <2>4, <2>6, <4>1, <4>2
      <4> HIDE DEF errors
      <4> QED
        BY <2>2, <2>3, <3>3, <3>5, <4>3 DEF ModelInv
    <3> QED
      BY <3>4, <3>5
  <2> QED
    BY <1>1, <2>5, <2>6
<1> QED
  BY <1>3, <1>4

LEMMA ModelPreserved ==
  ASSUME ModelInv, DgaBurst!Next
  PROVE  ModelInv'
<1>1. "outcomes" \in DOMAIN history
  BY DEF ModelInv
<1>2. CASE \E q \in DgaBurst!Query : DgaBurst!Observe(q) \/ DgaBurst!Answered(q)
  <2>1. PICK q \in DgaBurst!Query : DgaBurst!Observe(q) \/ DgaBurst!Answered(q)
    BY <1>2
  <2>2. model' = DgaBurst!After(q)
    BY <2>1 DEF DgaBurst!Observe, DgaBurst!Answered
  <2>3. CASE DgaBurst!Observe(q)
    <3>1. \E run : history' = [run |-> run, outcomes |-> DgaBurst!Inferred(q)]
      BY <2>3, Zenon DEF DgaBurst!Observe, DgaBurst!Handle
    <3>2. "outcomes" \in DOMAIN history' /\ history'.outcomes = DgaBurst!Inferred(q)
      BY <3>1
    <3> QED
      BY <2>2, <3>2, ModelScores
  <2>4. CASE DgaBurst!Answered(q)
    <3>1. history' = [history EXCEPT !.outcomes = DgaBurst!Inferred(q)]
      BY <2>4 DEF DgaBurst!Answered, DgaBurst!Ignore, DgaBurst!Handle
    <3>2. "outcomes" \in DOMAIN history' /\ history'.outcomes = DgaBurst!Inferred(q)
      BY <1>1, <3>1
    <3> QED
      BY <2>2, <3>2, ModelScores
  <2> QED
    BY <2>1, <2>3, <2>4
<1>3. CASE DgaBurst!Reload
  <2>1. /\ model' \in [active: BOOLEAN, errors: {0}]
        /\ history' = [history EXCEPT !.outcomes = << >>]
    BY <1>3 DEF DgaBurst!Reload, DgaBurst!Load
  <2>2. "outcomes" \in DOMAIN history' /\ history'.outcomes = << >>
    BY <1>1, <2>1
  <2>3. << >> \in Seq(BOOLEAN) /\ Len(<< >>) = 0 /\ ModelErrors \in Nat \ {0}
    BY Durations
  <2>4. ~GivenUp(<< >>)
    BY <2>3 DEF GivenUp
  <2> QED
    BY <2>1, <2>2, <2>3, <2>4 DEF ModelInv
<1>4. CASE DgaBurst!OnTimer
  <2>1. model' = model /\ (history' = history \/ history' = [history EXCEPT !.run = << >>])
    BY <1>4 DEF DgaBurst!OnTimer, DgaBurst!Expire, DgaBurst!Tick
  <2>2. "outcomes" \in DOMAIN history' /\ history'.outcomes = history.outcomes
    BY <1>1, <2>1
  <2> QED
    BY <2>1, <2>2 DEF ModelInv
<1> QED
  BY <1>2, <1>3, <1>4 DEF DgaBurst!Next

\* The model is given up exactly after so many errors in a row, and until it is loaded
\* again, for every number of errors and any outcomes of the inferences
\* (dga_model.py:108-125, docs/failure-model.md:17).
THEOREM GivenUpExactly ==
  Spec => []ModelGivesUp
<1> DEFINE I == op = "burst" => ModelInv
<1>1. Init => I
  BY ModelInit DEF Init
<1>2. I /\ [Next]_<<vars, op, model>> => I'
  <2> SUFFICES ASSUME I, [Next]_<<vars, op, model>>, op' = "burst"
               PROVE  ModelInv'
    OBVIOUS
  <2>1. CASE UNCHANGED <<vars, op, model>>
    BY <2>1 DEF vars, ModelInv
  <2>2. CASE Next
    <3>1. op = "burst"
      BY <2>2, OneOperator
    <3>2. DgaBurst!Next
      BY <2>2, <3>1 DEF Next, RunFlowDelta, RunScan, RunDdos, RunBeacon, RunExfil,
                        RunEncrypted, RunDnsDomain, RunDgaBurst
    <3> QED
      BY <3>1, <3>2, ModelPreserved
  <2> QED
    BY <2>1, <2>2
<1>3. I => ModelGivesUp
  <2> SUFFICES ASSUME ModelInv, history.outcomes # << >>
               PROVE  model.active <=> ~GivenUp(history.outcomes)
    BY DEF ModelGivesUp, DgaBurst!ModelGivesUp, GivenUp, ErrorsFrom
  <2> QED
    BY DEF ModelInv
<1> QED
  BY <1>1, <1>2, <1>3, PTL DEF Spec

-----------------------------------------------------------------------------
(***************************************************************************)
(* Sums over a set                                                         *)
(***************************************************************************)

\* A sum over t, given those over smaller sets: one element is taken at a time.
SumOf(g, F, t) ==
  IF t = {} THEN 0 ELSE LET x == CHOOSE x \in t : TRUE IN g[t \ {x}] + F[x]

Smaller(S, m) == {t \in SUBSET S : Cardinality(t) <= m}

\* The sums over all small subsets.
Sums(g, F, S, m) == g \in [Smaller(S, m) -> Nat] /\ \A t \in Smaller(S, m) : g[t] = SumOf(g, F, t)

\* Taking an element leaves a smaller set.
LEMMA OneTaken ==
  ASSUME NEW S, IsFiniteSet(S), NEW m \in Nat, NEW t \in Smaller(S, m + 1), t # {}
  PROVE  LET x == CHOOSE x \in t : TRUE IN x \in t /\ x \in S /\ t \ {x} \in Smaller(S, m)
<1> DEFINE x == CHOOSE x \in t : TRUE
<1>1. x \in t /\ t \in SUBSET S
  BY DEF Smaller
<1>2. IsFiniteSet(t)
  BY <1>1, FS_Subset
<1> HIDE DEF x
<1>3. Cardinality(t \ {x}) = Cardinality(t) - 1 /\ Cardinality(t) \in Nat
  BY <1>1, <1>2, FS_RemoveElement, FS_CardinalityType
<1>4. Cardinality(t) <= m + 1
  BY DEF Smaller
<1>5. Cardinality(t \ {x}) <= m
  BY <1>3, <1>4
<1>6. t \ {x} \in Smaller(S, m)
  BY <1>1, <1>5 DEF Smaller
<1> QED
  BY <1>1, <1>6 DEF x

LEMMA NothingToSum ==
  ASSUME NEW S, IsFiniteSet(S), NEW F \in [S -> Nat]
  PROVE  \E g : Sums(g, F, S, 0)
<1> DEFINE g == [t \in Smaller(S, 0) |-> 0]
<1>1. \A t \in Smaller(S, 0) : t = {}
  <2> SUFFICES ASSUME NEW t \in Smaller(S, 0)
               PROVE  t = {}
    OBVIOUS
  <2>1. IsFiniteSet(t) /\ Cardinality(t) <= 0
    BY FS_Subset DEF Smaller
  <2>2. Cardinality(t) = 0
    BY <2>1, FS_CardinalityType
  <2> QED
    BY <2>1, <2>2, FS_EmptySet
<1>2. Sums(g, F, S, 0)
  BY <1>1 DEF Sums, SumOf
<1> QED
  BY <1>2

LEMMA OneMoreToSum ==
  ASSUME NEW S, IsFiniteSet(S), NEW F \in [S -> Nat], NEW m \in Nat, NEW f, Sums(f, F, S, m)
  PROVE  \E g : Sums(g, F, S, m + 1)
<1> DEFINE g == [t \in Smaller(S, m + 1) |-> SumOf(f, F, t)]
<1>1. ASSUME NEW t \in Smaller(S, m)
      PROVE  t \in Smaller(S, m + 1) /\ g[t] = f[t]
  <2>1. t \in Smaller(S, m + 1)
    <3>1. IsFiniteSet(t) /\ Cardinality(t) <= m /\ t \in SUBSET S
      BY FS_Subset DEF Smaller
    <3>2. Cardinality(t) <= m + 1
      BY <3>1, FS_CardinalityType
    <3> QED
      BY <3>1, <3>2 DEF Smaller
  <2> QED
    BY <2>1 DEF Sums
<1>2. ASSUME NEW t \in Smaller(S, m + 1)
      PROVE  SumOf(f, F, t) \in Nat /\ SumOf(g, F, t) = SumOf(f, F, t)
  <2>1. CASE t = {}
    BY <2>1 DEF SumOf
  <2>2. CASE t # {}
    <3> DEFINE x == CHOOSE x \in t : TRUE
    <3>1. x \in S /\ t \ {x} \in Smaller(S, m)
      BY <2>2, OneTaken
    <3>2. g[t \ {x}] = f[t \ {x}]
      BY <1>1, <3>1
    <3>3. f[t \ {x}] \in Nat /\ F[x] \in Nat
      BY <3>1 DEF Sums
    <3>4. SumOf(f, F, t) = f[t \ {x}] + F[x]
      BY <2>2 DEF SumOf
    <3> HIDE DEF g
    <3>5. SumOf(g, F, t) = g[t \ {x}] + F[x]
      BY <2>2 DEF SumOf
    <3> HIDE DEF x
    <3> QED
      BY <3>2, <3>3, <3>4, <3>5
  <2> QED
    BY <2>1, <2>2
<1>3. Sums(g, F, S, m + 1)
  BY <1>2 DEF Sums
<1> QED
  BY <1>3

LEMMA SumsExist ==
  ASSUME NEW S, IsFiniteSet(S), NEW F \in [S -> Nat], NEW n \in Nat
  PROVE  \E g : Sums(g, F, S, n)
<1> DEFINE Bad == {i \in Nat : ~(\E g : Sums(g, F, S, i))}
<1> SUFFICES ASSUME Bad # {}
             PROVE  FALSE
  OBVIOUS
<1>1. Bad \in SUBSET Nat
  OBVIOUS
<1> DEFINE m == Min(Bad)
<1>2. m \in Bad /\ \A i \in Bad : m <= i
  BY <1>1, Smallest
<1>3. m \in Nat /\ ~(\E g : Sums(g, F, S, m))
  BY <1>2
<1> HIDE DEF m
<1>4. m # 0
  BY <1>3, NothingToSum
<1>5. m - 1 \in Nat /\ m - 1 \notin Bad
  BY <1>2, <1>3, <1>4
<1>6. \E g : Sums(g, F, S, m - 1)
  BY <1>5
<1>7. m - 1 + 1 = m
  BY <1>3
<1>8. \E g : Sums(g, F, S, m)
  <2>1. PICK f : Sums(f, F, S, m - 1)
    BY <1>6
  <2>2. \E g : Sums(g, F, S, (m - 1) + 1)
    BY <1>5, <2>1, OneMoreToSum
  <2>3. (m - 1) + 1 = m
    BY <1>3
  <2> QED
    BY <2>2, <2>3
<1> QED
  BY <1>3, <1>8

\* The sums over all subsets of a finite set.
LEMMA AllSums ==
  ASSUME NEW S, IsFiniteSet(S), NEW F \in [S -> Nat]
  PROVE  /\ \E f : f = [t \in SUBSET S |-> SumOf(f, F, t)]
         /\ Smaller(S, Cardinality(S)) = SUBSET S /\ Cardinality(S) \in Nat
<1>1. Cardinality(S) \in Nat
  BY FS_CardinalityType
<1>2. Smaller(S, Cardinality(S)) = SUBSET S
  <2>1. \A t \in SUBSET S : Cardinality(t) <= Cardinality(S)
    BY FS_Subset
  <2> QED
    BY <2>1 DEF Smaller
<1>3. PICK f : Sums(f, F, S, Cardinality(S))
  BY <1>1, SumsExist
<1>4. f = [t \in SUBSET S |-> SumOf(f, F, t)]
  BY <1>2, <1>3 DEF Sums
<1> QED
  BY <1>1, <1>2, <1>4

\* The sum of numbers over a finite set is a number.
LEMMA SumType ==
  ASSUME NEW S, IsFiniteSet(S), NEW F \in [S -> Nat],
         NEW sum, sum = [t \in SUBSET S |-> SumOf(sum, F, t)]
  PROVE  sum[S] \in Nat
<1> DEFINE Bad == {i \in Nat : \E t \in Smaller(S, i) : sum[t] \notin Nat}
<1>1. Bad = {}
  <2> SUFFICES ASSUME Bad # {}
               PROVE  FALSE
    OBVIOUS
  <2> DEFINE m == Min(Bad)
  <2>1. m \in Bad /\ \A i \in Bad : m <= i
    BY Smallest
  <2>2. PICK t \in Smaller(S, m) : sum[t] \notin Nat
    BY <2>1
  <2>3. m \in Nat
    BY <2>1
  <2> HIDE DEF m
  <2>4. t \in SUBSET S /\ sum[t] = SumOf(sum, F, t)
    BY <2>2 DEF Smaller
  <2>5. t # {}
    BY <2>2, <2>4 DEF SumOf
  <2>6. m # 0
    <3> SUFFICES ASSUME m = 0
                 PROVE  FALSE
      OBVIOUS
    <3>1. IsFiniteSet(t) /\ Cardinality(t) <= 0
      BY <2>2, <2>4, FS_Subset DEF Smaller
    <3>2. Cardinality(t) = 0
      BY <3>1, FS_CardinalityType
    <3> QED
      BY <2>5, <3>1, <3>2, FS_EmptySet
  <2> DEFINE x == CHOOSE x \in t : TRUE
  <2>7. m - 1 \in Nat /\ (m - 1) + 1 = m
    BY <2>3, <2>6
  <2>8. x \in S /\ t \ {x} \in Smaller(S, m - 1)
    <3>1. t \in Smaller(S, (m - 1) + 1)
      BY <2>2, <2>7
    <3> QED
      BY <2>5, <2>7, <3>1, OneTaken
  <2>9. m - 1 \notin Bad
    <3> HIDE DEF Bad
    <3> SUFFICES ASSUME m - 1 \in Bad
                 PROVE  FALSE
      OBVIOUS
    <3>1. m <= m - 1
      BY <2>1
    <3> QED
      BY <2>3, <3>1
  <2>10. sum[t \ {x}] \in Nat /\ F[x] \in Nat
    BY <2>7, <2>8, <2>9
  <2>11. SumOf(sum, F, t) = sum[t \ {x}] + F[x]
    BY <2>5 DEF SumOf
  <2> HIDE DEF x
  <2> QED
    BY <2>2, <2>4, <2>10, <2>11
<1>2. S \in Smaller(S, Cardinality(S)) /\ Cardinality(S) \in Nat
  BY AllSums
<1> QED
  BY <1>1, <1>2

-----------------------------------------------------------------------------
(***************************************************************************)
(* A flood's findings                                                      *)
(***************************************************************************)

\* The seconds that are kept.
Seconds(b) == DOMAIN b \subseteq 0 .. TimeOf["ddos"] /\ b \in [DOMAIN b -> Ddos!SecondState]

LEMMA SecondsAre ==
  ASSUME NEW b
  PROVE  Seconds(b) <=> b \in Ddos!Maps(0 .. TimeOf["ddos"], Ddos!SecondState)
BY DEF Seconds, Ddos!Maps

\* A window's flows are counted.
LEMMA WindowFlowsType ==
  ASSUME NEW s, Seconds(s.buckets), NEW sec \in Nat
  PROVE  Ddos!WindowFlows(s, sec) \in Nat
<1> DEFINE W == {k \in DOMAIN s.buckets : sec - DdosWindow <= k /\ k <= sec}
           F == [k \in W |-> s.buckets[k].load["flow"]]
           Body(g) == [t \in SUBSET W |->
                         IF t = {} THEN 0
                         ELSE LET x == CHOOSE x \in t : TRUE
                              IN g[t \ {x}] + s.buckets[x].load["flow"]]
           it == CHOOSE g : g = Body(g)
<1>1. Ddos!WindowFlows(s, sec) = it[W]
  BY Zenon DEF Ddos!WindowFlows, Ddos!FoldSet, Ddos!MapThenFoldSet
<1>2. W \in SUBSET Nat /\ \A k \in W : k <= sec
  BY DEF Seconds
<1>3. IsFiniteSet(W)
  BY <1>2, FS_BoundedSetOfNaturals
<1>4. F \in [W -> Nat]
  <2>1. ASSUME NEW k \in W
        PROVE  s.buckets[k].load["flow"] \in Nat
    <3>1. s.buckets[k] \in Ddos!SecondState
      BY DEF Seconds
    <3>2. s.buckets[k].load \in [Ddos!Kinds -> Nat] /\ "flow" \in Ddos!Kinds
      BY <3>1 DEF Ddos!SecondState, Ddos!Kinds
    <3> QED
      BY <3>2
  <2> QED
    BY <2>1
<1>5. ASSUME NEW g
      PROVE  Body(g) = [t \in SUBSET W |-> SumOf(g, F, t)]
  <2>1. ASSUME NEW t \in SUBSET W, t # {}
        PROVE  LET x == CHOOSE x \in t : TRUE IN F[x] = s.buckets[x].load["flow"]
    <3> DEFINE x == CHOOSE x \in t : TRUE
    <3>1. x \in W
      BY <2>1
    <3> HIDE DEF x
    <3> QED
      BY <3>1 DEF x
  <2> HIDE DEF W, F
  <2>2. ASSUME NEW t \in SUBSET W
        PROVE  SumOf(g, F, t) = IF t = {} THEN 0
                                ELSE LET x == CHOOSE x \in t : TRUE
                                     IN g[t \ {x}] + s.buckets[x].load["flow"]
    <3>1. CASE t = {}
      BY <3>1 DEF SumOf
    <3>2. CASE t # {}
      BY <2>1, <3>2 DEF SumOf
    <3> QED
      BY <3>1, <3>2
  <2> QED
    BY <2>2, Zenon
<1> HIDE DEF Body, W, F
<1>6. \E g : g = [t \in SUBSET W |-> SumOf(g, F, t)]
  <2>1. \A S : \A G \in [S -> Nat] :
          IsFiniteSet(S) => \E g : g = [t \in SUBSET S |-> SumOf(g, G, t)]
    BY AllSums
  <2>2. \A G \in [W -> Nat] : IsFiniteSet(W) => \E g : g = [t \in SUBSET W |-> SumOf(g, G, t)]
    BY <2>1, Zenon
  <2>3. IsFiniteSet(W) => \E g : g = [t \in SUBSET W |-> SumOf(g, F, t)]
    BY <1>4, <2>2, Zenon
  <2> QED
    BY <1>3, <2>3, Zenon
<1>7. it = Body(it)
  BY <1>5, <1>6, Zenon
<1>8. it = [t \in SUBSET W |-> SumOf(it, F, t)]
  BY <1>5, <1>7, Zenon
<1> HIDE DEF it
<1>9. it[W] \in Nat
  BY <1>3, <1>4, <1>8, SumType
<1> QED
  BY <1>1, <1>9 DEF it, Body, W

Evidence == [rank: Int, prio: Int, flows: Nat]

\* What was found falls short of the evidence in no rank and priority, and by less than
\* half the flows.
Covers(found, peak) ==
  /\ found.rank >= peak.rank /\ found.prio >= peak.prio
  /\ peak.flows < 2 * Ddos!Max({1, found.flows})

\* An episode remembers the strongest of its findings, and the flows of the last one.
EpisodeIs(ep, found) ==
  /\ ep \in Ddos!EpisodeState
  /\ ep.rank = found.rank /\ ep.prio = found.prio /\ ep.flows <= found.flows

\* Another anomalous second: either it is reported, or the last findings cover it
\* (ddos.py:96-98).
LEMMA EvidenceCovered ==
  ASSUME NEW peak \in Evidence, NEW found \in Evidence, Covers(found, peak),
         NEW ep, EpisodeIs(ep, found),
         NEW rank \in Int, NEW prio \in Int, NEW flows \in Nat
  PROVE  LET out == Ddos!Reports(ep, rank, prio, flows)
             more == Ddos!Stronger(found, rank, prio, flows)
             peak2 == Ddos!Stronger(peak, rank, prio, flows)
             found2 == IF out THEN more ELSE found
             ep2 == IF out THEN [ep EXCEPT !.rank = Ddos!Max({@, rank}),
                                           !.prio = Ddos!Max({@, prio}), !.flows = flows]
                    ELSE ep
         IN /\ peak2 \in Evidence /\ found2 \in Evidence /\ Covers(found2, peak2)
            /\ EpisodeIs(ep2, found2)
<1> DEFINE Top(a, b) == IF a >= b THEN a ELSE b
           out == Ddos!Reports(ep, rank, prio, flows)
<1>1. /\ peak.rank \in Int /\ peak.prio \in Int /\ peak.flows \in Nat
      /\ found.rank \in Int /\ found.prio \in Int /\ found.flows \in Nat
  BY DEF Evidence
<1>2. /\ ep.rank = found.rank /\ ep.prio = found.prio /\ ep.flows \in Nat
      /\ ep.flows <= found.flows /\ ep \in Ddos!EpisodeState
  BY DEF EpisodeIs, Ddos!EpisodeState
<1>3. \A a, b \in Int : Ddos!Max({a, b}) = Top(a, b)
  BY DdosMax
<1>4. /\ found.rank >= peak.rank /\ found.prio >= peak.prio
      /\ peak.flows < 2 * Top(1, found.flows)
  BY <1>1, <1>3 DEF Covers
<1>5. ASSUME NEW x \in Evidence
      PROVE  Ddos!Stronger(x, rank, prio, flows) =
               [rank |-> Top(x.rank, rank), prio |-> Top(x.prio, prio),
                flows |-> Top(x.flows, flows)]
  <2>1. x.rank \in Int /\ x.prio \in Int /\ x.flows \in Int
    BY DEF Evidence
  <2>2. /\ Ddos!Max({x.rank, rank}) = Top(x.rank, rank)
        /\ Ddos!Max({x.prio, prio}) = Top(x.prio, prio)
        /\ Ddos!Max({x.flows, flows}) = Top(x.flows, flows)
    BY <1>3, <2>1
  <2> HIDE DEF Top
  <2> QED
    BY <2>2 DEF Ddos!Stronger
<1>6. \A a, b \in Int : Top(a, b) \in Int /\ Top(a, b) >= a /\ Top(a, b) >= b
  OBVIOUS
<1>7. Ddos!Stronger(peak, rank, prio, flows) \in Evidence
  BY <1>1, <1>5 DEF Evidence
<1>8. Ddos!Stronger(found, rank, prio, flows) \in Evidence
  BY <1>1, <1>5 DEF Evidence
<1>9. CASE out
  <2> DEFINE more == Ddos!Stronger(found, rank, prio, flows)
             peak2 == Ddos!Stronger(peak, rank, prio, flows)
             r == Ddos!Max({ep.rank, rank})
             p == Ddos!Max({ep.prio, prio})
             ep2 == [ep EXCEPT !.rank = r, !.prio = p, !.flows = flows]
  <2>1. /\ more.rank = Top(found.rank, rank) /\ more.prio = Top(found.prio, prio)
        /\ more.flows = Top(found.flows, flows)
    BY <1>5
  <2>2. /\ peak2.rank = Top(peak.rank, rank) /\ peak2.prio = Top(peak.prio, prio)
        /\ peak2.flows = Top(peak.flows, flows)
    BY <1>5
  <2>3. r = Top(found.rank, rank) /\ p = Top(found.prio, prio)
    BY <1>1, <1>2, <1>3
  <2> HIDE DEF more, peak2, r, p
  <2>4. more.rank >= peak2.rank /\ more.prio >= peak2.prio
    BY <1>1, <1>4, <2>1, <2>2
  <2>5. peak2.flows < 2 * Top(1, more.flows)
    BY <1>1, <1>4, <2>1, <2>2
  <2>6. more.flows \in Int
    BY <1>1, <2>1
  <2>7. Covers(more, peak2)
    BY <1>3, <2>4, <2>5, <2>6 DEF Covers
  <2>8. /\ ep2 \in Ddos!EpisodeState
        /\ ep2.rank = r /\ ep2.prio = p /\ ep2.flows = flows
    <3>1. r \in Int /\ p \in Int
      BY <1>1, <1>6, <2>3
    <3> QED
      BY <1>2, <3>1 DEF Ddos!EpisodeState
  <2>9. flows <= more.flows
    BY <1>1, <2>1
  <2> HIDE DEF ep2
  <2>10. EpisodeIs(ep2, more)
    BY <2>1, <2>3, <2>8, <2>9 DEF EpisodeIs
  <2> QED
    BY <1>7, <1>8, <1>9, <2>7, <2>10, Zenon DEF more, peak2, r, p, ep2
<1>10. CASE ~out
  <2> DEFINE peak2 == Ddos!Stronger(peak, rank, prio, flows)
  <2>1. /\ peak2.rank = Top(peak.rank, rank) /\ peak2.prio = Top(peak.prio, prio)
        /\ peak2.flows = Top(peak.flows, flows)
    BY <1>5
  <2>2. ~(rank > ep.rank) /\ ~(prio > ep.prio) /\ ~(flows >= 2 * Ddos!Max({1, ep.flows}))
    BY <1>10 DEF Ddos!Reports
  <2>3. Ddos!Max({1, ep.flows}) = Top(1, ep.flows)
    BY <1>2, <1>3
  <2> HIDE DEF peak2
  <2>4. found.rank >= peak2.rank /\ found.prio >= peak2.prio
    BY <1>1, <1>2, <1>4, <2>1, <2>2
  <2>5. peak2.flows < 2 * Top(1, found.flows)
    BY <1>1, <1>2, <1>4, <2>1, <2>2, <2>3
  <2>6. Covers(found, peak2)
    BY <1>1, <1>3, <2>4, <2>5 DEF Covers
  <2> QED
    BY <1>7, <1>10, <2>6, Zenon DEF peak2
<1> QED
  BY <1>9, <1>10

LEMMA TargetFields ==
  ASSUME NEW s
  PROVE  s \in Ddos!TargetState <=>
           /\ s = [buckets |-> s.buckets, warmth |-> s.warmth, episode |-> s.episode,
                   last |-> s.last]
           /\ Seconds(s.buckets) /\ s.warmth \in Nat /\ s.last \in Nat
           /\ s.episode \in {None} \cup Ddos!EpisodeState
BY SecondsAre DEF Ddos!TargetState

\* The seconds have their loads, and the episode is that of the findings.
DdosInv ==
  /\ state # None =>
       /\ state \in Ddos!TargetState
       /\ state.episode # None => EpisodeIs(state.episode, history.found)
  /\ "peak" \in DOMAIN history /\ "found" \in DOMAIN history
  /\ history.peak \in Evidence /\ history.found \in Evidence
  /\ Covers(history.found, history.peak)

\* Where nothing was found, nothing was to be found.
LEMMA NothingFound ==
  Ddos!NoEvidence \in Evidence /\ Covers(Ddos!NoEvidence, Ddos!NoEvidence)
<1>1. Ddos!Max({1, 0}) = 1
  BY DdosMax
<1> QED
  BY <1>1 DEF Ddos!NoEvidence, Evidence, Covers

\* Counting an event keeps the seconds, and touches no episode (ddos.py:38-61).
LEMMA SecondsCounted ==
  ASSUME NEW e \in Ddos!Delta, state = None \/ state \in Ddos!TargetState
  PROVE  LET s == Ddos!Counted(e)
         IN /\ s \in Ddos!TargetState /\ s.episode = Ddos!Current.episode
            /\ e.obs \in DOMAIN s.buckets
<1> DEFINE c == Ddos!Current
           L == Ddos!Learns(c, e.obs)
           K == {k \in DOMAIN c.buckets : k >= e.obs - KeepBuckets}
           b == [k \in K |-> [c.buckets[k] EXCEPT !.closed = @ \/ k < e.obs]]
           w == c.warmth + Ddos!Cardinality(L)
           z == Ddos!Closed(c, e.obs)
           add == Ddos!Added(Ddos!Bucket(z, e.obs), e.load)
           b2 == Ddos!Put(b, e.obs, add)
<1>1. c \in Ddos!TargetState
  <2>1. CASE state = None
    <3>1. << >> \in [{} -> Ddos!SecondState] /\ DOMAIN << >> = {}
      OBVIOUS
    <3> QED
      BY <2>1, <3>1, SecondsAre DEF Ddos!Current, Ddos!Empty, Seconds, Ddos!TargetState
  <2>2. CASE state # None
    BY <2>2 DEF Ddos!Current
  <2> QED
    BY <2>1, <2>2
<1>2. e.obs \in Nat /\ e.obs \in 0 .. TimeOf["ddos"]
  BY DEF Ddos!Delta
<1> HIDE DEF c
<1>9. Seconds(c.buckets) /\ c.warmth \in Nat
  BY <1>1, TargetFields
<1>10. w \in Nat
  <2>1. L \in SUBSET Nat /\ \A k \in L : k <= e.obs
    BY <1>2, <1>9 DEF Ddos!Learns, Seconds
  <2>2. IsFiniteSet(L)
    BY <1>2, <2>1, FS_BoundedSetOfNaturals
  <2>3. Ddos!Cardinality(L) \in Nat
    BY <2>2, FS_CardinalityType, DdosCardinality
  <2> HIDE DEF L
  <2> QED
    BY <1>9, <2>3
<1>3. z = [c EXCEPT !.warmth = w, !.buckets = b]
  BY DEF Ddos!Closed
<1>4. Seconds(b)
  <2>1. ASSUME NEW k \in K
        PROVE  [c.buckets[k] EXCEPT !.closed = @ \/ k < e.obs] \in Ddos!SecondState
    <3>1. c.buckets[k] \in Ddos!SecondState
      BY <1>9 DEF Seconds
    <3> QED
      BY <3>1 DEF Ddos!SecondState
  <2>2. K \subseteq 0 .. TimeOf["ddos"]
    BY <1>9 DEF Seconds
  <2> HIDE DEF K
  <2> QED
    BY <2>1, <2>2 DEF Seconds
<1> HIDE DEF b, w
<1>5. z \in Ddos!TargetState /\ z.buckets = b /\ z.episode = c.episode
  BY <1>1, <1>3, <1>4, <1>10, SecondsAre DEF Ddos!TargetState
<1> HIDE DEF z
<1>6. add \in Ddos!SecondState
  <2> DEFINE old == Ddos!Bucket(z, e.obs)
  <2>1. old \in Ddos!SecondState
    BY <1>4, <1>5 DEF Ddos!Bucket, Ddos!NewBucket, Seconds, Ddos!SecondState, Ddos!Kinds
  <2> HIDE DEF old
  <2>2. ASSUME NEW k \in Ddos!Kinds
        PROVE  (IF e.load # "more" /\ k \in {"flow", e.load} THEN old.load[k] + 1 ELSE old.load[k])
                 \in Nat
    <3>1. old.load[k] \in Nat
      BY <2>1 DEF Ddos!SecondState
    <3> QED
      BY <3>1
  <2>3. [k \in Ddos!Kinds |->
           IF e.load # "more" /\ k \in {"flow", e.load} THEN old.load[k] + 1 ELSE old.load[k]]
          \in [Ddos!Kinds -> Nat]
    BY <2>2
  <2> QED
    BY <2>1, <2>3 DEF Ddos!Added, Ddos!SecondState, old
<1> HIDE DEF add
<1>7. Seconds(b2) /\ e.obs \in DOMAIN b2
  BY <1>2, <1>4, <1>6 DEF Ddos!Put, Seconds
<1>8. Ddos!Counted(e) = [z EXCEPT !.buckets = b2, !.last = e.obs]
  BY <1>5 DEF Ddos!Counted, z, add, c
<1> HIDE DEF b2
<1> QED
  BY <1>2, <1>5, <1>7, <1>8, SecondsAre DEF Ddos!TargetState, c

LEMMA EpisodeInit ==
  ASSUME Ddos!Init
  PROVE  DdosInv
<1>1. /\ state = None
      /\ "peak" \in DOMAIN history /\ history.peak = Ddos!NoEvidence
      /\ "found" \in DOMAIN history /\ history.found = Ddos!NoEvidence
  BY DEF Ddos!Init, Ddos!Start
<1> QED
  BY <1>1, NothingFound DEF DdosInv

\* An event that is no flood changes no episode (ddos.py:87-88).
LEMMA EpisodeCalm ==
  ASSUME DdosInv, NEW e \in Ddos!Delta, Ddos!Calm(e, Ddos!Counted(e))
  PROVE  DdosInv' /\ state' \in Ddos!TargetState
<1> DEFINE s == Ddos!Counted(e)
<1>1. s \in Ddos!TargetState /\ s.episode = Ddos!Current.episode
  BY SecondsCounted DEF DdosInv
<1>2. s.episode # None => EpisodeIs(s.episode, history.found)
  <2>1. CASE state = None
    BY <1>1, <2>1 DEF Ddos!Current, Ddos!Empty
  <2>2. CASE state # None
    BY <1>1, <2>2 DEF Ddos!Current, DdosInv
  <2> QED
    BY <2>1, <2>2
<1>3. state' = s /\ history' = Ddos!Noted(e)
  BY DEF Ddos!Calm, Ddos!Handle
<1>4. \E r, l : history' = [history EXCEPT !.received = r, !.learned = l]
  BY <1>3, Zenon DEF Ddos!Noted
<1>5. /\ "peak" \in DOMAIN history' /\ history'.peak = history.peak
      /\ "found" \in DOMAIN history' /\ history'.found = history.found
  BY <1>4 DEF DdosInv
<1> HIDE DEF s
<1> QED
  BY <1>1, <1>2, <1>3, <1>5 DEF DdosInv

\* A flood: the episode goes on or another begins, and its findings keep up
\* (ddos.py:88-98).
LEMMA EpisodeFlood ==
  ASSUME DdosInv, NEW e \in Ddos!Delta, Ddos!Flood(e, Ddos!Counted(e))
  PROVE  DdosInv' /\ state' \in Ddos!TargetState
<1> DEFINE s == Ddos!Counted(e)
           flows == Ddos!WindowFlows(s, e.obs)
           ep == Ddos!Episode(s, e)
           peak == IF Ddos!Ongoing(s, e) THEN history.peak ELSE Ddos!NoEvidence
           found == IF Ddos!Ongoing(s, e) THEN history.found ELSE Ddos!NoEvidence
           Next2(rank, prio) ==
             IF Ddos!Reports(ep, rank, prio, flows)
             THEN [ep EXCEPT !.rank = Ddos!Max({@, rank}), !.prio = Ddos!Max({@, prio}),
                             !.flows = flows]
             ELSE ep
           Peak2(rank, prio) == Ddos!Stronger(peak, rank, prio, flows)
           Found2(rank, prio) ==
             IF Ddos!Reports(ep, rank, prio, flows)
             THEN Ddos!Stronger(found, rank, prio, flows) ELSE found
<1>1. s \in Ddos!TargetState /\ s.episode = Ddos!Current.episode /\ e.obs \in DOMAIN s.buckets
  BY SecondsCounted DEF DdosInv
<1>2. s.episode # None => EpisodeIs(s.episode, history.found)
  <2>1. CASE state = None
    BY <1>1, <2>1 DEF Ddos!Current, Ddos!Empty
  <2>2. CASE state # None
    BY <1>1, <2>2 DEF Ddos!Current, DdosInv
  <2> QED
    BY <2>1, <2>2
<1>3. PICK rank \in {3, 4}, prio \in Ddos!Possible(e, s) \ {-1} :
        /\ state' = [s EXCEPT !.buckets[e.obs].anomalous = TRUE, !.episode = Next2(rank, prio)]
        /\ history' = [Ddos!Noted(e) EXCEPT !.peak = Peak2(rank, prio),
                                           !.found = Found2(rank, prio)]
  BY Zenon DEF Ddos!Flood, Ddos!Handle
<1>4. rank \in Int /\ prio \in Int
  <2>1. ASSUME NEW bucket, NEW threshold, NEW p \in Ddos!Priorities(bucket, threshold)
        PROVE  p \in Int
    BY DEF Ddos!Priorities
  <2>2. \E threshold : prio \in Ddos!Priorities(s.buckets[e.obs], threshold)
    BY DEF Ddos!Possible
  <2> QED
    BY <2>1, <2>2
<1>5. flows \in Nat
  <2>1. e.obs \in Nat
    BY DEF Ddos!Delta
  <2> HIDE DEF s
  <2> QED
    BY <1>1, <2>1, TargetFields, WindowFlowsType, Zenon
<1>6. peak \in Evidence /\ found \in Evidence /\ Covers(found, peak)
  BY NothingFound DEF DdosInv
<1>7. EpisodeIs(ep, found)
  <2>3. e.obs \in Nat
    BY DEF Ddos!Delta
  <2>1. CASE Ddos!Ongoing(s, e)
    <3>1. s.episode # None /\ EpisodeIs(s.episode, history.found)
      BY <1>2, <2>1 DEF Ddos!Ongoing
    <3>2. ep = [s.episode EXCEPT !.last = e.obs] /\ found = history.found
      BY <2>1 DEF Ddos!Episode
    <3> HIDE DEF ep, found, s
    <3> QED
      BY <2>3, <3>1, <3>2 DEF EpisodeIs, Ddos!EpisodeState
  <2>2. CASE ~Ddos!Ongoing(s, e)
    <3>1. ep = [last |-> e.obs, rank |-> -1, prio |-> -1, flows |-> 0]
      BY <2>2 DEF Ddos!Episode
    <3>2. found = [rank |-> -1, prio |-> -1, flows |-> 0]
      BY <2>2 DEF Ddos!NoEvidence
    <3> HIDE DEF ep, found
    <3> QED
      BY <2>3, <3>1, <3>2 DEF EpisodeIs, Ddos!EpisodeState
  <2> QED
    BY <2>1, <2>2
<1> HIDE DEF s, flows, ep, peak, found
<1>8. /\ Peak2(rank, prio) \in Evidence /\ Found2(rank, prio) \in Evidence
      /\ Covers(Found2(rank, prio), Peak2(rank, prio))
      /\ EpisodeIs(Next2(rank, prio), Found2(rank, prio))
  BY <1>4, <1>5, <1>6, <1>7, EvidenceCovered, Zenon
<1> DEFINE ep2 == Next2(rank, prio)
           b == [s.buckets EXCEPT ![e.obs].anomalous = TRUE]
           p2 == Peak2(rank, prio)
           f2 == Found2(rank, prio)
<1>9. state' = [s EXCEPT !.buckets = b, !.episode = ep2]
  BY <1>3
<1>10. Seconds(b)
  <2>1. s.buckets[e.obs] \in Ddos!SecondState
    BY <1>1, TargetFields DEF Seconds
  <2>2. [s.buckets[e.obs] EXCEPT !.anomalous = TRUE] \in Ddos!SecondState
    BY <2>1 DEF Ddos!SecondState
  <2>3. b = [s.buckets EXCEPT ![e.obs] = [s.buckets[e.obs] EXCEPT !.anomalous = TRUE]]
    OBVIOUS
  <2> HIDE DEF b
  <2> QED
    BY <1>1, <2>2, <2>3, TargetFields DEF Seconds
<1>11. "peak" \in DOMAIN Ddos!Noted(e) /\ "found" \in DOMAIN Ddos!Noted(e)
  <2>1. \E r, l : Ddos!Noted(e) = [history EXCEPT !.received = r, !.learned = l]
    BY Zenon DEF Ddos!Noted
  <2> QED
    BY <2>1 DEF DdosInv
<1> HIDE DEF Next2, Peak2, Found2, ep2, b, p2, f2
<1>12. history' = [Ddos!Noted(e) EXCEPT !.peak = p2, !.found = f2]
  BY <1>3 DEF p2, f2
<1>13. /\ "peak" \in DOMAIN history' /\ history'.peak = p2
       /\ "found" \in DOMAIN history' /\ history'.found = f2
  BY <1>11, <1>12
<1>16. ep2 \in Ddos!EpisodeState
  BY <1>8 DEF ep2, EpisodeIs
<1>14. state' \in Ddos!TargetState /\ state'.episode = ep2
  BY <1>1, <1>9, <1>10, <1>16, SecondsAre DEF Ddos!TargetState
<1>15. p2 \in Evidence /\ f2 \in Evidence /\ Covers(f2, p2) /\ EpisodeIs(ep2, f2)
  BY <1>8 DEF ep2, p2, f2
<1> QED
  BY <1>13, <1>14, <1>15 DEF DdosInv

LEMMA EpisodePreserved ==
  ASSUME DdosInv, Ddos!Next
  PROVE  DdosInv'
<1>1. CASE Ddos!OnTimer
  <2>1. \/ state' = state /\ history' = history
        \/ /\ state' = None
           /\ history' = [history EXCEPT !.learned = << >>, !.received = << >>,
                                         !.peak = Ddos!NoEvidence, !.found = Ddos!NoEvidence]
    BY <1>1 DEF Ddos!OnTimer, Ddos!Expire, Ddos!Tick
  <2>2. CASE state' = state /\ history' = history
    BY <2>2 DEF DdosInv
  <2>3. CASE /\ state' = None
             /\ history' = [history EXCEPT !.learned = << >>, !.received = << >>,
                                           !.peak = Ddos!NoEvidence, !.found = Ddos!NoEvidence]
    <3>1. /\ "peak" \in DOMAIN history' /\ history'.peak = Ddos!NoEvidence
          /\ "found" \in DOMAIN history' /\ history'.found = Ddos!NoEvidence
      BY <2>3 DEF DdosInv
    <3> QED
      BY <2>3, <3>1, NothingFound DEF DdosInv
  <2> QED
    BY <2>1, <2>2, <2>3
<1>2. CASE \E e \in Ddos!Delta : \E s \in {Ddos!Counted(e)} : Ddos!Calm(e, s) \/ Ddos!Flood(e, s)
  <2>1. PICK e \in Ddos!Delta :
          Ddos!Calm(e, Ddos!Counted(e)) \/ Ddos!Flood(e, Ddos!Counted(e))
    BY <1>2
  <2> QED
    BY <2>1, EpisodeCalm, EpisodeFlood
<1> QED
  BY <1>1, <1>2 DEF Ddos!Next

\* The findings of an episode keep up with its evidence: no anomalous second outranks
\* what was reported, and no window holds twice the flows of the report with the most
\* (ddos.py:95-98).
THEOREM EpisodeShownEver ==
  Spec => []EpisodeShown
<1> DEFINE I == op = "ddos" => DdosInv
<1>1. Init => I
  BY EpisodeInit DEF Init
<1>2. I /\ [Next]_<<vars, op, model>> => I'
  <2> SUFFICES ASSUME I, [Next]_<<vars, op, model>>, op' = "ddos"
               PROVE  DdosInv'
    OBVIOUS
  <2>1. CASE UNCHANGED <<vars, op, model>>
    BY <2>1 DEF vars, DdosInv
  <2>2. CASE Next
    <3>1. op = "ddos"
      BY <2>2, OneOperator
    <3>2. Ddos!Next
      BY <2>2, <3>1 DEF Next, RunFlowDelta, RunScan, RunDdos, RunBeacon, RunExfil,
                        RunEncrypted, RunDnsDomain, RunDgaBurst
    <3> QED
      BY <3>1, <3>2, EpisodePreserved
  <2> QED
    BY <2>1, <2>2
<1>3. I => EpisodeShown
  BY DEF DdosInv, Covers, EpisodeShown, Ddos!EpisodeShown
<1> QED
  BY <1>1, <1>2, <1>3, PTL DEF Spec

-----------------------------------------------------------------------------
(***************************************************************************)
(* Counts on the way                                                       *)
(***************************************************************************)

Lesser(a, b) == IF a <= b THEN a ELSE b

LEMMA PairMin ==
  ASSUME NEW a \in Nat, NEW b \in Nat
  PROVE  Min({a, b}) = Lesser(a, b)
<1>1. Min({a, b}) \in {a, b} /\ \A y \in {a, b} : Min({a, b}) <= y
  BY Smallest
<1> QED
  BY <1>1 DEF Lesser

\* The kept starts S of all starts H.
LatestOf(S, H) ==
  /\ H \in SUBSET Nat /\ IsFiniteSet(H) /\ S \subseteq H
  /\ Cardinality(S) = Lesser(BeaconMaxEvents, Cardinality(H))
  /\ \A t \in H \ S, s \in S : t < s

\* Another start: with no room left the earliest goes, which is the new one if it was
\* dropped before (beacon.py:40-45).
LEMMA LatestKept ==
  ASSUME NEW S, NEW H, LatestOf(S, H), NEW t \in Nat, t \notin S
  PROVE  LatestOf(Beacon!Latest(S, t), H \cup {t})
<1> DEFINE all == S \cup {t}
           H2 == H \cup {t}
           L == Beacon!Latest(S, t)
<1>1. /\ H \in SUBSET Nat /\ IsFiniteSet(H) /\ S \subseteq H
      /\ Cardinality(S) = Lesser(BeaconMaxEvents, Cardinality(H))
      /\ \A u \in H \ S, s \in S : u < s
  BY DEF LatestOf
<1>2. /\ IsFiniteSet(S) /\ Cardinality(S) \in Nat /\ Cardinality(H) \in Nat
      /\ Cardinality(S) <= Cardinality(H)
  BY <1>1, FS_Subset, FS_CardinalityType
<1>3. Cardinality(all) = Cardinality(S) + 1 /\ IsFiniteSet(all)
  BY <1>2, FS_AddElement
<1>4. IsFiniteSet(H2) /\ Cardinality(H2) = IF t \in H THEN Cardinality(H) ELSE Cardinality(H) + 1
  BY <1>1, FS_AddElement
<1>5. BeaconMaxEvents \in Nat \ {0}
  BY ConfigAssumption DEF Counts
<1>6. L = IF Cardinality(all) > BeaconMaxEvents THEN all \ {Min(all)} ELSE all
  BY SameCardinality, SameExtremes, Zenon DEF Beacon!Latest
<1>7. Min(all) \in all /\ \A y \in all : Min(all) <= y
  BY <1>1, Smallest
<1>8. CASE Cardinality(all) > BeaconMaxEvents
  <2>1. L = all \ {Min(all)}
    BY <1>6, <1>8
  <2>2. Cardinality(S) = BeaconMaxEvents
    BY <1>1, <1>2, <1>3, <1>5, <1>8 DEF Lesser
  <2>3. Cardinality(L) = BeaconMaxEvents
    <3>1. Cardinality(L) = Cardinality(all) - 1
      BY <1>3, <1>7, <2>1, FS_RemoveElement
    <3> QED
      BY <1>3, <1>5, <2>2, <3>1
  <2>4. Cardinality(H2) >= BeaconMaxEvents /\ Cardinality(H2) \in Nat
    BY <1>2, <1>4, <2>2
  <2>5. Cardinality(L) = Lesser(BeaconMaxEvents, Cardinality(H2))
    BY <1>5, <2>3, <2>4 DEF Lesser
  <2>6. ASSUME NEW u \in H2 \ L, NEW s \in L
        PROVE  u < s
    <3>1. s \in all /\ s # Min(all)
      BY <2>1
    <3>2. u \in Nat /\ s \in Nat /\ Min(all) \in Nat
      BY <1>1, <1>7, <3>1
    <3>3. Min(all) < s
      BY <1>7, <3>1, <3>2
    <3>4. CASE u = Min(all)
      BY <3>3, <3>4
    <3>5. CASE u # Min(all)
      <4>1. u \in H \ S /\ u # t
        BY <2>1, <3>5
      <4>2. CASE s \in S
        BY <1>1, <4>1, <4>2
      <4>3. CASE s = t
        <5>1. Min(all) \in S
          BY <1>7, <3>1, <4>3
        <5>2. u < Min(all)
          BY <1>1, <4>1, <5>1
        <5> QED
          BY <3>2, <3>3, <5>2
      <4> QED
        BY <3>1, <4>2, <4>3
    <3> QED
      BY <3>4, <3>5
  <2>7. H2 \in SUBSET Nat /\ L \subseteq H2
    BY <1>1, <2>1
  <2> HIDE DEF L, H2
  <2> QED
    BY <1>4, <2>5, <2>6, <2>7 DEF LatestOf, L, H2
<1>9. CASE ~(Cardinality(all) > BeaconMaxEvents)
  <2>1. L = all
    BY <1>6, <1>9
  <2>2. Cardinality(S) < BeaconMaxEvents /\ Cardinality(S) = Cardinality(H)
    BY <1>1, <1>2, <1>3, <1>5, <1>9 DEF Lesser
  <2>3. S = H
    BY <1>1, <2>2, FS_Subset
  <2>4. L = H2
    BY <2>1, <2>3
  <2>5. Cardinality(L) = Lesser(BeaconMaxEvents, Cardinality(H2))
    BY <1>2, <1>3, <1>5, <2>1, <2>2, <2>4 DEF Lesser
  <2>6. H2 \in SUBSET Nat
    BY <1>1
  <2> HIDE DEF L, H2
  <2> QED
    BY <1>4, <2>4, <2>5, <2>6 DEF LatestOf, L, H2
<1> QED
  BY <1>8, <1>9

BeaconCounts ==
  IF state = None THEN history = {}
  ELSE state \in Beacon!PairState /\ LatestOf(state.starts, history)

LEMMA BeaconCounting ==
  ASSUME BeaconCounts, Beacon!Next
  PROVE  BeaconCounts'
<1>1. CASE Beacon!OnTimer
  <2>1. (state' = None /\ history' = {}) \/ (state' = state /\ history' = history)
    BY <1>1 DEF Beacon!OnTimer, Beacon!Expire, Beacon!Tick
  <2> QED
    BY <2>1 DEF BeaconCounts
<1>2. CASE \E e \in Beacon!Delta : Beacon!Connect(e) \/ Beacon!Beaconing(e)
  <2>1. PICK e \in Beacon!Delta : Beacon!Connect(e) \/ Beacon!Beaconing(e)
    BY <1>2
  <2> DEFINE b == Beacon!Connected(e)
             S == Beacon!Current.starts
             L == Beacon!Latest(S, e.start)
  <2>2. e.start \in Nat
    BY <2>1 DEF Beacon!Delta
  <2>3. Beacon!Current \in Beacon!PairState /\ LatestOf(S, history)
    <3>1. CASE state = None
      <4>1. history = {} /\ S = {} /\ Beacon!Current \in Beacon!PairState
        BY <3>1 DEF Beacon!Current, Beacon!Empty, Beacon!PairState, BeaconCounts
      <4>2. IsFiniteSet({}) /\ Cardinality({}) = 0
        BY FS_EmptySet
      <4>3. BeaconMaxEvents \in Nat
        BY ConfigAssumption DEF Counts
      <4> HIDE DEF S
      <4> QED
        BY <4>1, <4>2, <4>3 DEF LatestOf, Lesser
    <3>2. CASE state # None
      BY <3>2 DEF Beacon!Current, BeaconCounts
    <3> QED
      BY <3>1, <3>2
  <2>4. e.start \notin S
    BY <2>1 DEF Beacon!Connect, Beacon!Beaconing, Beacon!Fresh
  <2> HIDE DEF S
  <2>5. LatestOf(L, history \cup {e.start})
    BY <2>2, <2>3, <2>4, LatestKept
  <2> HIDE DEF L
  <2>6. b \in Beacon!PairState /\ b.starts = L
    <3>1. L \in SUBSET Nat
      BY <2>5 DEF LatestOf
    <3>2. e.obs \in Nat
      BY <2>1 DEF Beacon!Delta
    <3>3. b = [Beacon!Current EXCEPT !.starts = L, !.last = e.obs]
      BY DEF Beacon!Connected, L, S
    <3> QED
      BY <2>3, <3>1, <3>2, <3>3 DEF Beacon!PairState
  <2> HIDE DEF b
  <2>7. /\ history' = history \cup {e.start}
        /\ \/ state' = b
           \/ \E rank \in Int, emitted \in Nat :
                state' = [b EXCEPT !.rank = rank, !.emitted = emitted]
    <3>1. CASE Beacon!Connect(e)
      BY <3>1 DEF Beacon!Connect, Beacon!Handle, b
    <3>2. CASE Beacon!Beaconing(e)
      <4>1. PICK rank \in Beacon!Ranks :
              /\ state' = [b EXCEPT !.rank = Beacon!Max({@, rank}),
                                    !.emitted = Beacon!Cardinality(b.starts)]
              /\ history' = history \cup {e.start}
        BY <3>2, Zenon DEF Beacon!Beaconing, Beacon!Handle, b
      <4>2. rank \in Int /\ b.rank \in Int
        BY <2>6 DEF Beacon!Ranks, Beacon!PairState
      <4>3. Beacon!Max({b.rank, rank}) \in Int
        BY <4>2, PairMax, SameExtremes
      <4>4. Beacon!Cardinality(b.starts) \in Nat
        <5>1. IsFiniteSet(L)
          BY <2>5, FS_Subset DEF LatestOf
        <5> QED
          BY <2>6, <5>1, FS_CardinalityType, SameCardinality
      <4> QED
        BY <4>1, <4>3, <4>4
    <3> QED
      BY <2>1, <3>1, <3>2
  <2>8. state' \in Beacon!PairState /\ state'.starts = L
    BY <2>6, <2>7 DEF Beacon!PairState
  <2> QED
    BY <2>5, <2>7, <2>8, DetectionAssumption DEF BeaconCounts
<1>3. CASE \E t \in 0 .. TimeOf["beacon"] : Beacon!Known(t)
  BY <1>3 DEF Beacon!Known, Beacon!Ignore, Beacon!Handle, BeaconCounts
<1> QED
  BY <1>1, <1>2, <1>3 DEF Beacon!Next

LEMMA BeaconCounted ==
  ASSUME BeaconCounts
  PROVE  Beacon!StartsAreLatest
<1> SUFFICES ASSUME state # None
             PROVE  LET S == state.starts IN
                    /\ S \subseteq history
                    /\ Beacon!Cardinality(S) =
                         Beacon!Min({BeaconMaxEvents, Beacon!Cardinality(history)})
                    /\ \A t \in history \ S, s \in S : t < s
  BY DEF Beacon!StartsAreLatest
<1>1. LatestOf(state.starts, history)
  BY DEF BeaconCounts
<1>2. Cardinality(history) \in Nat /\ BeaconMaxEvents \in Nat
  BY <1>1, FS_CardinalityType, ConfigAssumption DEF LatestOf, Counts
<1>3. Min({BeaconMaxEvents, Cardinality(history)}) = Lesser(BeaconMaxEvents, Cardinality(history))
  BY <1>2, PairMin
<1>4. Beacon!Cardinality(state.starts) = Beacon!Min({BeaconMaxEvents, Beacon!Cardinality(history)})
  <2>1. Cardinality(state.starts) = Min({BeaconMaxEvents, Cardinality(history)})
    BY <1>1, <1>3 DEF LatestOf
  <2> QED
    BY <2>1, SameCardinality, SameExtremes, Zenon
<1> QED
  BY <1>1, <1>4 DEF LatestOf

\* The seconds b against what was received and learned up to the time now.
SecondsExact(b, received, learned, now) ==
  /\ DOMAIN b \subseteq DOMAIN received
  /\ \A k \in DOMAIN received :
       /\ k \in Nat /\ received[k] \in Nat
       /\ k >= now - DdosWindow => k \in DOMAIN b /\ b[k].load["flow"] = received[k]
  /\ \A k \in DOMAIN learned :
       /\ k \in Nat /\ learned[k] = 1
       /\ IF k \in DOMAIN b THEN b[k].closed ELSE k < now - KeepBuckets

\* An event counts in its second; earlier seconds are learned once, and none goes that a
\* window or an event out of order will need (ddos.py:38-61, ddos.py:151-163).
LEMMA SecondsStayExact ==
  ASSUME NEW e \in Ddos!Delta, state = None \/ state \in Ddos!TargetState,
         newest \in Int, e.obs + OutOfOrderness >= newest,
         "received" \in DOMAIN history, "learned" \in DOMAIN history,
         SecondsExact(Ddos!Current.buckets, history.received, history.learned, newest),
         NEW now \in Int, now >= newest, now >= e.obs
  PROVE  SecondsExact(Ddos!Counted(e).buckets, Ddos!Noted(e).received,
                      Ddos!Noted(e).learned, now)
<1> DEFINE c == Ddos!Current
           t == e.obs
           L == Ddos!Learns(c, t)
           K == {k \in DOMAIN c.buckets : k >= t - KeepBuckets}
           b == [k \in K |-> [c.buckets[k] EXCEPT !.closed = @ \/ k < t]]
           w == c.warmth + Ddos!Cardinality(L)
           z == Ddos!Closed(c, t)
           add == Ddos!Added(Ddos!Bucket(z, t), e.load)
           b2 == Ddos!Put(b, t, add)
           R == history.received
           A == history.learned
           more == IF e.load = "more" THEN 0 ELSE 1
           R2 == Ddos!Put(R, t, (IF t \in DOMAIN R THEN R[t] ELSE 0) + more)
           Times(k) == IF k \in DOMAIN A THEN A[k] ELSE 0
           A2 == [k \in L \cup DOMAIN A |-> Times(k) + (IF k \in L THEN 1 ELSE 0)]
<1>1. c \in Ddos!TargetState
  <2>1. << >> \in [{} -> Ddos!SecondState] /\ DOMAIN << >> = {}
    OBVIOUS
  <2> QED
    BY <2>1, SecondsAre DEF Ddos!Current, Ddos!Empty, Seconds, Ddos!TargetState
<1>2. t \in Nat
  BY DEF Ddos!Delta
<1>3. /\ KeepBuckets \in Nat /\ DdosWindow \in Nat /\ OutOfOrderness \in Nat
      /\ DdosWindow <= KeepBuckets /\ OutOfOrderness <= KeepBuckets
  BY ConfigAssumption DEF Sizes, Counts
<1>4. SecondsExact(c.buckets, R, A, newest)
  OBVIOUS
<1>5. Seconds(c.buckets)
  BY <1>1, TargetFields
<1> HIDE DEF c
<1>6. z = [c EXCEPT !.warmth = w, !.buckets = b]
  BY DEF Ddos!Closed
<1> HIDE DEF b, w
<1>7. z.buckets = b /\ "buckets" \in DOMAIN z /\ "last" \in DOMAIN z
  BY <1>1, <1>6 DEF Ddos!TargetState
<1> HIDE DEF z
<1>8. Ddos!Counted(e).buckets = b2
  <2>1. Ddos!Counted(e) = [z EXCEPT !.buckets = Ddos!Put(@, t, add), !.last = t]
    BY DEF Ddos!Counted, z, c
  <2> HIDE DEF add
  <2> QED
    BY <1>7, <2>1
<1>9. Ddos!Noted(e).received = R2 /\ Ddos!Noted(e).learned = A2
  <2>1. Ddos!Noted(e) = [history EXCEPT !.received = R2, !.learned = A2]
    BY DEF Ddos!Noted, c
  <2> HIDE DEF R2, A2
  <2> QED
    BY <2>1
<1>10. DOMAIN b = K /\ \A k \in K : b[k].load = c.buckets[k].load
                                   /\ b[k].closed = (c.buckets[k].closed \/ k < t)
  <2> SUFFICES ASSUME NEW k \in K
               PROVE  b[k].load = c.buckets[k].load /\ b[k].closed = (c.buckets[k].closed \/ k < t)
    BY DEF b
  <2>1. c.buckets[k] \in Ddos!SecondState
    BY <1>5 DEF Seconds
  <2>2. b[k] = [c.buckets[k] EXCEPT !.closed = c.buckets[k].closed \/ k < t]
    BY <2>1 DEF b, Ddos!SecondState
  <2> QED
    BY <2>1, <2>2 DEF Ddos!SecondState
<1>11. /\ t \in K => add.load["flow"] = c.buckets[t].load["flow"] + more
                     /\ (add.closed <=> c.buckets[t].closed)
       /\ t \notin K => add.load["flow"] = more /\ ~add.closed
  <2> DEFINE old == Ddos!Bucket(z, t)
  <2>1. old = IF t \in K THEN b[t] ELSE Ddos!NewBucket
    BY <1>7, <1>10 DEF Ddos!Bucket
  <2>2. old \in Ddos!SecondState
    <3>1. CASE t \in K
      <4>1. c.buckets[t] \in Ddos!SecondState
        BY <1>5, <3>1 DEF Seconds
      <4> QED
        BY <2>1, <3>1, <4>1 DEF b, Ddos!SecondState
    <3>2. CASE t \notin K
      BY <2>1, <3>2 DEF Ddos!NewBucket, Ddos!SecondState
    <3> QED
      BY <3>1, <3>2
  <2> HIDE DEF old
  <2>3. add.closed = old.closed /\ add.load["flow"] = old.load["flow"] + more
    <3>1. old.load \in [Ddos!Kinds -> Nat] /\ "flow" \in Ddos!Kinds
      BY <2>2 DEF Ddos!SecondState, Ddos!Kinds
    <3>2. add = [old EXCEPT !.load = [k \in Ddos!Kinds |->
                   IF e.load # "more" /\ k \in {"flow", e.load}
                   THEN old.load[k] + 1 ELSE old.load[k]]]
      BY DEF Ddos!Added, old
    <3> QED
      BY <2>2, <3>1, <3>2 DEF Ddos!SecondState
  <2> HIDE DEF add
  <2>4. CASE t \in K
    <3>1. old = b[t] /\ old.load = c.buckets[t].load
          /\ old.closed = (c.buckets[t].closed \/ t < t)
      BY <1>10, <2>1, <2>4
    <3>2. ~(t < t)
      BY <1>2
    <3>3. old.closed <=> c.buckets[t].closed
      BY <3>1, <3>2
    <3> QED
      BY <2>3, <2>4, <3>1, <3>3
  <2>5. CASE t \notin K
    <3>1. old.load["flow"] = 0 /\ ~old.closed
      BY <2>1, <2>5 DEF Ddos!NewBucket, Ddos!Kinds
    <3>2. more \in Nat
      OBVIOUS
    <3> HIDE DEF more
    <3> QED
      BY <2>3, <2>5, <3>1, <3>2
  <2> QED
    BY <2>4, <2>5
<1> HIDE DEF add
<1>12. DOMAIN b2 = K \cup {t} /\ \A k \in K \cup {t} : b2[k] = IF k = t THEN add ELSE b[k]
  BY <1>10 DEF Ddos!Put
<1>13. /\ DOMAIN R2 = DOMAIN R \cup {t}
       /\ \A k \in DOMAIN R2 :
            R2[k] = IF k = t THEN (IF t \in DOMAIN R THEN R[t] ELSE 0) + more ELSE R[k]
  BY DEF Ddos!Put
<1>14. \A k \in L : k \in DOMAIN c.buckets /\ k < t /\ ~c.buckets[k].closed
  BY DEF Ddos!Learns
<1> HIDE DEF L, b2, R2
<1>15. /\ DOMAIN c.buckets \subseteq DOMAIN R
       /\ \A k \in DOMAIN R :
            /\ k \in Nat /\ R[k] \in Nat
            /\ k >= newest - DdosWindow =>
                 k \in DOMAIN c.buckets /\ c.buckets[k].load["flow"] = R[k]
       /\ \A k \in DOMAIN A :
            /\ k \in Nat /\ A[k] = 1
            /\ IF k \in DOMAIN c.buckets THEN c.buckets[k].closed ELSE k < newest - KeepBuckets
  BY <1>4 DEF SecondsExact
<1>16. DOMAIN b2 \subseteq DOMAIN R2
  BY <1>12, <1>13, <1>15
<1>17. ASSUME NEW k \in DOMAIN R2
       PROVE  /\ k \in Nat /\ R2[k] \in Nat
              /\ k >= now - DdosWindow => k \in DOMAIN b2 /\ b2[k].load["flow"] = R2[k]
  <2>1. k \in Nat
    BY <1>2, <1>13, <1>15
  <2>2. more \in Nat
    OBVIOUS
  <2> HIDE DEF more
  <2>3. R2[k] \in Nat
    BY <1>13, <1>15, <2>2
  <2>4. ASSUME k >= now - DdosWindow
        PROVE  k \in DOMAIN b2 /\ b2[k].load["flow"] = R2[k]
    <3>1. k >= newest - DdosWindow /\ k >= t - KeepBuckets
      BY <1>2, <1>3, <2>1, <2>4
    <3>2. CASE k # t
      <4>1. k \in DOMAIN R
        BY <1>13, <3>2
      <4>2. k \in DOMAIN c.buckets /\ c.buckets[k].load["flow"] = R[k]
        BY <1>15, <3>1, <4>1
      <4>3. k \in K
        BY <3>1, <4>2
      <4> QED
        BY <1>10, <1>12, <1>13, <3>2, <4>2, <4>3
    <3>3. CASE k = t
      <4>1. CASE t \in DOMAIN R
        <5>1. t \in DOMAIN c.buckets /\ c.buckets[t].load["flow"] = R[t]
          BY <1>15, <3>1, <3>3, <4>1
        <5>2. t \in K
          BY <3>1, <3>3, <5>1
        <5> QED
          BY <1>11, <1>12, <1>13, <3>3, <4>1, <5>1, <5>2
      <4>2. CASE t \notin DOMAIN R
        <5>1. t \notin K
          BY <1>15, <4>2
        <5> QED
          BY <1>11, <1>12, <1>13, <2>2, <3>3, <4>2, <5>1
      <4> QED
        BY <4>1, <4>2
    <3> QED
      BY <3>2, <3>3
  <2> QED
    BY <2>1, <2>3, <2>4
<1>18. ASSUME NEW k \in DOMAIN A2
       PROVE  /\ k \in Nat /\ A2[k] = 1
              /\ IF k \in DOMAIN b2 THEN b2[k].closed ELSE k < now - KeepBuckets
  <2>1. k \in L \/ k \in DOMAIN A
    OBVIOUS
  <2>2. k \in L => k \notin DOMAIN A /\ k < t /\ k \in DOMAIN c.buckets
    BY <1>14, <1>15
  <2>3. k \in Nat
    BY <1>15, <2>1, <2>2
  <2>4. A2[k] = 1
    BY <1>15, <2>1, <2>2
  <2>5. k # t \/ (t \in DOMAIN A /\ t \in K)
    <3> SUFFICES ASSUME k = t
                 PROVE  t \in DOMAIN A /\ t \in K
      OBVIOUS
    <3>1. t \in DOMAIN A
      BY <1>2, <2>1, <2>2
    <3>2. ~(t < newest - KeepBuckets)
      BY <1>2, <1>3
    <3>3. t \in DOMAIN c.buckets
      BY <1>15, <3>1, <3>2
    <3>4. t >= t - KeepBuckets
      BY <1>2, <1>3
    <3> QED
      BY <3>1, <3>3, <3>4
  <2>6. CASE k \in DOMAIN b2
    <3>1. CASE k = t
      <4>1. t \in K /\ t \in DOMAIN A
        BY <2>5, <3>1
      <4>2. c.buckets[t].closed
        BY <1>15, <4>1
      <4> QED
        BY <1>11, <1>12, <2>3, <2>4, <2>6, <3>1, <4>1, <4>2
    <3>2. CASE k # t
      <4>1. k \in K
        BY <1>12, <2>6, <3>2
      <4>2. k < t \/ c.buckets[k].closed
        BY <1>15, <2>1, <2>2, <4>1
      <4> QED
        BY <1>10, <1>12, <2>3, <2>4, <2>6, <3>2, <4>1, <4>2
    <3> QED
      BY <3>1, <3>2
  <2>7. CASE k \notin DOMAIN b2
    <3>1. k \notin K
      BY <1>12, <2>7
    <3>2. CASE k \in DOMAIN c.buckets
      <4>1. k < t - KeepBuckets
        BY <1>2, <1>3, <2>3, <3>1, <3>2
      <4> QED
        BY <1>2, <1>3, <2>3, <2>4, <2>7, <4>1
    <3>3. CASE k \notin DOMAIN c.buckets
      <4>1. k < newest - KeepBuckets
        BY <1>15, <2>1, <2>2, <3>3
      <4> QED
        BY <1>3, <2>3, <2>4, <2>7, <4>1
    <3> QED
      BY <3>2, <3>3
  <2> QED
    BY <2>6, <2>7
<1> HIDE DEF A2
<1> QED
  BY <1>8, <1>9, <1>16, <1>17, <1>18 DEF SecondsExact

\* The episode and the counts of a destination.
DdosCounts ==
  /\ DdosInv /\ newest \in Int
  /\ "received" \in DOMAIN history /\ "learned" \in DOMAIN history
  /\ SecondsExact(Ddos!Current.buckets, history.received, history.learned, newest)

LEMMA DdosCounting ==
  ASSUME DdosCounts, Ddos!Next
  PROVE  DdosCounts'
<1>1. DdosInv'
  BY EpisodePreserved DEF DdosCounts
<1>2. CASE Ddos!OnTimer
  <2>1. /\ newest' = newest
        /\ \/ state' = state /\ history' = history
           \/ /\ state' = None
              /\ history' = [history EXCEPT !.learned = << >>, !.received = << >>,
                                            !.peak = Ddos!NoEvidence, !.found = Ddos!NoEvidence]
    BY <1>2 DEF Ddos!OnTimer, Ddos!Expire, Ddos!Tick
  <2>2. CASE state' = state /\ history' = history
    BY <1>1, <2>1, <2>2 DEF DdosCounts, Ddos!Current
  <2>3. CASE /\ state' = None
             /\ history' = [history EXCEPT !.learned = << >>, !.received = << >>,
                                           !.peak = Ddos!NoEvidence, !.found = Ddos!NoEvidence]
    <3>1. /\ "received" \in DOMAIN history' /\ history'.received = << >>
          /\ "learned" \in DOMAIN history' /\ history'.learned = << >>
      BY <2>3 DEF DdosCounts
    <3>2. Ddos!Current'.buckets = << >>
      BY <2>3 DEF Ddos!Current, Ddos!Empty
    <3>3. DOMAIN << >> = {}
      OBVIOUS
    <3> QED
      BY <1>1, <2>1, <3>1, <3>2, <3>3 DEF DdosCounts, SecondsExact
  <2> QED
    BY <2>1, <2>2, <2>3
<1>3. CASE \E e \in Ddos!Delta : \E s \in {Ddos!Counted(e)} : Ddos!Calm(e, s) \/ Ddos!Flood(e, s)
  <2>1. PICK e \in Ddos!Delta :
          Ddos!Calm(e, Ddos!Counted(e)) \/ Ddos!Flood(e, Ddos!Counted(e))
    BY <1>3
  <2> DEFINE s == Ddos!Counted(e)
             h == Ddos!Noted(e)
  <2>2. /\ e.obs + OutOfOrderness >= newest /\ newest' = Ddos!Max({newest, e.obs})
        /\ \/ state' = s
           \/ \E episode :
                state' = [s EXCEPT !.buckets[e.obs].anomalous = TRUE, !.episode = episode]
        /\ \/ history' = h
           \/ \E peak, found : history' = [h EXCEPT !.peak = peak, !.found = found]
    <3>1. CASE Ddos!Calm(e, s)
      BY <3>1 DEF Ddos!Calm, Ddos!Handle
    <3>2. CASE Ddos!Flood(e, s)
      <4>1. e.obs + OutOfOrderness >= newest /\ newest' = Ddos!Max({newest, e.obs})
        BY <3>2 DEF Ddos!Flood, Ddos!Handle
      <4>2. \E episode :
              state' = [s EXCEPT !.buckets[e.obs].anomalous = TRUE, !.episode = episode]
        BY <3>2, Zenon DEF Ddos!Flood, Ddos!Handle
      <4>3. \E peak, found : history' = [h EXCEPT !.peak = peak, !.found = found]
        BY <3>2, Zenon DEF Ddos!Flood, Ddos!Handle
      <4> QED
        BY <4>1, <4>2, <4>3
    <3> QED
      BY <2>1, <3>1, <3>2
  <2>3. e.obs \in Nat /\ newest \in Int
    BY DEF Ddos!Delta, DdosCounts
  <2>4. newest' \in Int /\ newest' >= newest /\ newest' >= e.obs
    <3>1. newest' = Ddos!Max({newest, e.obs})
      BY <2>2
    <3>2. Ddos!Max({newest, e.obs}) = IF newest >= e.obs THEN newest ELSE e.obs
      BY <2>3, DdosMax
    <3> QED
      BY <2>3, <3>1, <3>2
  <2>5. state = None \/ state \in Ddos!TargetState
    BY DEF DdosCounts, DdosInv
  <2>6. s \in Ddos!TargetState /\ e.obs \in DOMAIN s.buckets
    BY <2>5, SecondsCounted
  <2>7. SecondsExact(s.buckets, h.received, h.learned, newest')
    BY <2>2, <2>4, <2>5, SecondsStayExact DEF DdosCounts
  <2>8. "received" \in DOMAIN h /\ "learned" \in DOMAIN h
    <3>1. \E r, l : h = [history EXCEPT !.received = r, !.learned = l]
      BY Zenon DEF Ddos!Noted
    <3> QED
      BY <3>1 DEF DdosCounts
  <2> HIDE DEF s, h
  <2>9. /\ "received" \in DOMAIN history' /\ history'.received = h.received
        /\ "learned" \in DOMAIN history' /\ history'.learned = h.learned
    BY <2>2, <2>8
  <2>10. /\ state' \in Ddos!TargetState /\ DOMAIN state'.buckets = DOMAIN s.buckets
         /\ \A k \in DOMAIN s.buckets : /\ state'.buckets[k].load = s.buckets[k].load
                                        /\ state'.buckets[k].closed = s.buckets[k].closed
    <3>3. state' \in Ddos!TargetState
      BY <2>1, EpisodeCalm, EpisodeFlood DEF DdosCounts
    <3>1. CASE state' = s
      BY <2>6, <3>1
    <3>2. CASE state' # s
      <4>1. PICK episode :
              state' = [s EXCEPT !.buckets[e.obs].anomalous = TRUE, !.episode = episode]
        BY <2>2, <3>2, Zenon
      <4> DEFINE old == s.buckets[e.obs]
                 second == [old EXCEPT !.anomalous = TRUE]
                 b == [s.buckets EXCEPT ![e.obs] = second]
      <4>2. state' = [s EXCEPT !.buckets = b, !.episode = episode]
        BY <4>1
      <4>3. Seconds(s.buckets) /\ old \in Ddos!SecondState
        BY <2>6, TargetFields DEF Seconds
      <4>4. second \in Ddos!SecondState /\ second.load = old.load /\ second.closed = old.closed
        BY <4>3 DEF Ddos!SecondState
      <4> HIDE DEF second
      <4>5. /\ Seconds(b) /\ DOMAIN b = DOMAIN s.buckets
            /\ \A k \in DOMAIN b : b[k] = IF k = e.obs THEN second ELSE s.buckets[k]
        BY <2>6, <4>3, <4>4 DEF Seconds
      <4> HIDE DEF b, old
      <4>6. state'.buckets = b
        BY <2>6, <4>2 DEF Ddos!TargetState
      <4> QED
        BY <3>3, <4>3, <4>4, <4>5, <4>6 DEF old
    <3> QED
      BY <3>1, <3>2
  <2>11. Ddos!Current' = state'
    BY <2>10, DetectionAssumption DEF Ddos!Current
  <2>12. SecondsExact(state'.buckets, history'.received, history'.learned, newest')
    BY <2>7, <2>9, <2>10 DEF SecondsExact
  <2> QED
    BY <1>1, <2>4, <2>9, <2>11, <2>12 DEF DdosCounts
<1> QED
  BY <1>2, <1>3 DEF Ddos!Next

LEMMA DdosCounted ==
  ASSUME DdosCounts
  PROVE  Ddos!SecondsAreExact
<1> SUFFICES ASSUME state # None
             PROVE  /\ \A k \in DOMAIN history.learned : history.learned[k] = 1
                    /\ \A k \in DOMAIN history.received :
                         k >= newest - DdosWindow =>
                           /\ k \in DOMAIN state.buckets
                           /\ state.buckets[k].load["flow"] = history.received[k]
  BY DEF Ddos!SecondsAreExact
<1>1. SecondsExact(state.buckets, history.received, history.learned, newest)
  BY DEF DdosCounts, Ddos!Current
<1> QED
  BY <1>1 DEF SecondsExact

\* What is kept of a source.
BurstState ==
  [win: Nat, nx: Nat, domains: SUBSET Domains, like: Nat, scored: Nat, rules: Nat,
   capped: BOOLEAN, rank: Int]

\* What a query of a burst's window is judged to be.
Judged == [dom: Domains, like: BOOLEAN, scored: BOOLEAN, win: Nat]

\* The first query of each domain, and those that find room.
Firsts(run) == {i \in DOMAIN run : \A j \in 1 .. i - 1 : run[j].dom # run[i].dom}
Kept(run) == {i \in Firsts(run) : Cardinality({j \in Firsts(run) : j <= i}) <= BurstDomainCap}

\* There is a first query of the domain of every one.
LEMMA FirstOfDomain ==
  ASSUME NEW run \in Seq(Judged), NEW i \in DOMAIN run
  PROVE  \E f \in Firsts(run) : run[f].dom = run[i].dom
<1> DEFINE S == {j \in DOMAIN run : run[j].dom = run[i].dom}
           f == Min(S)
<1>1. DOMAIN run = 1 .. Len(run) /\ Len(run) \in Nat
  OBVIOUS
<1>2. S \in SUBSET Nat /\ S # {}
  BY <1>1
<1>3. f \in S /\ \A j \in S : f <= j
  BY <1>2, Smallest
<1> HIDE DEF f
<1>4. ASSUME NEW j \in 1 .. f - 1
      PROVE  run[j].dom # run[f].dom
  <2>1. f \in 1 .. Len(run) /\ j \in DOMAIN run /\ j < f
    BY <1>1, <1>3
  <2>2. j \notin S
    BY <1>1, <1>3, <2>1
  <2> QED
    BY <1>3, <2>1, <2>2
<1> QED
  BY <1>3, <1>4 DEF Firsts

LEMMA FirstsFinite ==
  ASSUME NEW run \in Seq(Judged)
  PROVE  /\ Firsts(run) \in SUBSET Nat /\ \A i \in Firsts(run) : i \in 1 .. Len(run)
         /\ IsFiniteSet(Firsts(run)) /\ IsFiniteSet(Kept(run)) /\ Kept(run) \subseteq Firsts(run)
         /\ Cardinality(Firsts(run)) \in Nat /\ Cardinality(Kept(run)) \in Nat
<1>1. DOMAIN run = 1 .. Len(run) /\ Len(run) \in Nat
  OBVIOUS
<1>2. Firsts(run) \in SUBSET Nat /\ \A i \in Firsts(run) : i \in 1 .. Len(run)
  BY <1>1 DEF Firsts
<1>3. \A i \in Firsts(run) : i <= Len(run)
  BY <1>1, <1>2
<1>4. IsFiniteSet(Firsts(run))
  BY <1>1, <1>2, <1>3, FS_BoundedSetOfNaturals
<1>5. Kept(run) \subseteq Firsts(run)
  BY DEF Kept
<1> QED
  BY <1>2, <1>4, <1>5, FS_Subset, FS_CardinalityType

\* While there is room for all, all are kept.
LEMMA AllKept ==
  ASSUME NEW run \in Seq(Judged), Cardinality(Firsts(run)) <= BurstDomainCap
  PROVE  Kept(run) = Firsts(run)
<1> SUFFICES ASSUME NEW i \in Firsts(run)
             PROVE  Cardinality({j \in Firsts(run) : j <= i}) <= BurstDomainCap
  BY DEF Kept
<1> DEFINE S == {j \in Firsts(run) : j <= i}
<1>1. S \subseteq Firsts(run) /\ IsFiniteSet(Firsts(run)) /\ Cardinality(Firsts(run)) \in Nat
  BY FirstsFinite
<1> HIDE DEF S
<1>2. Cardinality(S) <= Cardinality(Firsts(run)) /\ Cardinality(S) \in Nat
  BY <1>1, FS_Subset, FS_CardinalityType
<1>3. BurstDomainCap \in Nat
  BY ConfigAssumption DEF Counts
<1> QED
  BY <1>1, <1>2, <1>3 DEF S

\* Another query is the first of its domain, or not; it is kept if there is room.
LEMMA FirstsMore ==
  ASSUME NEW run \in Seq(Judged), NEW q \in Judged
  PROVE  LET n == Len(run) + 1
             new == \A f \in Firsts(run) : run[f].dom # q.dom
             run2 == Append(run, q)
         IN /\ Firsts(run2) = IF new THEN Firsts(run) \cup {n} ELSE Firsts(run)
            /\ Kept(run2) = IF new /\ Cardinality(Firsts(run)) < BurstDomainCap
                            THEN Kept(run) \cup {n} ELSE Kept(run)
            /\ n \notin Firsts(run)
<1> DEFINE n == Len(run) + 1
           F == Firsts(run)
           new == \A f \in F : run[f].dom # q.dom
           run2 == Append(run, q)
           F2 == Firsts(run2)
<1>1. /\ Len(run) \in Nat /\ DOMAIN run = 1 .. Len(run) /\ DOMAIN run2 = 1 .. n
      /\ run2[n] = q /\ \A i \in 1 .. Len(run) : run2[i] = run[i]
  OBVIOUS
<1>2. \A i \in F : i \in 1 .. Len(run)
  BY FirstsFinite
<1>3. n \notin F
  BY <1>1, <1>2
<1> HIDE DEF run2
<1>4. \A i \in 1 .. Len(run) : i \in F2 <=> i \in F
  <2> SUFFICES ASSUME NEW i \in 1 .. Len(run)
               PROVE  i \in F2 <=> i \in F
    OBVIOUS
  <2>1. \A j \in 1 .. i - 1 : run2[j] = run[j]
    BY <1>1
  <2> QED
    BY <1>1, <2>1 DEF Firsts
<1>5. n \in F2 <=> new
  <2>1. n \in F2 <=> \A j \in 1 .. n - 1 : run2[j].dom # run2[n].dom
    BY <1>1 DEF Firsts
  <2>2. n - 1 = Len(run)
    BY <1>1
  <2>3. n \in F2 <=> \A j \in 1 .. Len(run) : run[j].dom # q.dom
    BY <1>1, <2>1, <2>2
  <2>4. (\A j \in 1 .. Len(run) : run[j].dom # q.dom) <=> new
    <3>1. ASSUME new, NEW j \in 1 .. Len(run)
          PROVE  run[j].dom # q.dom
      <4>1. PICK f \in F : run[f].dom = run[j].dom
        BY <1>1, FirstOfDomain
      <4> QED
        BY <3>1, <4>1
    <3>2. ASSUME \A j \in 1 .. Len(run) : run[j].dom # q.dom
          PROVE  new
      BY <1>2, <3>2
    <3> QED
      BY <3>1, <3>2
  <2> QED
    BY <2>3, <2>4
<1>6. F2 \subseteq 1 .. n
  BY <1>1 DEF Firsts
<1>13. n \in 1 .. n /\ \A i \in 1 .. n : i = n \/ i \in 1 .. Len(run)
  BY <1>1
<1>14. \A i \in F : i \in 1 .. n
  BY <1>1, <1>2
<1> HIDE DEF F2, F, n, new
<1>7. F2 = IF new THEN F \cup {n} ELSE F
  <2>1. CASE new
    BY <1>2, <1>4, <1>5, <1>6, <1>13, <1>14, <2>1
  <2>2. CASE ~new
    <3>1. n \notin F2
      BY <1>5, <2>2
    <3>2. ASSUME NEW i \in F2
          PROVE  i \in F
      BY <1>4, <1>6, <1>13, <3>1
    <3>3. ASSUME NEW i \in F
          PROVE  i \in F2
      BY <1>2, <1>4
    <3>4. F2 = F
      BY <3>2, <3>3
    <3> QED
      BY <2>2, <3>4
  <2> QED
    BY <2>1, <2>2
<1>8. BurstDomainCap \in Nat /\ IsFiniteSet(F) /\ Cardinality(F) \in Nat
  BY FirstsFinite, ConfigAssumption DEF Counts, F
<1> DEFINE Up(S, i) == Cardinality({j \in S : j <= i}) <= BurstDomainCap
<1>9. \A i \in F : Up(F2, i) <=> Up(F, i)
  <2> SUFFICES ASSUME NEW i \in F
               PROVE  {j \in F2 : j <= i} = {j \in F : j <= i}
    OBVIOUS
  <2>1. ~(n <= i)
    BY <1>1, <1>2 DEF n
  <2> QED
    BY <1>7, <2>1
<1>10. new => (Up(F2, n) <=> Cardinality(F) < BurstDomainCap)
  <2> SUFFICES ASSUME new
               PROVE  Up(F2, n) <=> Cardinality(F) < BurstDomainCap
    OBVIOUS
  <2>1. \A j \in F2 : j <= n
    BY <1>1, <1>2, <1>7 DEF n
  <2>2. {j \in F2 : j <= n} = F \cup {n}
    BY <1>7, <2>1
  <2>3. Cardinality(F \cup {n}) = Cardinality(F) + 1
    BY <1>3, <1>8, FS_AddElement
  <2>4. Up(F2, n) <=> Cardinality(F) + 1 <= BurstDomainCap
    BY <2>2, <2>3
  <2> HIDE DEF Up
  <2> QED
    BY <1>8, <2>4
<1>11. Kept(run2) = {i \in F2 : Up(F2, i)} /\ Kept(run) = {i \in F : Up(F, i)}
  BY DEF Kept, F2, F
<1> HIDE DEF Up
<1>12. Kept(run2) = IF new /\ Cardinality(F) < BurstDomainCap THEN Kept(run) \cup {n} ELSE Kept(run)
  <2>1. CASE new
    BY <1>3, <1>7, <1>9, <1>10, <1>11, <2>1
  <2>2. CASE ~new
    BY <1>7, <1>9, <1>11, <2>2
  <2> QED
    BY <2>1, <2>2
<1> QED
  BY <1>3, <1>7, <1>12 DEF F2, F, n, new, run2

\* What the state m of a window's burst says of the queries since it was opened.
BurstExact(m, run) ==
  /\ m \in BurstState /\ run \in Seq(Judged)
  /\ \A i \in DOMAIN run : run[i].win = m.win
  /\ m.nx = Cardinality(Kept(run)) /\ m.domains = {run[i].dom : i \in Kept(run)}
  /\ m.like = Cardinality({i \in Kept(run) : run[i].like})
  /\ m.scored = Cardinality({i \in Kept(run) : run[i].scored})
  /\ m.nx = m.scored + m.rules
  /\ m.capped <=> Kept(run) # Firsts(run)
  /\ m.rank = 3 <=> DgaBurst!Burst(m)
  /\ Cardinality(Kept(run)) = Lesser(BurstDomainCap, Cardinality(Firsts(run)))

LEMMA BurstOpened ==
  ASSUME NEW w \in Nat
  PROVE  BurstExact(DgaBurst!Empty(w), << >>)
<1>1. Firsts(<< >>) = {} /\ Kept(<< >>) = {}
  BY DEF Firsts, Kept
<1>2. Cardinality({}) = 0
  BY FS_EmptySet
<1>3. BurstDomains \in Nat \ {0} /\ BurstDomainCap \in Nat
  BY ConfigAssumption DEF Counts
<1> DEFINE m == DgaBurst!Empty(w)
<1>4. /\ m \in BurstState /\ m.nx = 0 /\ m.domains = {} /\ m.like = 0 /\ m.scored = 0
      /\ m.rules = 0 /\ m.capped = FALSE /\ m.rank = -1
  BY DEF DgaBurst!Empty, BurstState
<1>5. ~DgaBurst!Burst(m)
  BY <1>3, <1>4 DEF DgaBurst!Burst
<1> HIDE DEF m
<1>6. {<< >>[i].dom : i \in {}} = {} /\ {i \in {} : << >>[i].like} = {}
      /\ {i \in {} : << >>[i].scored} = {} /\ DOMAIN << >> = {} /\ << >> \in Seq(Judged)
  OBVIOUS
<1>7. m.capped <=> {} # {}
  BY <1>4
<1>8. m.rank # 3
  BY <1>4
<1>9. 0 = Lesser(BurstDomainCap, 0)
  BY <1>3 DEF Lesser
<1> QED
  BY <1>1, <1>2, <1>4, <1>5, <1>6, <1>7, <1>8, <1>9 DEF BurstExact, m

\* The counts of those kept that have a feature, with one more.
LEMMA CountMore ==
  ASSUME NEW run \in Seq(Judged), NEW q \in Judged,
         NEW K, IsFiniteSet(K), K \subseteq 1 .. Len(run),
         NEW fld \in {"like", "scored"}
  PROVE  LET n == Len(run) + 1
             run2 == Append(run, q)
         IN /\ {i \in K : run2[i][fld]} = {i \in K : run[i][fld]}
            /\ Cardinality({i \in K : run[i][fld]}) \in Nat
            /\ Cardinality({i \in K \cup {n} : run2[i][fld]}) =
                 Cardinality({i \in K : run[i][fld]}) + (IF q[fld] THEN 1 ELSE 0)
<1> DEFINE n == Len(run) + 1
           run2 == Append(run, q)
           S == {i \in K : run[i][fld]}
           S2 == {i \in K \cup {n} : run2[i][fld]}
<1>1. run2[n] = q /\ (\A i \in 1 .. Len(run) : run2[i] = run[i]) /\ n \notin K
  OBVIOUS
<1> HIDE DEF run2, n
<1>2. {i \in K : run2[i][fld]} = S
  BY <1>1
<1>3. S2 = IF q[fld] THEN S \cup {n} ELSE S
  <2>1. CASE q[fld]
    BY <1>1, <2>1
  <2>2. CASE ~q[fld]
    BY <1>1, <2>2
  <2> QED
    BY <2>1, <2>2
<1>4. IsFiniteSet(S) /\ Cardinality(S) \in Nat /\ n \notin S
  BY <1>1, FS_Subset, FS_CardinalityType
<1> HIDE DEF S, S2
<1>5. Cardinality(S2) = Cardinality(S) + (IF q[fld] THEN 1 ELSE 0)
  <2>1. CASE q[fld]
    BY <1>3, <1>4, <2>1, FS_AddElement
  <2>2. CASE ~q[fld]
    BY <1>3, <1>4, <2>2
  <2> QED
    BY <2>1, <2>2
<1> QED
  BY <1>2, <1>4, <1>5 DEF S, S2, n, run2

\* A query counts if it is the first of its domain and there is room (dns.py:190-200).
LEMMA BurstAdded ==
  ASSUME NEW m, NEW run, BurstExact(m, run), NEW q \in DgaBurst!Query,
         NEW j \in Judged, j.dom = q.dom, j.like <=> q.like, j.win = m.win,
         j.scored <=> DgaBurst!Scores(q)
  PROVE  LET m2 == DgaBurst!Shown(DgaBurst!Added(m, q)) IN
         BurstExact(m2, Append(run, j)) /\ m2.nx # 0
<1> DEFINE n == Len(run) + 1
           F == Firsts(run)
           K == Kept(run)
           run2 == Append(run, j)
           new == \A f \in F : run[f].dom # j.dom
           a == DgaBurst!Added(m, q)
           m2 == DgaBurst!Shown(a)
           C == BurstDomainCap
           K2 == Kept(run2)
           F2 == Firsts(run2)
<1> SUFFICES BurstExact(m2, run2) /\ m2.nx # 0
  OBVIOUS
<1>0. m \in BurstState
  BY DEF BurstExact
<1>1. /\ m \in BurstState /\ run \in Seq(Judged)
      /\ \A i \in DOMAIN run : run[i].win = m.win
      /\ m.nx = Cardinality(K) /\ m.domains = {run[i].dom : i \in K}
      /\ m.like = Cardinality({i \in K : run[i].like})
      /\ m.scored = Cardinality({i \in K : run[i].scored})
      /\ m.nx = m.scored + m.rules
      /\ m.capped <=> K # F
      /\ m.rank = 3 <=> DgaBurst!Burst(m)
      /\ Cardinality(K) = Lesser(C, Cardinality(F))
  BY DEF BurstExact
<1>2. C \in Nat \ {0}
  BY ConfigAssumption DEF Counts
<1>3. /\ \A i \in F : i \in 1 .. Len(run)
      /\ IsFiniteSet(F) /\ IsFiniteSet(K) /\ K \subseteq F
      /\ Cardinality(F) \in Nat /\ Cardinality(K) \in Nat
  BY <1>1, FirstsFinite
<1>4. /\ F2 = IF new THEN F \cup {n} ELSE F
      /\ K2 = IF new /\ Cardinality(F) < C THEN K \cup {n} ELSE K
      /\ n \notin F
  BY <1>1, FirstsMore
<1>5. /\ Len(run) \in Nat /\ DOMAIN run2 = 1 .. n /\ run2[n] = j
      /\ DOMAIN run = 1 .. Len(run) /\ (\A i \in 1 .. Len(run) : run2[i] = run[i])
      /\ run2 \in Seq(Judged)
  BY <1>1
<1>6. Cardinality(F) < C => K = F
  BY <1>1, <1>2, <1>3, AllKept
<1>7. q.dom \in m.domains => ~new
  <2> SUFFICES ASSUME NEW i \in K, q.dom = run[i].dom
               PROVE  ~new
    BY <1>1
  <2> QED
    BY <1>3
<1>8. Cardinality(F \cup {n}) = Cardinality(F) + 1 /\ Cardinality(K \cup {n}) = Cardinality(K) + 1
  BY <1>3, <1>4, FS_AddElement
<1> HIDE DEF run2, F, K, F2, K2, n, new, a, m2
<1>9. \A i \in DOMAIN run2 : run2[i].win = m.win
  BY <1>1, <1>5 DEF n
<1>10. {run2[i].dom : i \in K} = {run[i].dom : i \in K}
  BY <1>3, <1>5
<1>11. /\ {i \in K : run2[i].like} = {i \in K : run[i].like}
       /\ {i \in K : run2[i].scored} = {i \in K : run[i].scored}
  BY <1>3, <1>5
\* What is exact of the counts is exact when the severity is told.
<1>12. ASSUME a \in BurstState, a.win = m.win,
              a.nx = Cardinality(K2), a.domains = {run2[i].dom : i \in K2},
              a.like = Cardinality({i \in K2 : run2[i].like}),
              a.scored = Cardinality({i \in K2 : run2[i].scored}),
              a.nx = a.scored + a.rules, a.capped <=> K2 # F2,
              a.nx >= m.nx, a.like >= m.like, a.rank = m.rank, a.nx # 0,
              Cardinality(K2) = Lesser(C, Cardinality(F2))
       PROVE  BurstExact(m2, run2) /\ m2.nx # 0
  <2>1. m2 = IF DgaBurst!Burst(a) THEN [a EXCEPT !.rank = 3] ELSE a
    BY DEF DgaBurst!Shown, m2
  <2>2. /\ m2 \in BurstState /\ m2.win = a.win /\ m2.nx = a.nx /\ m2.domains = a.domains
        /\ m2.like = a.like /\ m2.scored = a.scored /\ m2.rules = a.rules
        /\ m2.capped = a.capped /\ m2.rank = IF DgaBurst!Burst(a) THEN 3 ELSE a.rank
    <3>1. CASE DgaBurst!Burst(a)
      BY <1>12, <2>1, <3>1 DEF BurstState
    <3>2. CASE ~DgaBurst!Burst(a)
      BY <1>12, <2>1, <3>2
    <3> QED
      BY <3>1, <3>2
  <2>3. DgaBurst!Burst(m2) <=> DgaBurst!Burst(a)
    BY <2>2 DEF DgaBurst!Burst
  <2>4. DgaBurst!Burst(m) => DgaBurst!Burst(a)
    <3>1. /\ m.nx \in Nat /\ m.like \in Nat /\ a.nx \in Nat /\ a.like \in Nat
          /\ BurstDomains \in Nat /\ BurstLike \in Nat
      BY <1>1, <1>12, ConfigAssumption DEF BurstState, Counts
    <3> QED
      BY <1>12, <3>1 DEF DgaBurst!Burst
  <2>5. m2.rank = 3 <=> DgaBurst!Burst(m2)
    BY <1>1, <1>12, <2>2, <2>3, <2>4
  <2>6. m2.capped <=> K2 # F2
    BY <1>12, <2>2
  <2> QED
    BY <1>5, <1>9, <1>12, <2>2, <2>5, <2>6 DEF BurstExact, K2, F2
<1>13. CASE q.dom \in m.domains
  <2>1. a = m
    BY <1>13 DEF DgaBurst!Added, a
  <2>2. ~new /\ K2 = K /\ F2 = F
    BY <1>4, <1>7, <1>13
  <2>3. m.nx # 0
    <3>1. K # {}
      BY <1>1, <1>13
    <3> QED
      BY <1>1, <1>3, <3>1, FS_EmptySet
  <2>4. m.nx >= m.nx /\ m.like >= m.like
    BY <1>1 DEF BurstState
  <2> QED
    BY <1>0, <1>1, <1>10, <1>11, <1>12, <2>1, <2>2, <2>3, <2>4
<1>14. CASE q.dom \notin m.domains /\ m.nx >= C
  <2>1. a = [m EXCEPT !.capped = TRUE]
    BY <1>14 DEF DgaBurst!Added, a
  <2>2. Cardinality(F) >= C /\ Cardinality(K) = C
    BY <1>1, <1>2, <1>3, <1>14 DEF Lesser
  <2>3. K2 = K
    BY <1>2, <1>3, <1>4, <2>2
  <2>4. K2 # F2
    <3>1. CASE new
      BY <1>3, <1>4, <2>3, <3>1
    <3>2. CASE ~new
      <4>1. PICK f \in F : run[f].dom = j.dom
        BY <3>2 DEF new
      <4>2. f \notin K
        BY <1>1, <1>14, <4>1
      <4> QED
        BY <1>4, <2>3, <3>2, <4>1, <4>2
    <3> QED
      BY <3>1, <3>2
  <2>5. Cardinality(K2) = Lesser(C, Cardinality(F2))
    <3>1. Cardinality(F2) \in Nat /\ Cardinality(F2) >= C
      BY <1>2, <1>3, <1>4, <1>8, <2>2
    <3> QED
      BY <1>2, <2>2, <2>3, <3>1 DEF Lesser
  <2>6. /\ a \in BurstState /\ a.win = m.win /\ a.nx = m.nx /\ a.domains = m.domains
        /\ a.like = m.like /\ a.scored = m.scored /\ a.rules = m.rules /\ a.capped = TRUE
        /\ a.rank = m.rank
    BY <1>1, <2>1 DEF BurstState
  <2>7. a.nx >= m.nx /\ a.like >= m.like /\ a.nx # 0
    BY <1>1, <1>2, <1>14, <2>6 DEF BurstState
  <2>8. a.capped <=> K2 # F2
    BY <2>4, <2>6
  <2> QED
    BY <1>1, <1>10, <1>11, <1>12, <2>3, <2>5, <2>6, <2>7, <2>8
<1>15. CASE q.dom \notin m.domains /\ ~(m.nx >= C)
  <2> DEFINE one == IF q.like THEN 1 ELSE 0
             two == IF DgaBurst!Scores(q) THEN 1 ELSE 0
             three == IF DgaBurst!Scores(q) THEN 0 ELSE 1
  <2>1. a = [m EXCEPT !.domains = @ \cup {q.dom}, !.nx = @ + 1, !.like = @ + one,
                      !.scored = @ + two, !.rules = @ + three]
    BY <1>15 DEF DgaBurst!Added, a
  <2>2. Cardinality(F) < C /\ K = F
    <3>1. ~(Cardinality(K) >= C) /\ Cardinality(K) = Lesser(C, Cardinality(F))
      BY <1>1, <1>15
    <3>2. Cardinality(F) < C
      BY <1>2, <1>3, <3>1 DEF Lesser
    <3> QED
      BY <1>6, <3>2
  <2>3. new
    <3> SUFFICES ASSUME NEW f \in F, run[f].dom = j.dom
                 PROVE  FALSE
      BY DEF new
    <3> QED
      BY <1>1, <1>15, <2>2
  <2>4. K2 = K \cup {n} /\ F2 = F \cup {n} /\ K2 = F2
    BY <1>4, <2>2, <2>3
  <2>5. Cardinality(K2) = m.nx + 1 /\ Cardinality(K2) = Lesser(C, Cardinality(F2))
    BY <1>1, <1>2, <1>3, <1>8, <2>2, <2>4 DEF Lesser
  <2>6. q.dom \in Domains
    BY DEF DgaBurst!Query
  <2>7. one \in Nat /\ two \in Nat /\ three \in Nat /\ two + three = 1
    OBVIOUS
  <2>8. {run2[i].dom : i \in K2} = m.domains \cup {q.dom}
    <3>1. m.domains = {run2[i].dom : i \in K} /\ run2[n].dom = q.dom
      BY <1>1, <1>5, <1>10
    <3>2. {run2[i].dom : i \in K \cup {n}} = {run2[i].dom : i \in K} \cup {run2[n].dom}
      OBVIOUS
    <3> QED
      BY <2>4, <3>1, <3>2
  <2>9. /\ Cardinality({i \in K2 : run2[i].like}) = m.like + one
        /\ Cardinality({i \in K2 : run2[i].scored}) = m.scored + two
    <3>1. IsFiniteSet(K) /\ K \subseteq 1 .. Len(run) /\ run \in Seq(Judged)
      BY <1>1, <1>3
    <3>2. Cardinality({i \in K \cup {n} : run2[i].like}) =
            Cardinality({i \in K : run[i].like}) + (IF j.like THEN 1 ELSE 0)
      BY <3>1, CountMore DEF n, run2
    <3>3. Cardinality({i \in K \cup {n} : run2[i].scored}) =
            Cardinality({i \in K : run[i].scored}) + (IF j.scored THEN 1 ELSE 0)
      BY <3>1, CountMore DEF n, run2
    <3> QED
      BY <1>1, <2>4, <3>2, <3>3
  <2> HIDE DEF one, two, three
  <2>10. /\ m.nx \in Nat /\ m.like \in Nat /\ m.scored \in Nat /\ m.rules \in Nat
         /\ m.domains \in SUBSET Domains
    BY <1>1 DEF BurstState
  <2>11. /\ a \in BurstState /\ a.win = m.win /\ a.nx = m.nx + 1
         /\ a.domains = m.domains \cup {q.dom}
         /\ a.like = m.like + one /\ a.scored = m.scored + two /\ a.rules = m.rules + three
         /\ a.capped = m.capped /\ a.rank = m.rank
    <3>1. /\ a.win = m.win /\ a.nx = m.nx + 1 /\ a.domains = m.domains \cup {q.dom}
          /\ a.like = m.like + one /\ a.scored = m.scored + two /\ a.rules = m.rules + three
          /\ a.capped = m.capped /\ a.rank = m.rank
      BY <1>0, <2>1 DEF BurstState
    <3>2. /\ m.nx + 1 \in Nat /\ m.like + one \in Nat /\ m.scored + two \in Nat
          /\ m.rules + three \in Nat /\ m.domains \cup {q.dom} \in SUBSET Domains
      BY <2>6, <2>7, <2>10
    <3>3. a \in BurstState
      <4> DEFINE u == m.domains \cup {q.dom}
                 nx == m.nx + 1
                 like == m.like + one
                 scored == m.scored + two
                 rules == m.rules + three
      <4>1. a = [m EXCEPT !.domains = u, !.nx = nx, !.like = like,
                          !.scored = scored, !.rules = rules]
        BY <1>0, <2>1 DEF BurstState
      <4>2. nx \in Nat /\ like \in Nat /\ scored \in Nat /\ rules \in Nat /\ u \in SUBSET Domains
        BY <3>2
      <4> HIDE DEF u, nx, like, scored, rules
      <4> QED
        BY <1>0, <4>1, <4>2 DEF BurstState
    <3> QED
      BY <3>1, <3>3
  <2>12. a.nx >= m.nx /\ a.like >= m.like /\ a.nx # 0 /\ a.nx = a.scored + a.rules
    <3>1. m.nx = m.scored + m.rules
      BY <1>1
    <3> QED
      BY <2>7, <2>10, <2>11, <3>1
  <2>13. a.capped <=> K2 # F2
    BY <1>1, <2>2, <2>4, <2>11
  <2> QED
    BY <1>12, <2>5, <2>8, <2>9, <2>11, <2>12, <2>13
<1> QED
  BY <1>13, <1>14, <1>15

\* The counts of a burst's window; a window is never left empty.
BurstCounts ==
  /\ "run" \in DOMAIN history
  /\ state # None => BurstExact(state, history.run) /\ state.nx # 0

LEMMA BurstCounting ==
  ASSUME BurstCounts, DgaBurst!Next
  PROVE  BurstCounts'
<1>1. CASE \E q \in DgaBurst!Query : DgaBurst!Observe(q)
  <2>1. PICK q \in DgaBurst!Query : DgaBurst!Observe(q)
    BY <1>1
  <2> DEFINE w == DgaBurst!Window(q.obs)
             m == DgaBurst!Opened(q)
             j == [dom |-> q.dom, like |-> q.like, scored |-> DgaBurst!Scores(q), win |-> w]
             m2 == DgaBurst!Shown(DgaBurst!Added(m, q))
             run == IF m.nx = 0 THEN << >> ELSE history.run
  <2>2. w \in Nat
    <3>1. q.obs \in Nat /\ DnsWindow \in Nat \ {0}
      BY Durations DEF DgaBurst!Query
    <3> QED
      BY <3>1 DEF DgaBurst!Window
  <2>3. DgaBurst!Scores(q) \in BOOLEAN
    BY Zenon DEF DgaBurst!Scores
  <2>4. j \in Judged /\ j.dom = q.dom /\ (j.like <=> q.like) /\ j.win = w
        /\ (j.scored <=> DgaBurst!Scores(q))
    BY <2>2, <2>3 DEF Judged, DgaBurst!Query
  <2>5. BurstExact(m, run) /\ m.win = w
    <3>1. CASE state = None \/ state.win # w
      <4>1. m = DgaBurst!Empty(w)
        BY <3>1 DEF DgaBurst!Opened
      <4>2. m.nx = 0 /\ m.win = w
        BY <4>1 DEF DgaBurst!Empty
      <4> QED
        BY <2>2, <4>1, <4>2, BurstOpened
    <3>2. CASE ~(state = None \/ state.win # w)
      <4>1. m = state
        BY <3>2 DEF DgaBurst!Opened
      <4> QED
        BY <3>2, <4>1 DEF BurstCounts
    <3> QED
      BY <3>1, <3>2
  <2>6. state' = m2 /\ history'.run = Append(run, j) /\ "run" \in DOMAIN history'
    <3>1. /\ state' = m2
          /\ history' = [run |-> IF m.nx = 0 THEN <<j>> ELSE Append(history.run, j),
                         outcomes |-> DgaBurst!Inferred(q)]
      BY <2>1, Zenon DEF DgaBurst!Observe, DgaBurst!Handle
    <3> HIDE DEF j, m2, m
    <3>2. Append(<< >>, j) = <<j>>
      OBVIOUS
    <3> QED
      BY <3>1, <3>2
  <2> HIDE DEF j, m, run, w, m2
  <2>7. BurstExact(m2, Append(run, j)) /\ m2.nx # 0
    BY <2>4, <2>5, BurstAdded DEF m2
  <2> QED
    BY <2>6, <2>7 DEF BurstCounts
<1>2. CASE \E q \in DgaBurst!Query : DgaBurst!Answered(q)
  <2>1. PICK q \in DgaBurst!Query : DgaBurst!Answered(q)
    BY <1>2
  <2>2. state' = state /\ history' = [history EXCEPT !.outcomes = DgaBurst!Inferred(q)]
    BY <2>1 DEF DgaBurst!Answered, DgaBurst!Ignore, DgaBurst!Handle
  <2>3. history'.run = history.run /\ "run" \in DOMAIN history'
    BY <2>2 DEF BurstCounts
  <2> QED
    BY <2>2, <2>3 DEF BurstCounts
<1>3. CASE DgaBurst!Reload
  <2>1. state' = state /\ history' = [history EXCEPT !.outcomes = << >>]
    BY <1>3 DEF DgaBurst!Reload
  <2>2. history'.run = history.run /\ "run" \in DOMAIN history'
    BY <2>1 DEF BurstCounts
  <2> QED
    BY <2>1, <2>2 DEF BurstCounts
<1>4. CASE DgaBurst!OnTimer
  <2>1. \/ state' = state /\ history' = history
        \/ state' = None /\ history' = [history EXCEPT !.run = << >>]
    BY <1>4 DEF DgaBurst!OnTimer, DgaBurst!Expire, DgaBurst!Tick
  <2> QED
    BY <2>1 DEF BurstCounts
<1> QED
  BY <1>1, <1>2, <1>3, <1>4 DEF DgaBurst!Next

LEMMA BurstCardinality ==
  ASSUME NEW S
  PROVE  DgaBurst!Cardinality(S) = Cardinality(S)
BY Zenon DEF DgaBurst!Cardinality, Cardinality

LEMMA BurstCounted ==
  ASSUME BurstCounts
  PROVE  DgaBurst!BurstIsExact
<1> SUFFICES ASSUME state # None
             PROVE  DgaBurst!BurstIsExact
  BY DEF DgaBurst!BurstIsExact
<1> DEFINE run == history.run
           F == {i \in DOMAIN run : \A j \in 1 .. i - 1 : run[j].dom # run[i].dom}
           K == {i \in F : DgaBurst!Cardinality({j \in F : j <= i}) <= BurstDomainCap}
<1>1. F = Firsts(run) /\ K = Kept(run)
  BY BurstCardinality DEF Firsts, Kept
<1>2. BurstExact(state, run)
  BY DEF BurstCounts
<1>3. /\ \A i \in DOMAIN run : run[i].win = state.win
      /\ state.nx = DgaBurst!Cardinality(K) /\ state.domains = {run[i].dom : i \in K}
      /\ state.like = DgaBurst!Cardinality({i \in K : run[i].like})
      /\ state.scored = DgaBurst!Cardinality({i \in K : run[i].scored})
      /\ state.nx = state.scored + state.rules
      /\ state.capped <=> K # F
      /\ state.rank = 3 <=> DgaBurst!Burst(state)
  <2> HIDE DEF F, K, run
  <2> QED
    BY <1>1, <1>2, BurstCardinality DEF BurstExact
<1> QED
  BY <1>3, Zenon DEF DgaBurst!BurstIsExact

-----------------------------------------------------------------------------
(***************************************************************************)
(* The counts of a scan                                                    *)
(***************************************************************************)

\* The pairs with a side k.
With(P, v, k) == {y \in P : v[y] = k}

\* A count f of the pairs of P by their side v, and the number c of the entries.
Tally(f, c, P, v) ==
  /\ DOMAIN f = {v[x] : x \in P} /\ f \in [DOMAIN f -> Nat]
  /\ IsFiniteSet(DOMAIN f) /\ c = Cardinality(DOMAIN f)
  /\ \A k \in DOMAIN f : f[k] = Cardinality(With(P, v, k))

\* The pairs with a side, and how many they are.
LEMMA TallyOf ==
  ASSUME NEW P, IsFiniteSet(P), NEW v, NEW f, NEW c, Tally(f, c, P, v), NEW k
  PROVE  /\ IsFiniteSet(With(P, v, k)) /\ Cardinality(With(P, v, k)) \in Nat
         /\ Scan!CountOf(f, k) = Cardinality(With(P, v, k))
         /\ k \in DOMAIN f <=> With(P, v, k) # {}
<1> DEFINE A == With(P, v, k)
<1>1. IsFiniteSet(A) /\ Cardinality(A) \in Nat
  BY FS_Subset, FS_CardinalityType DEF With
<1>2. k \in DOMAIN f <=> A # {}
  BY DEF Tally, With
<1>3. Scan!CountOf(f, k) = Cardinality(A)
  <2>1. CASE k \in DOMAIN f
    BY <2>1 DEF Scan!CountOf, Tally
  <2>2. CASE k \notin DOMAIN f
    BY <1>2, <2>2, FS_EmptySet DEF Scan!CountOf
  <2> QED
    BY <2>1, <2>2
<1> QED
  BY <1>1, <1>2, <1>3

\* A new pair is counted (scan.py, _track).
LEMMA TallyMore ==
  ASSUME NEW P, IsFiniteSet(P), NEW v, NEW f, NEW c, Tally(f, c, P, v), NEW x, x \notin P
  PROVE  Tally(Scan!Put(f, v[x], Scan!CountOf(f, v[x]) + 1),
               IF v[x] \in DOMAIN f THEN c ELSE c + 1, P \cup {x}, v)
<1> DEFINE k == v[x]
           n == Scan!CountOf(f, k)
           g == Scan!Put(f, k, n + 1)
           Q == P \cup {x}
           A == With(P, v, k)
           d == IF k \in DOMAIN f THEN c ELSE c + 1
<1> SUFFICES Tally(g, d, Q, v)
  OBVIOUS
<1>1. /\ IsFiniteSet(A) /\ Cardinality(A) \in Nat /\ n = Cardinality(A)
      /\ k \in DOMAIN f <=> A # {}
  BY TallyOf
<1> HIDE DEF n
<1>2. /\ DOMAIN g = DOMAIN f \cup {k} /\ g[k] = n + 1
      /\ \A j \in DOMAIN f : j # k => g[j] = f[j]
      /\ g = [j \in DOMAIN g |-> g[j]]
  BY DEF Scan!Put
<1> HIDE DEF g
<1>3. DOMAIN g = {v[y] : y \in Q}
  BY <1>2 DEF Tally
<1>4. ASSUME NEW j \in DOMAIN g
      PROVE  g[j] \in Nat /\ g[j] = Cardinality(With(Q, v, j))
  <2>1. CASE j = k
    <3>1. With(Q, v, j) = A \cup {x}
      BY <2>1 DEF With
    <3>2. x \notin A
      BY DEF With
    <3> HIDE DEF A
    <3>3. Cardinality(A \cup {x}) = Cardinality(A) + 1
      BY <1>1, <3>2, FS_AddElement
    <3>4. g[j] = Cardinality(A) + 1 /\ Cardinality(A) + 1 \in Nat
      BY <1>1, <1>2, <2>1
    <3> QED
      BY <3>1, <3>3, <3>4
  <2>2. CASE j # k
    <3>1. With(Q, v, j) = With(P, v, j)
      BY <2>2 DEF With
    <3>2. j \in DOMAIN f /\ g[j] = f[j]
      BY <1>2, <2>2
    <3> QED
      BY <3>1, <3>2 DEF Tally
  <2> QED
    BY <2>1, <2>2
<1>5. IsFiniteSet(DOMAIN g) /\ d = Cardinality(DOMAIN g)
  <2>1. /\ IsFiniteSet(DOMAIN f) /\ c = Cardinality(DOMAIN f)
    BY DEF Tally
  <2>2. /\ IsFiniteSet(DOMAIN f \cup {k})
        /\ Cardinality(DOMAIN f \cup {k}) = IF k \in DOMAIN f THEN c ELSE c + 1
    BY <2>1, FS_AddElement
  <2> QED
    BY <1>2, <2>2
<1>6. g \in [DOMAIN g -> Nat]
  BY <1>2, <1>4
<1> HIDE DEF d, Q, k
<1> QED
  BY <1>3, <1>4, <1>5, <1>6 DEF Tally

\* A pair is forgotten, and the entry of a side that has none left (scan.py, _forget).
LEMMA TallyLess ==
  ASSUME NEW P, IsFiniteSet(P), NEW v, NEW f, NEW c, Tally(f, c, P, v), NEW x \in P
  PROVE  LET g == Scan!Less(f, v[x]) IN
         Tally(g, IF v[x] \in DOMAIN g THEN c ELSE c - 1, P \ {x}, v)
<1> DEFINE k == v[x]
           n == Scan!CountOf(f, k)
           g == Scan!Less(f, k)
           Q == P \ {x}
           A == With(P, v, k)
           d == IF k \in DOMAIN g THEN c ELSE c - 1
<1> SUFFICES Tally(g, d, Q, v)
  OBVIOUS
<1>1. /\ IsFiniteSet(A) /\ Cardinality(A) \in Nat /\ n = Cardinality(A)
      /\ k \in DOMAIN f <=> A # {}
  BY TallyOf
<1>2. x \in A /\ k \in DOMAIN f
  BY <1>1 DEF With
<1>3. IsFiniteSet(A \ {x}) /\ Cardinality(A \ {x}) = n - 1 /\ Cardinality(A \ {x}) \in Nat
  <2> HIDE DEF A, n
  <2> QED
    BY <1>1, <1>2, FS_RemoveElement, FS_CardinalityType
<1>4. With(Q, v, k) = A \ {x} /\ \A j : j # k => With(Q, v, j) = With(P, v, j)
  BY DEF With
<1>5. /\ IsFiniteSet(DOMAIN f) /\ c = Cardinality(DOMAIN f) /\ f \in [DOMAIN f -> Nat]
      /\ DOMAIN f = {v[y] : y \in P}
  BY DEF Tally
<1> HIDE DEF n, k, g
<1>6. CASE n <= 1
  <2>1. g = [j \in DOMAIN f \ {k} |-> f[j]]
    BY <1>6 DEF Scan!Less, Scan!Except, n, g
  <2>2. A \ {x} = {}
    <3>1. Cardinality(A \ {x}) = 0
      BY <1>1, <1>3, <1>6
    <3> HIDE DEF A
    <3> QED
      BY <1>3, <3>1, FS_EmptySet
  <2>3. DOMAIN g = {v[y] : y \in Q}
    <3>1. DOMAIN g \subseteq {v[y] : y \in Q}
      <4> SUFFICES ASSUME NEW j \in DOMAIN f, j # k
                   PROVE  j \in {v[y] : y \in Q}
        BY <2>1
      <4>1. PICK y \in P : v[y] = j
        BY <1>5
      <4>2. y # x
        BY <4>1 DEF k
      <4> QED
        BY <4>1, <4>2
    <3>2. ASSUME NEW y \in Q
          PROVE  v[y] \in DOMAIN g
      <4>1. v[y] # k
        BY <2>2 DEF With
      <4>2. v[y] \in DOMAIN f
        BY <1>5
      <4> QED
        BY <2>1, <4>1, <4>2
    <3> QED
      BY <3>1, <3>2
  <2>4. IsFiniteSet(DOMAIN g) /\ d = Cardinality(DOMAIN g)
    <3>1. DOMAIN g = DOMAIN f \ {k} /\ k \notin DOMAIN g
      BY <2>1
    <3>2. d = c - 1
      BY <3>1
    <3> QED
      BY <1>2, <1>5, <3>1, <3>2, FS_RemoveElement
  <2>5. \A j \in DOMAIN g : g[j] = Cardinality(With(Q, v, j))
    <3> SUFFICES ASSUME NEW j \in DOMAIN g
                 PROVE  g[j] = Cardinality(With(Q, v, j))
      OBVIOUS
    <3>1. j \in DOMAIN f /\ j # k /\ g[j] = f[j]
      BY <2>1
    <3>2. f[j] = Cardinality(With(P, v, j))
      BY <3>1 DEF Tally
    <3>3. With(Q, v, j) = With(P, v, j)
      BY <1>4, <3>1
    <3> QED
      BY <3>1, <3>2, <3>3
  <2>6. g \in [DOMAIN g -> Nat]
    BY <1>5, <2>1
  <2> HIDE DEF d, Q
  <2> QED
    BY <2>3, <2>4, <2>5, <2>6 DEF Tally
<1>7. CASE ~(n <= 1)
  <2>1. g = [j \in DOMAIN f |-> IF j = k THEN n - 1 ELSE f[j]]
    <3>1. DOMAIN f \cup {k} = DOMAIN f
      BY <1>2
    <3> QED
      BY <1>7, <3>1 DEF Scan!Less, Scan!Put, n, g
  <2>2. PICK z \in A : z # x
    <3>1. A \ {x} # {}
      <4>1. Cardinality(A \ {x}) # 0
        BY <1>1, <1>3, <1>7
      <4> HIDE DEF A
      <4> QED
        BY <1>3, <4>1, FS_EmptySet
    <3> QED
      BY <3>1
  <2>3. DOMAIN g = {v[y] : y \in Q}
    <3>1. z \in Q /\ v[z] = k
      BY <2>2 DEF With
    <3>2. v[x] = k
      BY DEF k
    <3> QED
      BY <1>5, <2>1, <3>1, <3>2
  <2>4. IsFiniteSet(DOMAIN g) /\ d = Cardinality(DOMAIN g)
    <3>1. DOMAIN g = DOMAIN f
      BY <2>1
    <3> QED
      BY <1>2, <1>5, <3>1
  <2>5. ASSUME NEW j \in DOMAIN g
        PROVE  g[j] = Cardinality(With(Q, v, j)) /\ g[j] \in Nat
    <3>1. CASE j = k
      BY <1>3, <1>4, <2>1, <3>1
    <3>2. CASE j # k
      <4>1. j \in DOMAIN f /\ g[j] = f[j]
        BY <2>1, <3>2
      <4>2. f[j] = Cardinality(With(P, v, j))
        BY <4>1 DEF Tally
      <4>3. With(Q, v, j) = With(P, v, j)
        BY <1>4, <3>2
      <4> QED
        BY <1>5, <4>1, <4>2, <4>3
    <3> QED
      BY <3>1, <3>2
  <2>6. g \in [DOMAIN g -> Nat]
    BY <2>1, <2>5
  <2> HIDE DEF d, Q
  <2> QED
    BY <2>3, <2>4, <2>5, <2>6 DEF Tally
<1> QED
  BY <1>6, <1>7

\* The port and the host of a pair.
PortOf == [x \in Hosts \X Ports |-> x[2]]
HostOf == [x \in Hosts \X Ports |-> x[1]]

ScanExact(m) ==
  /\ m \in Scan!ScanState /\ IsFiniteSet(DOMAIN m.pairs)
  /\ m.n = Cardinality(DOMAIN m.pairs) /\ m.n <= ScanPairCap
  /\ Tally(m.byPort, m.ports, DOMAIN m.pairs, PortOf)
  /\ Tally(m.byHost, m.hosts, DOMAIN m.pairs, HostOf)

LEMMA MapsAre ==
  ASSUME NEW S, NEW T, NEW f
  PROVE  f \in Scan!Maps(S, T) <=> DOMAIN f \subseteq S /\ f \in [DOMAIN f -> T]
BY DEF Scan!Maps

LEMMA TallyTypes ==
  ASSUME NEW P \in SUBSET (Hosts \X Ports), NEW f, NEW c
  PROVE  /\ Tally(f, c, P, PortOf) => f \in Scan!Maps(Ports, Nat) /\ c \in Nat
         /\ Tally(f, c, P, HostOf) => f \in Scan!Maps(Hosts, Nat) /\ c \in Nat
<1>1. \A x \in P : PortOf[x] \in Ports /\ HostOf[x] \in Hosts
  BY DEF PortOf, HostOf
<1>2. ASSUME Tally(f, c, P, PortOf)
      PROVE  f \in Scan!Maps(Ports, Nat) /\ c \in Nat
  <2>1. DOMAIN f \subseteq Ports /\ f \in [DOMAIN f -> Nat] /\ c \in Nat
    BY <1>1, <1>2, FS_CardinalityType DEF Tally
  <2> QED
    BY <2>1, MapsAre
<1>3. ASSUME Tally(f, c, P, HostOf)
      PROVE  f \in Scan!Maps(Hosts, Nat) /\ c \in Nat
  <2>1. DOMAIN f \subseteq Hosts /\ f \in [DOMAIN f -> Nat] /\ c \in Nat
    BY <1>1, <1>3, FS_CardinalityType DEF Tally
  <2> QED
    BY <2>1, MapsAre
<1> QED
  BY <1>2, <1>3

\* A pair is renewed, or counted if there is room (scan.py, _track).
LEMMA ScanTracked ==
  ASSUME NEW m, ScanExact(m), NEW e \in Scan!Flow
  PROVE  ScanExact(Scan!Track(m, e)) /\ Scan!Track(m, e).n # 0
<1> DEFINE pair == <<e.host, e.port>>
           P == DOMAIN m.pairs
           m2 == Scan!Track(m, e)
<1> SUFFICES ScanExact(m2) /\ m2.n # 0
  OBVIOUS
<1>1. /\ m \in Scan!ScanState /\ IsFiniteSet(P) /\ m.n = Cardinality(P) /\ m.n <= ScanPairCap
      /\ Tally(m.byPort, m.ports, P, PortOf) /\ Tally(m.byHost, m.hosts, P, HostOf)
  BY DEF ScanExact
<1>2. /\ e.host \in Hosts /\ e.port \in Ports /\ e.obs \in Nat
      /\ pair \in Hosts \X Ports /\ PortOf[pair] = e.port /\ HostOf[pair] = e.host
  BY DEF Scan!Flow, PortOf, HostOf
<1>3. m.pairs \in Scan!Maps(Hosts \X Ports, Nat)
  BY <1>1 DEF Scan!ScanState
<1>4. P \subseteq Hosts \X Ports /\ m.pairs \in [P -> Nat]
  BY <1>3, MapsAre
<1>5. ScanPairCap \in Nat \ {0} /\ Cardinality(P) \in Nat
  BY <1>1, ConfigAssumption, FS_CardinalityType DEF Counts
<1> HIDE DEF pair, m2
<1>6. CASE pair \in P
  <2> DEFINE Q == Scan!Later(m.pairs, pair, e.obs)
  <2>1. m2 = [m EXCEPT !.pairs = Q]
    BY <1>6 DEF Scan!Track, pair, m2
  <2>2. DOMAIN Q = P /\ Q \in [P -> Nat]
    <3>1. CASE m.pairs[pair] > e.obs
      BY <1>4, <1>6, <3>1 DEF Scan!Later
    <3>2. CASE ~(m.pairs[pair] > e.obs)
      <4>1. Q = [x \in P \cup {pair} |-> IF x = pair THEN e.obs ELSE m.pairs[x]]
        BY <3>2 DEF Scan!Later, Scan!Put
      <4>2. P \cup {pair} = P
        BY <1>6
      <4> HIDE DEF Q
      <4> QED
        BY <1>2, <1>4, <4>1, <4>2
    <3> QED
      BY <3>1, <3>2
  <2>3. Q \in Scan!Maps(Hosts \X Ports, Nat)
    BY <1>4, <2>2, MapsAre
  <2> HIDE DEF Q
  <2>4. m2 \in Scan!ScanState /\ m2.pairs = Q /\ m2.n = m.n /\ m2.byPort = m.byPort
        /\ m2.byHost = m.byHost /\ m2.ports = m.ports /\ m2.hosts = m.hosts
    BY <1>1, <2>1, <2>3 DEF Scan!ScanState
  <2>5. m.n # 0
    BY <1>1, <1>6, FS_EmptySet
  <2> QED
    BY <1>1, <2>2, <2>4, <2>5 DEF ScanExact
<1>7. CASE pair \notin P /\ m.n >= ScanPairCap
  <2>1. m2 = [m EXCEPT !.capped = TRUE]
    BY <1>7 DEF Scan!Track, pair, m2
  <2>2. m2 \in Scan!ScanState /\ m2.pairs = m.pairs /\ m2.n = m.n /\ m2.byPort = m.byPort
        /\ m2.byHost = m.byHost /\ m2.ports = m.ports /\ m2.hosts = m.hosts
    BY <1>1, <2>1 DEF Scan!ScanState
  <2>3. m.n # 0
    BY <1>1, <1>5, <1>7
  <2> QED
    BY <1>1, <2>2, <2>3 DEF ScanExact
<1>8. CASE pair \notin P /\ ~(m.n >= ScanPairCap)
  <2> DEFINE Q == Scan!Put(m.pairs, pair, e.obs)
             n == m.n + 1
             f == Scan!Put(m.byPort, e.port, Scan!CountOf(m.byPort, e.port) + 1)
             g == Scan!Put(m.byHost, e.host, Scan!CountOf(m.byHost, e.host) + 1)
             a == IF e.port \in DOMAIN m.byPort THEN m.ports ELSE m.ports + 1
             b == IF e.host \in DOMAIN m.byHost THEN m.hosts ELSE m.hosts + 1
  <2>1. m2 = [m EXCEPT !.pairs = Q, !.n = n, !.ports = a, !.hosts = b, !.byPort = f, !.byHost = g]
    BY <1>8, Zenon DEF Scan!Track, pair, m2
  <2>2. DOMAIN Q = P \cup {pair} /\ Q \in Scan!Maps(Hosts \X Ports, Nat)
    <3>1. Q = [x \in P \cup {pair} |-> IF x = pair THEN e.obs ELSE m.pairs[x]]
      BY DEF Scan!Put
    <3>2. DOMAIN Q = P \cup {pair} /\ Q \in [P \cup {pair} -> Nat]
      BY <1>2, <1>4, <3>1
    <3> QED
      BY <1>2, <1>4, <3>2, MapsAre
  <2>3. /\ Tally(f, a, P \cup {pair}, PortOf) /\ Tally(g, b, P \cup {pair}, HostOf)
    <3>1. Tally(f, a, P \cup {pair}, PortOf)
      BY <1>1, <1>2, <1>8, TallyMore
    <3>2. Tally(g, b, P \cup {pair}, HostOf)
      BY <1>1, <1>2, <1>8, TallyMore
    <3> QED
      BY <3>1, <3>2
  <2>4. /\ IsFiniteSet(P \cup {pair}) /\ n = Cardinality(P \cup {pair})
        /\ n <= ScanPairCap /\ n # 0
    <3>1. IsFiniteSet(P \cup {pair}) /\ Cardinality(P \cup {pair}) = Cardinality(P) + 1
      BY <1>1, <1>8, FS_AddElement
    <3> QED
      BY <1>1, <1>5, <1>8, <3>1
  <2> HIDE DEF Q, n, f, g, a, b
  <2>5. /\ f \in Scan!Maps(Ports, Nat) /\ a \in Nat
        /\ g \in Scan!Maps(Hosts, Nat) /\ b \in Nat /\ n \in Nat
    <3>1. P \cup {pair} \in SUBSET (Hosts \X Ports)
      BY <1>2, <1>4
    <3>2. n \in Nat
      BY <2>4, FS_CardinalityType
    <3> QED
      BY <2>3, <3>1, <3>2, TallyTypes
  <2>6. m2 \in Scan!ScanState
    BY <1>1, <2>1, <2>2, <2>5 DEF Scan!ScanState
  <2>7. /\ m2.pairs = Q /\ m2.n = n /\ m2.byPort = f /\ m2.byHost = g
        /\ m2.ports = a /\ m2.hosts = b
    BY <1>1, <2>1 DEF Scan!ScanState
  <2>8. DOMAIN m2.pairs = P \cup {pair}
    BY <2>2, <2>7
  <2> QED
    BY <2>3, <2>4, <2>6, <2>7, <2>8 DEF ScanExact
<1> QED
  BY <1>6, <1>7, <1>8

\* A pair goes, with its share of the counts (scan.py, on_timer).
LEMMA ScanForgot ==
  ASSUME NEW m, ScanExact(m), NEW pair \in DOMAIN m.pairs
  PROVE  /\ ScanExact(Scan!Forget(m, pair))
         /\ DOMAIN Scan!Forget(m, pair).pairs = DOMAIN m.pairs \ {pair}
         /\ \A x \in DOMAIN m.pairs \ {pair} : Scan!Forget(m, pair).pairs[x] = m.pairs[x]
<1> DEFINE P == DOMAIN m.pairs
           m2 == Scan!Forget(m, pair)
           Q == Scan!Except(m.pairs, pair)
           n == m.n - 1
           f == Scan!Less(m.byPort, pair[2])
           g == Scan!Less(m.byHost, pair[1])
           a == IF pair[2] \in DOMAIN f THEN m.ports ELSE m.ports - 1
           b == IF pair[1] \in DOMAIN g THEN m.hosts ELSE m.hosts - 1
<1> SUFFICES /\ ScanExact(m2) /\ DOMAIN m2.pairs = P \ {pair}
             /\ \A x \in P \ {pair} : m2.pairs[x] = m.pairs[x]
  OBVIOUS
<1>1. /\ m \in Scan!ScanState /\ IsFiniteSet(P) /\ m.n = Cardinality(P) /\ m.n <= ScanPairCap
      /\ Tally(m.byPort, m.ports, P, PortOf) /\ Tally(m.byHost, m.hosts, P, HostOf)
  BY DEF ScanExact
<1>2. m.pairs \in Scan!Maps(Hosts \X Ports, Nat)
  BY <1>1 DEF Scan!ScanState
<1>3. P \subseteq Hosts \X Ports /\ m.pairs \in [P -> Nat]
  BY <1>2, MapsAre
<1>4. PortOf[pair] = pair[2] /\ HostOf[pair] = pair[1]
  BY <1>3 DEF PortOf, HostOf
<1>5. ScanPairCap \in Nat /\ Cardinality(P) \in Nat
  BY <1>1, ConfigAssumption, FS_CardinalityType DEF Counts
<1>6. m2 = [m EXCEPT !.pairs = Q, !.n = n, !.byPort = f, !.byHost = g, !.ports = a, !.hosts = b]
  BY Zenon DEF Scan!Forget
<1>7. /\ DOMAIN Q = P \ {pair} /\ Q \in Scan!Maps(Hosts \X Ports, Nat)
      /\ \A x \in P \ {pair} : Q[x] = m.pairs[x]
  <2>1. /\ DOMAIN Q = P \ {pair} /\ Q \in [P \ {pair} -> Nat]
        /\ \A x \in P \ {pair} : Q[x] = m.pairs[x]
    BY <1>3 DEF Scan!Except
  <2> HIDE DEF Q
  <2> QED
    BY <1>3, <2>1, MapsAre
<1>8. Tally(f, a, P \ {pair}, PortOf)
  BY <1>1, <1>4, TallyLess
<1>9. Tally(g, b, P \ {pair}, HostOf)
  BY <1>1, <1>4, TallyLess
<1>10. IsFiniteSet(P \ {pair}) /\ n = Cardinality(P \ {pair}) /\ n <= ScanPairCap /\ n \in Nat
  <2>1. IsFiniteSet(P \ {pair}) /\ Cardinality(P \ {pair}) = Cardinality(P) - 1
    BY <1>1, FS_RemoveElement
  <2>2. Cardinality(P \ {pair}) \in Nat
    BY <2>1, FS_CardinalityType
  <2> QED
    BY <1>1, <1>5, <2>1, <2>2
<1> HIDE DEF Q, n, f, g, a, b, m2
<1>11. /\ f \in Scan!Maps(Ports, Nat) /\ a \in Nat
       /\ g \in Scan!Maps(Hosts, Nat) /\ b \in Nat
  <2>1. P \ {pair} \in SUBSET (Hosts \X Ports)
    BY <1>3
  <2> QED
    BY <1>8, <1>9, <2>1, TallyTypes
<1>12. m2 \in Scan!ScanState
  BY <1>1, <1>6, <1>7, <1>10, <1>11 DEF Scan!ScanState
<1>13. /\ m2.pairs = Q /\ m2.n = n /\ m2.byPort = f /\ m2.byHost = g
       /\ m2.ports = a /\ m2.hosts = b
  BY <1>1, <1>6 DEF Scan!ScanState
<1>14. DOMAIN m2.pairs = P \ {pair} /\ \A x \in P \ {pair} : m2.pairs[x] = m.pairs[x]
  BY <1>7, <1>13
<1> QED
  BY <1>8, <1>9, <1>10, <1>12, <1>13, <1>14 DEF ScanExact

\* What else is kept of a source does not count.
LEMMA ScanKept ==
  ASSUME NEW m, ScanExact(m), NEW m2 \in Scan!ScanState,
         m2.pairs = m.pairs, m2.n = m.n, m2.byPort = m.byPort, m2.byHost = m.byHost,
         m2.ports = m.ports, m2.hosts = m.hosts
  PROVE  ScanExact(m2)
BY DEF ScanExact

LEMMA ScanNoted ==
  ASSUME NEW m, ScanExact(m), NEW e
  PROVE  LET m2 == Scan!Noted(Scan!Outcome(m, e), e)
         IN ScanExact(m2) /\ m2.n = m.n /\ m2.pairs = m.pairs
<1> DEFINE o == Scan!Outcome(m, e)
           m2 == Scan!Noted(o, e)
           known == IF e.outcome \in {"failed", "answered"} THEN m.known + 1 ELSE m.known
           failed == IF e.outcome = "failed" THEN m.failed + 1 ELSE m.failed
           level == [t \in Scan!Types |->
                       IF Scan!Reports(o, e, t) THEN Scan!Rank(o, e, t) ELSE o.level[t]]
           emitted == [t \in Scan!Types |->
                         IF Scan!Reports(o, e, t) THEN Scan!CountFor(o, e, t) ELSE o.emitted[t]]
<1>0. m \in Scan!ScanState
  BY DEF ScanExact
<1>1. o = [m EXCEPT !.known = known, !.failed = failed]
  BY Zenon DEF Scan!Outcome
<1>2. m2 = [o EXCEPT !.level = level, !.emitted = emitted]
  BY Zenon DEF Scan!Noted
<1>3. known \in Nat /\ failed \in Nat
  BY <1>0 DEF Scan!ScanState
<1> HIDE DEF o, m2, known, failed
<1>4. /\ o \in Scan!ScanState /\ o.pairs = m.pairs /\ o.n = m.n /\ o.byPort = m.byPort
      /\ o.byHost = m.byHost /\ o.ports = m.ports /\ o.hosts = m.hosts
  BY <1>0, <1>1, <1>3 DEF Scan!ScanState
<1>5. /\ o.byPort \in Scan!Maps(Ports, Nat) /\ o.byHost \in Scan!Maps(Hosts, Nat)
      /\ o.level \in [Scan!Types -> Int] /\ o.emitted \in [Scan!Types -> Nat]
  BY <1>4 DEF Scan!ScanState
<1>6. ASSUME NEW t \in Scan!Types
      PROVE  Scan!Rank(o, e, t) \in Int /\ Scan!CountFor(o, e, t) \in Nat
  <2>1. o.byPort \in [DOMAIN o.byPort -> Nat] /\ o.byHost \in [DOMAIN o.byHost -> Nat]
    BY <1>5, MapsAre
  <2>2. Scan!CountFor(o, e, t) \in Nat
    BY <2>1 DEF Scan!CountFor, Scan!CountOf
  <2>3. Scan!Rank(o, e, t) \in {0, 2, 3}
    BY Zenon DEF Scan!Rank
  <2> QED
    BY <2>2, <2>3
<1>7. level \in [Scan!Types -> Int] /\ emitted \in [Scan!Types -> Nat]
  BY <1>5, <1>6
<1> HIDE DEF level, emitted
<1>8. /\ m2 \in Scan!ScanState /\ m2.pairs = o.pairs /\ m2.n = o.n /\ m2.byPort = o.byPort
      /\ m2.byHost = o.byHost /\ m2.ports = o.ports /\ m2.hosts = o.hosts
  BY <1>2, <1>4, <1>7 DEF Scan!ScanState
<1>9. ScanExact(m2) /\ m2.n = m.n /\ m2.pairs = m.pairs
  BY <1>4, <1>8, ScanKept
<1> QED
  BY <1>9 DEF m2, o

\* What is left of the state base when the pairs t are gone, from what is left without
\* one of them.
LeftOf(g, base, t) ==
  IF t = {} THEN base ELSE LET x == CHOOSE x \in t : TRUE IN Scan!Forget(g[t \ {x}], x)

Leaves(g, base, S, m) == g = [t \in Smaller(S, m) |-> LeftOf(g, base, t)]

Leaving(g, base, S) == g = [t \in SUBSET S |-> LeftOf(g, base, t)]

LEMMA NothingLeft ==
  ASSUME NEW S, IsFiniteSet(S), NEW base
  PROVE  \E g : Leaves(g, base, S, 0)
<1> DEFINE g == [t \in Smaller(S, 0) |-> base]
<1>1. \A t \in Smaller(S, 0) : t = {}
  <2> SUFFICES ASSUME NEW t \in Smaller(S, 0)
               PROVE  t = {}
    OBVIOUS
  <2>1. IsFiniteSet(t) /\ Cardinality(t) <= 0
    BY FS_Subset DEF Smaller
  <2>2. Cardinality(t) = 0
    BY <2>1, FS_CardinalityType
  <2> QED
    BY <2>1, <2>2, FS_EmptySet
<1>2. \A t \in Smaller(S, 0) : LeftOf(g, base, t) = base
  BY <1>1 DEF LeftOf
<1>3. Leaves(g, base, S, 0)
  BY <1>2 DEF Leaves
<1> QED
  BY <1>3

LEMMA OneMoreLeaves ==
  ASSUME NEW S, IsFiniteSet(S), NEW base, NEW m \in Nat, NEW f, Leaves(f, base, S, m)
  PROVE  \E g : Leaves(g, base, S, m + 1)
<1> DEFINE g == [t \in Smaller(S, m + 1) |-> LeftOf(f, base, t)]
<1>1. ASSUME NEW t \in Smaller(S, m)
      PROVE  t \in Smaller(S, m + 1) /\ g[t] = f[t]
  <2>1. t \in Smaller(S, m + 1)
    <3>1. IsFiniteSet(t) /\ Cardinality(t) <= m /\ t \in SUBSET S
      BY FS_Subset DEF Smaller
    <3>2. Cardinality(t) <= m + 1
      BY <3>1, FS_CardinalityType
    <3> QED
      BY <3>1, <3>2 DEF Smaller
  <2>2. f[t] = LeftOf(f, base, t)
    BY DEF Leaves
  <2> QED
    BY <2>1, <2>2
<1>2. ASSUME NEW t \in Smaller(S, m + 1)
      PROVE  LeftOf(g, base, t) = LeftOf(f, base, t)
  <2>1. CASE t = {}
    BY <2>1 DEF LeftOf
  <2>2. CASE t # {}
    <3> DEFINE x == CHOOSE x \in t : TRUE
    <3>1. t \ {x} \in Smaller(S, m)
      BY <2>2, OneTaken
    <3>2. g[t \ {x}] = f[t \ {x}]
      BY <1>1, <3>1
    <3>3. LeftOf(f, base, t) = Scan!Forget(f[t \ {x}], x)
      BY <2>2 DEF LeftOf
    <3> HIDE DEF g
    <3>4. LeftOf(g, base, t) = Scan!Forget(g[t \ {x}], x)
      BY <2>2 DEF LeftOf
    <3> HIDE DEF x
    <3> QED
      BY <3>2, <3>3, <3>4
  <2> QED
    BY <2>1, <2>2
<1>3. Leaves(g, base, S, m + 1)
  BY <1>2 DEF Leaves
<1> QED
  BY <1>3

LEMMA AllLeave ==
  ASSUME NEW S, IsFiniteSet(S), NEW base
  PROVE  \E g : Leaving(g, base, S)
<1> DEFINE Bad == {i \in Nat : ~(\E g : Leaves(g, base, S, i))}
<1>1. Bad = {}
  <2> SUFFICES ASSUME Bad # {}
               PROVE  FALSE
    OBVIOUS
  <2>1. Bad \in SUBSET Nat
    OBVIOUS
  <2> DEFINE m == Min(Bad)
  <2>2. m \in Bad /\ \A i \in Bad : m <= i
    BY <2>1, Smallest
  <2>3. m \in Nat /\ ~(\E g : Leaves(g, base, S, m))
    BY <2>2
  <2> HIDE DEF m
  <2>4. m # 0
    BY <2>3, NothingLeft
  <2>5. m - 1 \in Nat /\ m - 1 \notin Bad /\ (m - 1) + 1 = m
    BY <2>2, <2>3, <2>4
  <2>6. PICK f : Leaves(f, base, S, m - 1)
    BY <2>5
  <2>7. \E g : Leaves(g, base, S, (m - 1) + 1)
    BY <2>5, <2>6, OneMoreLeaves
  <2> QED
    BY <2>3, <2>5, <2>7
<1>2. Smaller(S, Cardinality(S)) = SUBSET S /\ Cardinality(S) \in Nat
  <2>1. \A t \in SUBSET S : Cardinality(t) <= Cardinality(S)
    BY FS_Subset
  <2> QED
    BY <2>1, FS_CardinalityType DEF Smaller
<1>3. PICK f : Leaves(f, base, S, Cardinality(S))
  BY <1>1, <1>2
<1>4. Leaving(f, base, S)
  BY <1>2, <1>3, Zenon DEF Leaves, Leaving
<1> QED
  BY <1>4

\* The state m is the state base without the pairs t.
Without(m, base, t) ==
  /\ DOMAIN m.pairs = DOMAIN base.pairs \ t
  /\ \A x \in DOMAIN base.pairs \ t : m.pairs[x] = base.pairs[x]

\* Whatever goes, the counts stay exact, and the other pairs as they are.
LEMMA LeftExact ==
  ASSUME NEW base, ScanExact(base), NEW S \in SUBSET DOMAIN base.pairs,
         NEW g, g = [t \in SUBSET S |-> LeftOf(g, base, t)]
  PROVE  ScanExact(g[S]) /\ Without(g[S], base, S)
<1> DEFINE Good(t) == ScanExact(g[t]) /\ Without(g[t], base, t)
           Bad == {i \in Nat : \E t \in Smaller(S, i) : ~Good(t)}
<1>0. IsFiniteSet(S)
  BY FS_Subset DEF ScanExact
<1>1. Bad = {}
  <2> SUFFICES ASSUME Bad # {}
               PROVE  FALSE
    OBVIOUS
  <2> DEFINE m == Min(Bad)
  <2>1. m \in Bad /\ \A i \in Bad : m <= i
    BY Smallest
  <2>2. PICK t \in Smaller(S, m) : ~Good(t)
    BY <2>1
  <2>3. m \in Nat
    BY <2>1
  <2> HIDE DEF m
  <2>4. t \in SUBSET S /\ g[t] = LeftOf(g, base, t)
    BY <2>2 DEF Smaller
  <2>5. t # {}
    <3> SUFFICES ASSUME t = {}
                 PROVE  FALSE
      OBVIOUS
    <3>1. g[t] = base
      BY <2>4 DEF LeftOf
    <3> QED
      BY <2>2, <3>1 DEF Without
  <2>6. m # 0
    <3> SUFFICES ASSUME m = 0
                 PROVE  FALSE
      OBVIOUS
    <3>1. IsFiniteSet(t) /\ Cardinality(t) <= 0
      BY <1>0, <2>2, <2>4, FS_Subset DEF Smaller
    <3>2. Cardinality(t) = 0
      BY <3>1, FS_CardinalityType
    <3> QED
      BY <2>5, <3>1, <3>2, FS_EmptySet
  <2> DEFINE x == CHOOSE x \in t : TRUE
             u == t \ {x}
  <2>7. m - 1 \in Nat /\ (m - 1) + 1 = m
    BY <2>3, <2>6
  <2>8. x \in t /\ x \in S /\ u \in Smaller(S, m - 1)
    <3>1. t \in Smaller(S, (m - 1) + 1)
      BY <2>2, <2>7
    <3> QED
      BY <1>0, <2>5, <2>7, <3>1, OneTaken
  <2>9. m - 1 \notin Bad
    <3> HIDE DEF Bad
    <3> SUFFICES ASSUME m - 1 \in Bad
                 PROVE  FALSE
      OBVIOUS
    <3>1. m <= m - 1
      BY <2>1
    <3> QED
      BY <2>3, <3>1
  <2>10. ScanExact(g[u]) /\ Without(g[u], base, u)
    <3>1. Good(u)
      <4> HIDE DEF Good, u
      <4> QED
        BY <2>7, <2>8, <2>9
    <3> QED
      BY <3>1
  <2>11. g[t] = Scan!Forget(g[u], x)
    BY <2>4, <2>5 DEF LeftOf
  <2>12. x \in DOMAIN g[u].pairs
    BY <2>8, <2>10 DEF Without
  <2>13. DOMAIN base.pairs \ t = (DOMAIN base.pairs \ u) \ {x}
    BY <2>8
  <2> HIDE DEF x, u
  <2>14. /\ ScanExact(g[t]) /\ DOMAIN g[t].pairs = DOMAIN g[u].pairs \ {x}
         /\ \A y \in DOMAIN g[u].pairs \ {x} : g[t].pairs[y] = g[u].pairs[y]
    BY <2>10, <2>11, <2>12, ScanForgot
  <2>15. Without(g[t], base, t)
    BY <2>10, <2>13, <2>14 DEF Without
  <2> QED
    BY <2>2, <2>14, <2>15
<1>2. S \in Smaller(S, Cardinality(S)) /\ Cardinality(S) \in Nat
  BY <1>0, FS_CardinalityType DEF Smaller
<1>3. Good(S)
  <2> HIDE DEF Good
  <2> QED
    BY <1>1, <1>2
<1> QED
  BY <1>3

\* The expiry forgets one pair after the other (scan.py, on_timer).
LEMMA ExpiryExact ==
  ASSUME ScanExact(state), NEW ts
  PROVE  ScanExact(Scan!AfterExpiry(ts)) /\ Without(Scan!AfterExpiry(ts), state, Scan!Expired(ts))
<1> DEFINE S == Scan!Expired(ts)
           Body(g) == [t \in SUBSET S |->
                         IF t = {} THEN state
                         ELSE LET x == CHOOSE x \in t : TRUE IN Scan!Forget(g[t \ {x}], x)]
           it == CHOOSE g : g = Body(g)
<1>1. Scan!AfterExpiry(ts) = it[S]
  BY Zenon DEF Scan!AfterExpiry, Scan!FoldSet, Scan!MapThenFoldSet
<1>2. S \in SUBSET DOMAIN state.pairs
  BY DEF Scan!Expired
<1>3. IsFiniteSet(S)
  BY <1>2, FS_Subset DEF ScanExact
<1>4. \A g : Body(g) = [t \in SUBSET S |-> LeftOf(g, state, t)]
  BY Zenon DEF LeftOf
<1> HIDE DEF Body, S
<1>5. \E g : g = Body(g)
  <2>1. PICK h : Leaving(h, state, S)
    BY <1>3, AllLeave
  <2>2. Body(h) = [t \in SUBSET S |-> LeftOf(h, state, t)]
    BY <1>4
  <2> QED
    BY <2>1, <2>2, Zenon DEF Leaving
<1>6. it = Body(it)
  BY <1>5, Zenon
<1>7. it = [t \in SUBSET S |-> LeftOf(it, state, t)]
  BY <1>4, <1>6, Zenon
<1> HIDE DEF it
<1>8. ScanExact(it[S]) /\ Without(it[S], state, S)
  BY <1>2, <1>7, LeftExact
<1> QED
  BY <1>1, <1>8 DEF it, Body, S

\* A source's counts are exact, and there is something to count.
ScanCounts == state # None => ScanExact(state) /\ state.n # 0

LEMMA ScanEmpty == ScanExact(Scan!Empty)
<1> DEFINE m == Scan!Empty
<1>1. /\ m.pairs = << >> /\ m.byPort = << >> /\ m.byHost = << >> /\ m.n = 0 /\ m.hosts = 0
      /\ m.ports = 0 /\ m.capped = FALSE /\ m.failed = 0 /\ m.known = 0
      /\ m.level = [t \in Scan!Types |-> -1] /\ m.emitted = [t \in Scan!Types |-> 0]
  BY DEF Scan!Empty
<1>2. DOMAIN << >> = {} /\ << >> \in [{} -> Nat]
  OBVIOUS
<1>3. /\ << >> \in Scan!Maps(Hosts \X Ports, Nat) /\ << >> \in Scan!Maps(Ports, Nat)
      /\ << >> \in Scan!Maps(Hosts, Nat)
  BY <1>2, MapsAre
<1>4. m \in Scan!ScanState
  BY <1>3 DEF Scan!Empty, Scan!ScanState
<1>5. \A v : Tally(<< >>, 0, {}, v)
  BY <1>2, FS_EmptySet DEF Tally
<1>6. ScanPairCap \in Nat
  BY ConfigAssumption DEF Counts
<1> HIDE DEF m
<1>7. ScanExact(m)
  BY <1>1, <1>2, <1>4, <1>5, <1>6, FS_EmptySet DEF ScanExact
<1> QED
  BY <1>7 DEF m

LEMMA ScanCounting ==
  ASSUME ScanCounts, Scan!Next
  PROVE  ScanCounts'
<1>1. CASE \E e \in Scan!Flow : Scan!Contact(e)
  <2>1. PICK e \in Scan!Flow : Scan!Contact(e)
    BY <1>1
  <2> DEFINE t == Scan!Track(Scan!Current, e)
             m2 == Scan!Noted(Scan!Outcome(t, e), e)
  <2>2. state' = m2
    BY <2>1, Zenon DEF Scan!Contact, Scan!Handle
  <2>3. ScanExact(Scan!Current)
    BY ScanEmpty DEF Scan!Current, ScanCounts
  <2>4. ScanExact(t) /\ t.n # 0
    BY <2>3, ScanTracked
  <2> HIDE DEF t
  <2>5. ScanExact(m2) /\ m2.n = t.n
    BY <2>4, ScanNoted
  <2> HIDE DEF m2
  <2> QED
    BY <2>2, <2>4, <2>5 DEF ScanCounts
<1>2. CASE \E t \in 0 .. TimeOf["scan"] : Scan!NotNew(t)
  BY <1>2 DEF Scan!NotNew, Scan!Ignore, Scan!Handle, ScanCounts
<1>3. CASE Scan!OnTimer
  <2>1. CASE Scan!Due = {} \/ state = None
    BY <1>3, <2>1 DEF Scan!OnTimer, Scan!Tick, ScanCounts
  <2>2. CASE ~(Scan!Due = {} \/ state = None)
    <3> DEFINE m == Scan!AfterExpiry(Scan!Max(Scan!Due))
               full == m.capped /\ m.n >= ScanPairCap
    <3>1. \/ state' = None
          \/ state' = [m EXCEPT !.capped = full] /\ ~(m.n <= 0)
      BY <1>3, <2>2, Zenon DEF Scan!OnTimer, Scan!Tick
    <3>2. ScanExact(m)
      BY <2>2, ExpiryExact DEF ScanCounts
    <3>3. full \in BOOLEAN
      BY Zenon
    <3> HIDE DEF m, full
    <3>4. CASE state' = [m EXCEPT !.capped = full] /\ ~(m.n <= 0)
      <4>1. m \in Scan!ScanState
        BY <3>2 DEF ScanExact
      <4>2. /\ state' \in Scan!ScanState /\ state'.pairs = m.pairs /\ state'.n = m.n
            /\ state'.byPort = m.byPort /\ state'.byHost = m.byHost
            /\ state'.ports = m.ports /\ state'.hosts = m.hosts
        BY <3>3, <3>4, <4>1 DEF Scan!ScanState
      <4>3. ScanExact(state')
        BY <3>2, <4>2, ScanKept
      <4> QED
        BY <3>4, <4>2, <4>3 DEF ScanCounts
    <3> QED
      BY <3>1, <3>4 DEF ScanCounts
  <2> QED
    BY <2>1, <2>2
<1> QED
  BY <1>1, <1>2, <1>3 DEF Scan!Next

LEMMA ScanCardinality ==
  ASSUME NEW S
  PROVE  Scan!Cardinality(S) = Cardinality(S)
BY Zenon DEF Scan!Cardinality, Cardinality

LEMMA ScanCounted ==
  ASSUME ScanCounts
  PROVE  Scan!CountsAreExact
<1> DEFINE P == DOMAIN state.pairs
<1> SUFFICES ASSUME state # None
             PROVE  /\ state.n = Scan!Cardinality(P) /\ state.n \in 1 .. ScanPairCap
                    /\ DOMAIN state.byPort = {x[2] : x \in P}
                    /\ DOMAIN state.byHost = {x[1] : x \in P}
                    /\ state.ports = Scan!Cardinality(DOMAIN state.byPort)
                    /\ state.hosts = Scan!Cardinality(DOMAIN state.byHost)
                    /\ \A p \in DOMAIN state.byPort :
                         state.byPort[p] = Scan!Cardinality({x \in P : x[2] = p})
                    /\ \A h \in DOMAIN state.byHost :
                         state.byHost[h] = Scan!Cardinality({x \in P : x[1] = h})
  BY Zenon DEF Scan!CountsAreExact
<1>1. /\ state \in Scan!ScanState /\ IsFiniteSet(P) /\ state.n = Cardinality(P)
      /\ state.n <= ScanPairCap /\ state.n # 0
      /\ Tally(state.byPort, state.ports, P, PortOf)
      /\ Tally(state.byHost, state.hosts, P, HostOf)
  BY DEF ScanCounts, ScanExact
<1>2. P \subseteq Hosts \X Ports
  <2>1. state.pairs \in Scan!Maps(Hosts \X Ports, Nat)
    BY <1>1 DEF Scan!ScanState
  <2> QED
    BY <2>1, MapsAre
<1>3. \A x \in P : PortOf[x] = x[2] /\ HostOf[x] = x[1]
  BY <1>2 DEF PortOf, HostOf
<1>4. state.n \in 1 .. ScanPairCap
  <2>1. state.n \in Nat /\ ScanPairCap \in Nat
    BY <1>1, FS_CardinalityType, ConfigAssumption DEF Counts
  <2> QED
    BY <1>1, <2>1
<1> HIDE DEF P
<1>5. /\ {PortOf[x] : x \in P} = {x[2] : x \in P} /\ {HostOf[x] : x \in P} = {x[1] : x \in P}
  BY <1>3
<1>6. \A k : /\ With(P, PortOf, k) = {x \in P : x[2] = k}
             /\ With(P, HostOf, k) = {x \in P : x[1] = k}
  BY <1>3 DEF With
<1>7. /\ DOMAIN state.byPort = {x[2] : x \in P} /\ state.ports = Cardinality(DOMAIN state.byPort)
      /\ \A p \in DOMAIN state.byPort : state.byPort[p] = Cardinality({x \in P : x[2] = p})
  BY <1>1, <1>5, <1>6 DEF Tally
<1>8. /\ DOMAIN state.byHost = {x[1] : x \in P} /\ state.hosts = Cardinality(DOMAIN state.byHost)
      /\ \A h \in DOMAIN state.byHost : state.byHost[h] = Cardinality({x \in P : x[1] = h})
  BY <1>1, <1>5, <1>6 DEF Tally
<1> QED
  BY <1>1, <1>4, <1>7, <1>8, ScanCardinality

-----------------------------------------------------------------------------
CountsInv ==
  /\ op = "scan" => ScanCounts
  /\ op = "ddos" => DdosCounts
  /\ op = "beacon" => BeaconCounts
  /\ op = "burst" => BurstCounts

LEMMA CountsInit ==
  Init => CountsInv
<1> SUFFICES ASSUME Init
             PROVE  CountsInv
  OBVIOUS
<1>1. CASE op = "scan"
  BY <1>1 DEF Init, Scan!Init, Scan!Start, ScanCounts, CountsInv
<1>2. CASE op = "ddos"
  <2>1. Ddos!Init
    BY <1>2 DEF Init
  <2>2. /\ state = None /\ newest = -1
        /\ "received" \in DOMAIN history /\ history.received = << >>
        /\ "learned" \in DOMAIN history /\ history.learned = << >>
    BY <2>1 DEF Ddos!Init, Ddos!Start
  <2>3. Ddos!Current.buckets = << >>
    BY <2>2 DEF Ddos!Current, Ddos!Empty
  <2>4. DOMAIN << >> = {}
    OBVIOUS
  <2> QED
    BY <1>2, <2>1, <2>2, <2>3, <2>4, EpisodeInit DEF DdosCounts, SecondsExact, CountsInv
<1>3. CASE op = "beacon"
  BY <1>3 DEF Init, Beacon!Init, Beacon!Start, BeaconCounts, CountsInv
<1>4. CASE op = "burst"
  <2>1. state = None /\ history = [run |-> << >>, outcomes |-> << >>]
    BY <1>4 DEF Init, DgaBurst!Init, DgaBurst!Start
  <2> QED
    BY <1>4, <2>1 DEF BurstCounts, CountsInv
<1>5. CASE op \notin {"scan", "ddos", "beacon", "burst"}
  BY <1>5 DEF CountsInv
<1> QED
  BY <1>1, <1>2, <1>3, <1>4, <1>5

LEMMA CountsPreserved ==
  ASSUME CountsInv, [Next]_<<vars, op, model>>
  PROVE  CountsInv'
<1>1. CASE UNCHANGED <<vars, op, model>>
  <2>1. state' = state /\ newest' = newest /\ history' = history /\ op' = op
    BY <1>1 DEF vars
  <2>2. (ScanCounts => ScanCounts') /\ (BeaconCounts => BeaconCounts')
    BY <2>1 DEF ScanCounts, BeaconCounts
  <2>3. BurstCounts => BurstCounts'
    BY <2>1 DEF BurstCounts
  <2>4. DdosCounts => DdosCounts'
    BY <2>1 DEF DdosCounts, DdosInv, Ddos!Current
  <2> QED
    BY <2>1, <2>2, <2>3, <2>4 DEF CountsInv
<1>2. CASE RunScan
  BY <1>2, ScanCounting DEF RunScan, CountsInv
<1>3. CASE RunDdos
  BY <1>3, DdosCounting DEF RunDdos, CountsInv
<1>4. CASE RunBeacon
  BY <1>4, BeaconCounting DEF RunBeacon, CountsInv
<1>5. CASE RunDgaBurst
  BY <1>5, BurstCounting DEF RunDgaBurst, CountsInv
<1>6. CASE RunFlowDelta \/ RunExfil \/ RunEncrypted \/ RunDnsDomain
  BY <1>6 DEF RunFlowDelta, RunExfil, RunEncrypted, RunDnsDomain, CountsInv
<1> QED
  BY <1>1, <1>2, <1>3, <1>4, <1>5, <1>6 DEF Next

\* What the detectors count on the way is what counting anew would give: a scan's
\* pairs, ports and hosts through renewals, the cap and expiry; the flows of each
\* second and what the baseline learned of it; a beacon's latest starts; a window's
\* names and who judged them (scan.py, ddos.py, beacon.py, dns.py).
THEOREM CountsExactEver ==
  Spec => []CountsAreExact
<1>1. Init => CountsInv
  BY CountsInit
<1>2. CountsInv /\ [Next]_<<vars, op, model>> => CountsInv'
  BY CountsPreserved
<1>3. CountsInv => CountsAreExact
  BY ScanCounted, DdosCounted, BeaconCounted, BurstCounted DEF CountsInv, CountsAreExact
<1> QED
  BY <1>1, <1>2, <1>3, PTL DEF Spec

-----------------------------------------------------------------------------
(***************************************************************************)
(* Windows: the names below a domain                                       *)
(***************************************************************************)

LEMMA DnsMax ==
  ASSUME NEW a \in Int, NEW b \in Int
  PROVE  DnsDomain!Max({a, b}) = IF a >= b THEN a ELSE b
<1> DEFINE m == IF a >= b THEN a ELSE b
<1>1. m \in {a, b} /\ \A y \in {a, b} : m >= y
  OBVIOUS
<1>2. \A x \in {a, b} : (\A y \in {a, b} : x >= y) => x = m
  OBVIOUS
<1> QED
  BY <1>1, <1>2 DEF DnsDomain!Max

LEMMA DnsMin ==
  ASSUME NEW a \in Int, NEW b \in Int
  PROVE  DnsDomain!Min({a, b}) = Lesser(a, b)
<1> DEFINE m == IF a <= b THEN a ELSE b
<1>1. m \in {a, b} /\ \A y \in {a, b} : m <= y
  OBVIOUS
<1>2. \A x \in {a, b} : (\A y \in {a, b} : x <= y) => x = m
  OBVIOUS
<1> QED
  BY <1>1, <1>2 DEF DnsDomain!Min, Lesser

\* What is remembered of a query.
Asked == [name: Names, dga: Int, win: Nat]

NamesOf(h) == {h[i].name : i \in DOMAIN h} \ {None}

\* What is known of a window after the queries h.
DnsExact(m, h) ==
  /\ m \in DnsDomain!WindowState /\ h \in Seq(Asked) /\ \A i \in DOMAIN h : h[i].win = m.win
  /\ m.n = Len(h) /\ IsFiniteSet(NamesOf(h)) /\ m.labels \subseteq NamesOf(h)
  /\ m.uniq = Cardinality(m.labels) /\ m.uniq = Lesser(DnsLabelCap, Cardinality(NamesOf(h)))
  /\ m.capped <=> Cardinality(NamesOf(h)) > DnsLabelCap
  /\ m.dense = Cardinality(m.labels \cap Dense)
  /\ \A i \in DOMAIN h : h[i].dga <= m.dga
  /\ IF h = << >> THEN m.dga = -1 ELSE \E i \in DOMAIN h : h[i].dga = m.dga

LEMMA DnsOpened ==
  ASSUME NEW w \in Nat
  PROVE  DnsExact(DnsDomain!Empty(w), << >>)
<1> DEFINE m == DnsDomain!Empty(w)
<1>1. /\ m.win = w /\ m.n = 0 /\ m.labels = {} /\ m.uniq = 0 /\ m.dense = 0
      /\ m.capped = FALSE /\ m.tunnel = -1 /\ m.dga = -1
  BY DEF DnsDomain!Empty
<1>2. m \in DnsDomain!WindowState
  BY DEF DnsDomain!Empty, DnsDomain!WindowState
<1>3. DOMAIN << >> = {} /\ << >> \in Seq(Asked) /\ Len(<< >>) = 0
  OBVIOUS
<1>4. NamesOf(<< >>) = {}
  BY <1>3 DEF NamesOf
<1>5. IsFiniteSet({}) /\ Cardinality({}) = 0 /\ {} \cap Dense = {}
  BY FS_EmptySet
<1>6. DnsLabelCap \in Nat \ {0}
  BY ConfigAssumption DEF Counts
<1>7. 0 = Lesser(DnsLabelCap, 0) /\ (m.capped <=> 0 > DnsLabelCap)
  BY <1>1, <1>6 DEF Lesser
<1> HIDE DEF m
<1> QED
  BY <1>1, <1>2, <1>3, <1>4, <1>5, <1>7 DEF DnsExact, m

\* A query adds its name, unless that is known or there is no room (dns.py).
LEMMA DnsAdded ==
  ASSUME NEW m, NEW h, DnsExact(m, h), NEW q \in DnsDomain!Query,
         NEW was \in Asked, was.name = q.name, was.win = m.win
  PROVE  LET a == DnsDomain!Added(m, q)
             N == NamesOf(Append(h, was))
         IN /\ a \in DnsDomain!WindowState /\ a.win = m.win /\ a.n = Len(h) + 1 /\ a.dga = m.dga
            /\ IsFiniteSet(N) /\ a.labels \subseteq N
            /\ a.uniq = Cardinality(a.labels) /\ a.uniq = Lesser(DnsLabelCap, Cardinality(N))
            /\ a.capped <=> Cardinality(N) > DnsLabelCap
            /\ a.dense = Cardinality(a.labels \cap Dense)
<1> DEFINE a == DnsDomain!Added(m, q)
           h2 == Append(h, was)
           N == NamesOf(h)
           N2 == NamesOf(h2)
           C == DnsLabelCap
           x == q.name
           counted == [m EXCEPT !.n = @ + 1]
           novel == x # None /\ x \notin m.labels
<1> SUFFICES /\ a \in DnsDomain!WindowState /\ a.win = m.win /\ a.n = Len(h) + 1 /\ a.dga = m.dga
             /\ IsFiniteSet(N2) /\ a.labels \subseteq N2
             /\ a.uniq = Cardinality(a.labels) /\ a.uniq = Lesser(C, Cardinality(N2))
             /\ a.capped <=> Cardinality(N2) > C
             /\ a.dense = Cardinality(a.labels \cap Dense)
  OBVIOUS
<1>1. m \in DnsDomain!WindowState /\ h \in Seq(Asked) /\ m.n = Len(h)
  BY DEF DnsExact
<1>2. /\ IsFiniteSet(N) /\ m.labels \subseteq N
      /\ m.uniq = Cardinality(m.labels) /\ m.uniq = Lesser(C, Cardinality(N))
      /\ m.dense = Cardinality(m.labels \cap Dense)
  BY DEF DnsExact
<1>3. m.capped <=> Cardinality(N) > C
  BY DEF DnsExact
<1>4. C \in Nat \ {0} /\ Cardinality(N) \in Nat
  BY <1>2, ConfigAssumption, FS_CardinalityType DEF Counts
<1>5. N2 = N \cup ({x} \ {None})
  <2>1. DOMAIN h2 = 1 .. Len(h) + 1 /\ DOMAIN h = 1 .. Len(h) /\ Len(h) \in Nat
        /\ h2[Len(h) + 1] = was /\ \A i \in 1 .. Len(h) : h2[i] = h[i]
    BY <1>1
  <2> HIDE DEF h2
  <2>2. {h2[i].name : i \in DOMAIN h2} = {h[i].name : i \in DOMAIN h} \cup {x}
    BY <2>1
  <2> QED
    BY <2>2 DEF NamesOf
<1>6. /\ counted \in DnsDomain!WindowState /\ counted.win = m.win /\ counted.n = Len(h) + 1
      /\ counted.labels = m.labels /\ counted.uniq = m.uniq /\ counted.dense = m.dense
      /\ counted.dga = m.dga /\ (counted.capped <=> m.capped)
  <2>1. m.n + 1 \in Nat
    BY <1>1 DEF DnsDomain!WindowState
  <2> QED
    BY <1>1, <2>1 DEF DnsDomain!WindowState
<1>7. IsFiniteSet(m.labels) /\ Cardinality(m.labels) \in Nat /\ IsFiniteSet(m.labels \cap Dense)
  BY <1>2, FS_Subset, FS_CardinalityType
<1>8. a = IF ~novel THEN counted
          ELSE IF m.uniq >= C THEN [counted EXCEPT !.capped = TRUE]
          ELSE [counted EXCEPT !.labels = @ \cup {x}, !.uniq = @ + 1,
                               !.dense = @ + (IF x \in Dense THEN 1 ELSE 0)]
  BY Zenon DEF DnsDomain!Added
<1> HIDE DEF a, counted, N, N2, h2
<1>9. CASE ~novel
  <2>1. a = counted
    BY <1>8, <1>9
  <2>2. N2 = N
    BY <1>2, <1>5, <1>9
  <2> QED
    BY <1>2, <1>3, <1>6, <2>1, <2>2
<1>10. CASE novel /\ m.uniq >= C
  <2>1. a = [counted EXCEPT !.capped = TRUE]
    BY <1>8, <1>10
  <2>2. /\ a \in DnsDomain!WindowState /\ a.win = m.win /\ a.n = Len(h) + 1 /\ a.labels = m.labels
        /\ a.uniq = m.uniq /\ a.dense = m.dense /\ a.dga = m.dga /\ a.capped = TRUE
    BY <1>6, <2>1 DEF DnsDomain!WindowState
  <2>3. N2 = N \cup {x}
    BY <1>5, <1>10
  <2>4. Cardinality(m.labels) = C /\ Cardinality(N) >= C
    BY <1>2, <1>4, <1>10 DEF Lesser
  <2>5. IsFiniteSet(N2) /\ Cardinality(N2) > C /\ Cardinality(N2) \in Nat
    <3>1. /\ IsFiniteSet(N2)
          /\ Cardinality(N2) = IF x \in N THEN Cardinality(N) ELSE Cardinality(N) + 1
      BY <1>2, <2>3, FS_AddElement
    <3>2. CASE x \in N
      <4>1. m.labels # N
        BY <1>10, <3>2
      <4>2. Cardinality(N) # Cardinality(m.labels)
        BY <1>2, <4>1, FS_Subset
      <4> QED
        BY <1>4, <2>4, <3>1, <3>2, <4>2
    <3>3. CASE x \notin N
      BY <1>4, <2>4, <3>1, <3>3
    <3> QED
      BY <3>2, <3>3
  <2>6. m.labels \subseteq N2
    BY <1>2, <2>3
  <2>7. m.uniq = Lesser(C, Cardinality(N2))
    BY <1>2, <1>4, <2>4, <2>5 DEF Lesser
  <2>8. a.capped <=> Cardinality(N2) > C
    BY <2>2, <2>5
  <2> QED
    BY <1>2, <2>2, <2>5, <2>6, <2>7, <2>8
<1>11. CASE novel /\ ~(m.uniq >= C)
  <2> DEFINE one == IF x \in Dense THEN 1 ELSE 0
             L == m.labels \cup {x}
             u == m.uniq + 1
             d == m.dense + one
  <2>1. a = [counted EXCEPT !.labels = L, !.uniq = u, !.dense = d]
    BY <1>6, <1>8, <1>11 DEF DnsDomain!WindowState
  <2>2. Cardinality(N) < C /\ Cardinality(N) = Cardinality(m.labels)
    BY <1>2, <1>4, <1>11 DEF Lesser
  <2>3. m.labels = N
    BY <1>2, <2>2, FS_Subset
  <2>4. N2 = L
    BY <1>5, <1>11, <2>3
  <2>5. IsFiniteSet(L) /\ Cardinality(L) = u /\ u \in Nat
    <3>1. IsFiniteSet(L) /\ Cardinality(L) = Cardinality(m.labels) + 1
      BY <1>7, <1>11, FS_AddElement
    <3> QED
      BY <1>2, <1>7, <3>1
  <2>6. Cardinality(L \cap Dense) = d /\ d \in Nat
    <3>1. Cardinality(m.labels \cap Dense) \in Nat
      BY <1>7, FS_CardinalityType
    <3>2. CASE x \in Dense
      <4>1. L \cap Dense = (m.labels \cap Dense) \cup {x} /\ x \notin m.labels \cap Dense
        BY <1>11, <3>2
      <4>2. Cardinality(L \cap Dense) = Cardinality(m.labels \cap Dense) + 1
        BY <1>7, <4>1, FS_AddElement
      <4> QED
        BY <1>2, <3>1, <3>2, <4>2
    <3>3. CASE x \notin Dense
      <4>1. L \cap Dense = m.labels \cap Dense
        BY <3>3
      <4> QED
        BY <1>2, <3>1, <3>3, <4>1
    <3> QED
      BY <3>2, <3>3
  <2>7. x \in Names /\ L \in SUBSET Names
    BY <1>1 DEF DnsDomain!Query, DnsDomain!WindowState
  <2>8. u <= C
    BY <1>2, <1>4, <2>2
  <2>9. ~(Cardinality(N) > C)
    BY <1>4, <2>2
  <2> HIDE DEF one, L, u, d
  <2>10. /\ a \in DnsDomain!WindowState /\ a.win = m.win /\ a.n = Len(h) + 1 /\ a.labels = L
         /\ a.uniq = u /\ a.dense = d /\ a.dga = m.dga /\ (a.capped <=> m.capped)
    BY <1>6, <2>1, <2>5, <2>6, <2>7 DEF DnsDomain!WindowState
  <2>11. Lesser(C, u) = u /\ ~(u > C)
    BY <1>4, <2>5, <2>8 DEF Lesser
  <2>12. a.capped <=> Cardinality(N2) > C
    BY <1>3, <2>4, <2>5, <2>9, <2>10, <2>11
  <2> QED
    BY <2>4, <2>5, <2>6, <2>10, <2>11, <2>12
<1> QED
  BY <1>9, <1>10, <1>11

\* What a query leads to is no less than before.
LEMMA DnsShown ==
  ASSUME NEW a \in DnsDomain!WindowState, NEW q
  PROVE  LET s == DnsDomain!Shown(a, q)
             r == DnsDomain!DgaRank(q)
         IN /\ s \in DnsDomain!WindowState /\ s.win = a.win /\ s.n = a.n /\ s.labels = a.labels
            /\ s.uniq = a.uniq /\ s.dense = a.dense /\ (s.capped <=> a.capped)
            /\ r \in Int /\ r >= -1 /\ s.dga = IF a.dga >= r THEN a.dga ELSE r
            /\ DnsDomain!Tunnel(s) => s.tunnel >= DnsDomain!TunnelRank(s)
<1> DEFINE s == DnsDomain!Shown(a, q)
           r == DnsDomain!DgaRank(q)
           k == DnsDomain!TunnelRank(a)
           t == IF DnsDomain!Tunnel(a) THEN DnsDomain!Max({a.tunnel, k}) ELSE a.tunnel
           d == DnsDomain!Max({a.dga, r})
<1>1. r \in Int /\ r >= -1
  BY DEF DnsDomain!DgaRank
<1>2. k \in Int
  BY DEF DnsDomain!TunnelRank
<1>3. a.tunnel \in Int /\ a.dga \in Int
  BY DEF DnsDomain!WindowState
<1>4. d \in Int /\ d = IF a.dga >= r THEN a.dga ELSE r
  BY <1>1, <1>3, DnsMax
<1>5. t \in Int /\ (DnsDomain!Tunnel(a) => t >= k)
  <2> HIDE DEF k
  <2> QED
    BY <1>2, <1>3, DnsMax
<1>6. s = [a EXCEPT !.tunnel = t, !.dga = d]
  BY DEF DnsDomain!Shown, DnsDomain!WindowState
<1> HIDE DEF t, d, s, r, k
<1>7. /\ s \in DnsDomain!WindowState /\ s.win = a.win /\ s.n = a.n /\ s.labels = a.labels
      /\ s.uniq = a.uniq /\ s.dense = a.dense /\ (s.capped <=> a.capped)
      /\ s.tunnel = t /\ s.dga = d
  BY <1>4, <1>5, <1>6 DEF DnsDomain!WindowState
<1>8. (DnsDomain!Tunnel(s) <=> DnsDomain!Tunnel(a)) /\ DnsDomain!TunnelRank(s) = k
  BY <1>7 DEF DnsDomain!Tunnel, DnsDomain!TunnelRank, k
<1>9. DnsDomain!Tunnel(s) => s.tunnel >= DnsDomain!TunnelRank(s)
  BY <1>5, <1>7, <1>8
<1> QED
  BY <1>1, <1>4, <1>7, <1>9 DEF s, r

\* The window kept is that of the last queries of one window, and a tunnel is reported;
\* one that was forgotten is over.
DnsCounts ==
  /\ history \in Seq(Asked)
  /\ state # None =>
       /\ DnsExact(state, history) /\ history # << >>
       /\ DnsDomain!Tunnel(state) => state.tunnel >= DnsDomain!TunnelRank(state)
  /\ state = None /\ history # << >> =>
       (history[Len(history)].win + 1) * DnsWindow <= watermark

LEMMA DnsForgetting ==
  ASSUME DnsCounts, TimersAhead, DnsDomain!OnTimer
  PROVE  DnsCounts'
<1> DEFINE run == history
           end(w) == (w + 1) * DnsWindow
<1>1. history' = history /\ watermark' = watermark + 1 /\ watermark \in Int
  BY DEF DnsDomain!OnTimer, DnsDomain!Expire, DnsDomain!Tick, TimersAhead
<1>2. \/ state' = state
      \/ state # None /\ state' = None /\ Due # {} /\ end(state.win) < Max(Due)
  BY DEF DnsDomain!OnTimer, DnsDomain!Expire, DnsDomain!Tick, DnsDomain!Due, Due,
         DnsDomain!Max, Max
<1>3. \A i \in DOMAIN run : run[i].win \in Nat /\ end(run[i].win) \in Int
  <2>1. DnsWindow \in Nat /\ \A i \in DOMAIN run : run[i] \in Asked
    BY Durations DEF DnsCounts
  <2> QED
    BY <2>1 DEF Asked
<1>4. run # << >> => Len(run) \in DOMAIN run
  BY DEF DnsCounts
<1>5. CASE state' = state
  <2>1. state = None /\ run # << >> => end(run[Len(run)].win) <= watermark + 1
    BY <1>1, <1>3, <1>4 DEF DnsCounts
  <2> QED
    BY <1>1, <1>5, <2>1 DEF DnsCounts, DnsDomain!Tunnel, DnsDomain!TunnelRank
<1>6. CASE state # None /\ state' = None /\ Due # {} /\ end(state.win) < Max(Due)
  <2>1. Max(Due) = watermark + 1
    BY <1>6, DueNow
  <2>2. run # << >> /\ run[Len(run)].win = state.win
    BY <1>4, <1>6 DEF DnsCounts, DnsExact
  <2> DEFINE e == end(run[Len(run)].win)
  <2>3. e \in Int /\ e < Max(Due)
    BY <1>3, <1>4, <1>6, <2>2
  <2> HIDE DEF e
  <2>4. e <= watermark'
    BY <1>1, <2>1, <2>3
  <2> QED
    BY <1>1, <1>6, <2>4 DEF DnsCounts, e
<1> QED
  BY <1>2, <1>5, <1>6

LEMMA DnsCounting ==
  ASSUME DnsCounts, TimersAhead, DnsDomain!Next
  PROVE  DnsCounts'
<1>1. CASE DnsDomain!OnTimer
  BY <1>1, DnsForgetting
<1>2. CASE \E q \in DnsDomain!Query : DnsDomain!Observe(q)
  <2>1. PICK q \in DnsDomain!Query : DnsDomain!Observe(q)
    BY <1>2
  <2> DEFINE w == DnsDomain!Window(q.obs)
             m == DnsDomain!Opened(q)
             r == DnsDomain!DgaRank(q)
             was == [name |-> q.name, dga |-> r, win |-> w]
             a == DnsDomain!Added(m, q)
             s == DnsDomain!Shown(a, q)
             run == history
             h == IF run # << >> /\ run[Len(run)].win = w THEN run ELSE << >>
             h2 == Append(h, was)
  <2>2. w \in Nat /\ (w + 1) * DnsWindow \in Nat /\ (w + 1) * DnsWindow > q.obs
    <3>1. q.obs \in Nat /\ DnsWindow \in Nat \ {0}
      BY <2>1, Durations DEF DnsDomain!Query
    <3> QED
      BY <3>1, WindowEnd DEF DnsDomain!Window
  <2>3. DnsExact(m, h) /\ m.win = w
    <3> DEFINE last == run[Len(run)]
    <3>1. CASE state = None \/ state.win # w
      <4>1. m = DnsDomain!Empty(w)
        BY <3>1 DEF DnsDomain!Opened
      <4>2. m.win = w
        BY <4>1 DEF DnsDomain!Empty
      <4>3. ~(run # << >> /\ last.win = w)
        <5>1. CASE state = None
          <6>1. run # << >> => (last.win + 1) * DnsWindow <= watermark
            BY <5>1 DEF DnsCounts
          <6>2. q.obs > watermark /\ q.obs \in Nat /\ watermark \in Int
            BY <2>1 DEF DnsDomain!Observe, DnsDomain!Handle, DnsDomain!Query, TimersAhead
          <6> HIDE DEF w
          <6>3. ASSUME run # << >>, last.win = w
                PROVE  FALSE
            <7>1. (w + 1) * DnsWindow <= watermark
              BY <6>1, <6>3
            <7> QED
              BY <2>2, <6>2, <7>1
          <6> QED
            BY <6>3
        <5>2. CASE state # None
          <6>1. run # << >> /\ run \in Seq(Asked) /\ \A i \in DOMAIN run : run[i].win = state.win
            BY <5>2 DEF DnsCounts, DnsExact
          <6>2. last.win = state.win
            BY <6>1
          <6> QED
            BY <3>1, <5>2, <6>2
        <5> QED
          BY <5>1, <5>2
      <4>4. h = << >>
        BY <4>3
      <4> QED
        BY <2>2, <4>1, <4>2, <4>4, DnsOpened
    <3>2. CASE ~(state = None \/ state.win # w)
      <4>1. m = state
        BY <3>2 DEF DnsDomain!Opened
      <4>2. DnsExact(state, run) /\ run # << >>
        BY <3>2 DEF DnsCounts
      <4>3. run \in Seq(Asked) /\ \A i \in DOMAIN run : run[i].win = state.win
        BY <4>2 DEF DnsExact
      <4>4. last.win = w
        BY <3>2, <4>2, <4>3
      <4>5. h = run
        BY <4>2, <4>4
      <4> QED
        BY <3>2, <4>1, <4>2, <4>5
    <3> QED
      BY <3>1, <3>2
  <2>4. state' = s /\ history' = h2
    <3>1. state' = s /\ history' = DnsDomain!Remembered(q)
      BY <2>1, Zenon DEF DnsDomain!Observe, DnsDomain!Handle
    <3>2. history' = IF run # << >> /\ run[Len(run)].win = w THEN Append(run, was) ELSE <<was>>
      BY <3>1 DEF DnsDomain!Remembered
    <3> HIDE DEF was, m, s, w, run
    <3>3. Append(<< >>, was) = <<was>>
      OBVIOUS
    <3> QED
      BY <3>1, <3>2, <3>3
  <2>5. r \in Int /\ r >= -1
    BY DEF DnsDomain!DgaRank
  <2>6. was \in Asked /\ was.name = q.name /\ was.win = m.win /\ was.dga = r
    BY <2>1, <2>2, <2>3, <2>5 DEF Asked, DnsDomain!Query
  <2> HIDE DEF was, m, h, run
  <2>7. /\ a \in DnsDomain!WindowState /\ a.win = m.win /\ a.n = Len(h) + 1 /\ a.dga = m.dga
        /\ IsFiniteSet(NamesOf(h2)) /\ a.labels \subseteq NamesOf(h2)
        /\ a.uniq = Cardinality(a.labels) /\ a.uniq = Lesser(DnsLabelCap, Cardinality(NamesOf(h2)))
        /\ a.capped <=> Cardinality(NamesOf(h2)) > DnsLabelCap
        /\ a.dense = Cardinality(a.labels \cap Dense)
    BY <2>1, <2>3, <2>6, DnsAdded
  <2> HIDE DEF a
  <2>8. /\ s \in DnsDomain!WindowState /\ s.win = a.win /\ s.n = a.n /\ s.labels = a.labels
        /\ s.uniq = a.uniq /\ s.dense = a.dense /\ (s.capped <=> a.capped)
        /\ s.dga = IF a.dga >= r THEN a.dga ELSE r
        /\ DnsDomain!Tunnel(s) => s.tunnel >= DnsDomain!TunnelRank(s)
    BY <2>7, DnsShown
  <2> HIDE DEF s, r, w
  <2>9. /\ h \in Seq(Asked) /\ m.dga \in Int /\ \A i \in DOMAIN h : h[i].win = m.win
    BY <2>3 DEF DnsExact, DnsDomain!WindowState
  <2>10. /\ \A i \in DOMAIN h : h[i].dga <= m.dga
         /\ IF h = << >> THEN m.dga = -1 ELSE \E i \in DOMAIN h : h[i].dga = m.dga
    BY <2>3 DEF DnsExact
  <2>11. /\ h2 \in Seq(Asked) /\ h2 # << >> /\ Len(h2) = Len(h) + 1 /\ Len(h) \in Nat
         /\ DOMAIN h2 = 1 .. Len(h) + 1 /\ DOMAIN h = 1 .. Len(h)
         /\ h2[Len(h) + 1] = was /\ \A i \in 1 .. Len(h) : h2[i] = h[i]
    BY <2>6, <2>9
  <2> HIDE DEF h2
  <2>12. \A i \in DOMAIN h2 : h2[i].win = s.win
    BY <2>6, <2>7, <2>8, <2>9, <2>11
  <2>13. \A i \in DOMAIN h : h[i].dga \in Int
    <3>1. \A i \in DOMAIN h : h[i] \in Asked
      BY <2>9
    <3> QED
      BY <3>1 DEF Asked
  <2>14. \A i \in DOMAIN h2 : h2[i].dga <= s.dga
    BY <2>5, <2>6, <2>7, <2>8, <2>9, <2>10, <2>11, <2>13
  <2>15. \E i \in DOMAIN h2 : h2[i].dga = s.dga
    <3>1. CASE h # << >> /\ m.dga >= r
      <4>1. PICK i \in DOMAIN h : h[i].dga = m.dga
        BY <2>10, <3>1
      <4> QED
        BY <2>7, <2>8, <2>11, <3>1, <4>1
    <3>2. CASE ~(h # << >> /\ m.dga >= r)
      <4>1. s.dga = r
        BY <2>5, <2>7, <2>8, <2>9, <2>10, <3>2
      <4>2. Len(h) + 1 \in DOMAIN h2
        BY <2>11
      <4> QED
        BY <2>6, <2>11, <4>1, <4>2
    <3> QED
      BY <3>1, <3>2
  <2>16. DnsExact(s, h2)
    BY <2>7, <2>8, <2>11, <2>12, <2>14, <2>15 DEF DnsExact
  <2>17. s # None
    BY <2>7, <2>8, DetectionAssumption, Zenon
  <2> QED
    BY <2>4, <2>8, <2>11, <2>16, <2>17
       DEF DnsCounts, DnsDomain!Tunnel, DnsDomain!TunnelRank
<1> QED
  BY <1>1, <1>2 DEF DnsDomain!Next

LEMMA DnsCardinality ==
  ASSUME NEW S
  PROVE  DnsDomain!Cardinality(S) = Cardinality(S)
BY Zenon DEF DnsDomain!Cardinality, Cardinality

LEMMA DnsCounted ==
  ASSUME DnsCounts
  PROVE  DnsDomain!WindowIsOneRun
<1> SUFFICES ASSUME state # None
             PROVE  DnsDomain!WindowIsOneRun
  BY DEF DnsDomain!WindowIsOneRun
<1> DEFINE run == history
           names == {run[i].name : i \in DOMAIN run} \ {None}
           ranks == {run[i].dga : i \in DOMAIN run}
<1>1. names = NamesOf(run)
  BY DEF NamesOf
<1>2. DnsExact(state, run) /\ run # << >>
      /\ (DnsDomain!Tunnel(state) => state.tunnel >= DnsDomain!TunnelRank(state))
  BY DEF DnsCounts
<1>3. /\ state \in DnsDomain!WindowState /\ run \in Seq(Asked)
      /\ \A i \in DOMAIN run : run[i].win = state.win
      /\ state.n = Len(run) /\ IsFiniteSet(names) /\ state.labels \subseteq names
      /\ state.uniq = Cardinality(state.labels)
      /\ state.uniq = Lesser(DnsLabelCap, Cardinality(names))
      /\ state.capped <=> Cardinality(names) > DnsLabelCap
      /\ state.dense = Cardinality(state.labels \cap Dense)
  BY <1>1, <1>2, Zenon DEF DnsExact
<1>4. state.uniq = DnsDomain!Min({DnsLabelCap, Cardinality(names)})
  <2>1. DnsLabelCap \in Int /\ Cardinality(names) \in Int
    BY <1>3, FS_CardinalityType, ConfigAssumption DEF Counts
  <2> HIDE DEF names
  <2> QED
    BY <1>3, <2>1, DnsMin
<1>5. state.dga = DnsDomain!Max(ranks)
  <2>1. state.dga \in ranks /\ \A r \in ranks : r \in Int /\ state.dga >= r
    <3>1. /\ \A i \in DOMAIN run : run[i].dga <= state.dga
          /\ \E i \in DOMAIN run : run[i].dga = state.dga
      BY <1>2 DEF DnsExact
    <3>2. \A i \in DOMAIN run : run[i].dga \in Int
      <4>1. \A i \in DOMAIN run : run[i] \in Asked
        BY <1>3
      <4> QED
        BY <4>1 DEF Asked
    <3>3. state.dga \in Int
      BY <1>3 DEF DnsDomain!WindowState
    <3> QED
      BY <3>1, <3>2, <3>3
  <2> HIDE DEF ranks
  <2>2. \A x \in ranks : (\A y \in ranks : x >= y) => x = state.dga
    BY <2>1
  <2> QED
    BY <2>1, <2>2 DEF DnsDomain!Max
<1> HIDE DEF names, ranks, run
<1>6. DnsDomain!Cardinality(names) = Cardinality(names)
      /\ DnsDomain!Cardinality(state.labels) = Cardinality(state.labels)
      /\ DnsDomain!Cardinality(state.labels \cap Dense) = Cardinality(state.labels \cap Dense)
  BY DnsCardinality
<1>7. /\ \A i \in DOMAIN run : run[i].win = state.win
      /\ state.n = Len(run)
      /\ state.labels \subseteq names /\ state.uniq = DnsDomain!Cardinality(state.labels)
      /\ state.uniq = DnsDomain!Min({DnsLabelCap, DnsDomain!Cardinality(names)})
      /\ state.capped <=> DnsDomain!Cardinality(names) > DnsLabelCap
      /\ state.dense = DnsDomain!Cardinality(state.labels \cap Dense)
      /\ DnsDomain!Tunnel(state) => state.tunnel >= DnsDomain!TunnelRank(state)
      /\ state.dga = DnsDomain!Max(ranks)
  BY <1>2, <1>3, <1>4, <1>5, <1>6
<1> USE DEF names, ranks, run
<1> QED
  BY <1>7, Zenon DEF DnsDomain!WindowIsOneRun

-----------------------------------------------------------------------------
(***************************************************************************)
(* Windows: the TLS sessions of a pair                                     *)
(***************************************************************************)

LEMMA EncryptedMax ==
  ASSUME NEW a \in Int, NEW b \in Int
  PROVE  Encrypted!Max({a, b}) = IF a >= b THEN a ELSE b
<1> DEFINE m == IF a >= b THEN a ELSE b
<1>1. m \in {a, b} /\ \A y \in {a, b} : m >= y
  OBVIOUS
<1>2. \A x \in {a, b} : (\A y \in {a, b} : x >= y) => x = m
  OBVIOUS
<1> QED
  BY <1>1, <1>2 DEF Encrypted!Max

\* The score is that of the most suspicious session, if one was scored.
ScoreOf(s, run) ==
  /\ \A i \in DOMAIN run : run[i].seen # None => run[i].seen.score <= s.score
  /\ \/ s.score = 0 /\ \A i \in DOMAIN run : run[i].seen = None
     \/ \E i \in DOMAIN run : /\ run[i].seen # None /\ run[i].seen.score = s.score
                              /\ run[i].seen.positives = s.positives

\* What is known of a pair after the sessions of a run.
SessionsAre(s, run) ==
  /\ s \in Encrypted!PairState /\ run \in Seq(Encrypted!Session) /\ s.sessions = Len(run)
  /\ ScoreOf(s, run) /\ s.rank \in {-1, 1, 2} /\ s.rank <= Encrypted!Rank(s)

LEMMA NoSession ==
  ASSUME NEW e \in Encrypted!Session
  PROVE  SessionsAre(Encrypted!Empty(e), << >>)
<1> DEFINE s == Encrypted!Empty(e)
<1>1. e.obs \in Nat
  BY DEF Encrypted!Session
<1>2. s \in Encrypted!PairState /\ s.sessions = 0 /\ s.score = 0 /\ s.rank = -1
  BY <1>1 DEF Encrypted!Empty, Encrypted!PairState
<1>3. << >> \in Seq(Encrypted!Session) /\ Len(<< >>) = 0 /\ DOMAIN << >> = {}
  OBVIOUS
<1> HIDE DEF s
<1>4. Encrypted!Rank(s) \in {1, 2}
  BY DEF Encrypted!Rank
<1>5. ScoreOf(s, << >>)
  BY <1>2, <1>3 DEF ScoreOf
<1> QED
  BY <1>2, <1>3, <1>4, <1>5 DEF SessionsAre, s

\* The session e makes s2 of s.
Counts1(s, e, s2) ==
  LET s1 == [s EXCEPT !.sessions = @ + 1, !.last = e.obs]
      top == e.seen.score >= s1.score
  IN \/ e.seen = None /\ s2 = s1
     \/ /\ e.seen # None
        /\ s2 = [s1 EXCEPT !.scored = @ + 1, !.score = IF top THEN e.seen.score ELSE @,
                           !.positives = IF top THEN e.seen.positives ELSE @]

\* A session is counted, scored if that is possible, and reported (encrypted.py).
LEMMA SessionAdded ==
  ASSUME NEW s, NEW run, SessionsAre(s, run), NEW e \in Encrypted!Session, NEW s2,
         Counts1(s, e, s2)
  PROVE  LET z == Encrypted!Shown(s2)
         IN /\ SessionsAre(z, Append(run, e)) /\ z.last = e.obs /\ z.first = s.first
            /\ Encrypted!Suspicious(z) => z.rank = Encrypted!Rank(z)
<1> DEFINE s1 == [s EXCEPT !.sessions = @ + 1, !.last = e.obs]
           top == e.seen.score >= s1.score
           z == Encrypted!Shown(s2)
           run2 == Append(run, e)
<1>1. /\ s \in Encrypted!PairState /\ run \in Seq(Encrypted!Session) /\ s.sessions = Len(run)
      /\ s.rank \in {-1, 1, 2} /\ s.rank <= Encrypted!Rank(s)
  BY DEF SessionsAre
<1>2. e.obs \in Nat /\ (e.seen # None => e.seen.score \in Nat /\ e.seen.positives \in Nat)
  <2>1. e.obs \in Nat /\ e.seen \in Handshakes
    BY DEF Encrypted!Session
  <2>2. e.seen # None => e.seen \in [score: Nat, positives: Nat]
    BY <2>1, DetectionAssumption
  <2> QED
    BY <2>1, <2>2
<1>3. /\ s1 \in Encrypted!PairState /\ s1.sessions = s.sessions + 1 /\ s1.last = e.obs
      /\ s1.first = s.first /\ s1.score = s.score /\ s1.positives = s.positives
      /\ s1.rank = s.rank /\ s1.scored = s.scored
  <2>1. s.sessions + 1 \in Nat
    BY <1>1 DEF Encrypted!PairState
  <2>2. s1 \in Encrypted!PairState
    BY <1>1, <1>2, <2>1 DEF Encrypted!PairState
  <2>3. /\ s1.sessions = s.sessions + 1 /\ s1.last = e.obs
        /\ s1.first = s.first /\ s1.score = s.score /\ s1.positives = s.positives
        /\ s1.rank = s.rank /\ s1.scored = s.scored
    BY <1>1 DEF Encrypted!PairState
  <2> QED
    BY <2>2, <2>3
<1>4. \/ e.seen = None /\ s2 = s1
      \/ /\ e.seen # None
         /\ s2 = [s1 EXCEPT !.scored = @ + 1, !.score = IF top THEN e.seen.score ELSE @,
                            !.positives = IF top THEN e.seen.positives ELSE @]
  BY Zenon DEF Counts1
<1> HIDE DEF s1
<1>5. /\ s2 \in Encrypted!PairState /\ s2.sessions = s.sessions + 1 /\ s2.last = e.obs
      /\ s2.first = s.first /\ s2.rank = s.rank
      /\ \/ e.seen = None /\ s2.score = s.score /\ s2.positives = s.positives
         \/ e.seen # None /\ top /\ s2.score = e.seen.score /\ s2.positives = e.seen.positives
         \/ e.seen # None /\ ~top /\ s2.score = s.score /\ s2.positives = s.positives
  <2>1. CASE e.seen = None
    BY <1>3, <1>4, <2>1
  <2>2. CASE e.seen # None /\ top
    <3> DEFINE a == e.seen.score
               b == e.seen.positives
    <3>1. a \in Nat /\ b \in Nat
      BY <1>2, <2>2
    <3>2. s2 = [s1 EXCEPT !.scored = @ + 1, !.score = a, !.positives = b]
      BY <1>3, <1>4, <2>2 DEF Encrypted!PairState
    <3> HIDE DEF a, b
    <3>3. /\ s2 \in Encrypted!PairState /\ s2.sessions = s1.sessions /\ s2.last = s1.last
          /\ s2.first = s1.first /\ s2.rank = s1.rank /\ s2.score = a /\ s2.positives = b
      <4>1. s1 \in Encrypted!PairState
        BY <1>3
      <4>2. s1.scored + 1 \in Nat
        BY <4>1 DEF Encrypted!PairState
      <4>3. s2 \in Encrypted!PairState
        BY <3>1, <3>2, <4>1, <4>2 DEF Encrypted!PairState
      <4> QED
        BY <3>2, <4>1, <4>3 DEF Encrypted!PairState
    <3> QED
      BY <1>3, <2>2, <3>3 DEF a, b
  <2>3. CASE e.seen # None /\ ~top
    <3>1. s2 = [s1 EXCEPT !.scored = @ + 1]
      BY <1>3, <1>4, <2>3 DEF Encrypted!PairState
    <3>2. /\ s2 \in Encrypted!PairState /\ s2.sessions = s1.sessions /\ s2.last = s1.last
          /\ s2.first = s1.first /\ s2.rank = s1.rank /\ s2.score = s1.score
          /\ s2.positives = s1.positives
      <4>1. s1 \in Encrypted!PairState
        BY <1>3
      <4>2. s1.scored + 1 \in Nat
        BY <4>1 DEF Encrypted!PairState
      <4>3. s2 \in Encrypted!PairState
        BY <3>1, <4>1, <4>2 DEF Encrypted!PairState
      <4> QED
        BY <3>1, <4>1, <4>3 DEF Encrypted!PairState
    <3> QED
      BY <1>3, <2>3, <3>2
  <2> QED
    BY <2>1, <2>2, <2>3
<1>6. Encrypted!Rank(s2) \in {1, 2} /\ s2.rank <= Encrypted!Rank(s2)
  <2>1. s.sessions \in Nat /\ TlsManySessions \in Nat
    BY <1>1, ConfigAssumption DEF Encrypted!PairState, Counts
  <2>2. s.sessions >= TlsManySessions => s2.sessions >= TlsManySessions
    BY <1>5, <2>1
  <2> QED
    BY <1>1, <1>5, <2>2 DEF Encrypted!Rank
<1>7. /\ z \in Encrypted!PairState /\ z.sessions = s2.sessions /\ z.last = s2.last
      /\ z.first = s2.first /\ z.score = s2.score /\ z.positives = s2.positives
      /\ z.scored = s2.scored
      /\ IF Encrypted!Suspicious(s2) THEN z.rank = Encrypted!Rank(s2) ELSE z.rank = s2.rank
  <2>1. CASE Encrypted!Suspicious(s2)
    <3> DEFINE k == Encrypted!Max({s2.rank, Encrypted!Rank(s2)})
    <3>1. k = Encrypted!Rank(s2)
      <4>1. s2.rank \in Int /\ Encrypted!Rank(s2) \in Int
        BY <1>1, <1>5, <1>6
      <4>2. k = IF s2.rank >= Encrypted!Rank(s2) THEN s2.rank ELSE Encrypted!Rank(s2)
        BY <4>1, EncryptedMax
      <4> QED
        BY <1>6, <4>1, <4>2
    <3>2. z = [s2 EXCEPT !.rank = k]
      BY <1>5, <2>1 DEF Encrypted!Shown, Encrypted!PairState
    <3>3. k \in Int
      BY <1>6, <3>1
    <3> HIDE DEF k, z
    <3> QED
      BY <1>5, <2>1, <3>1, <3>2, <3>3 DEF Encrypted!PairState
  <2>2. CASE ~Encrypted!Suspicious(s2)
    <3>1. z = s2
      BY <2>2 DEF Encrypted!Shown
    <3> HIDE DEF z
    <3> QED
      BY <1>5, <2>2, <3>1
  <2> QED
    BY <2>1, <2>2
<1> HIDE DEF z
<1>8. /\ (Encrypted!Suspicious(z) <=> Encrypted!Suspicious(s2))
      /\ Encrypted!Rank(z) = Encrypted!Rank(s2)
  BY <1>7 DEF Encrypted!Suspicious, Encrypted!Rank
<1>9. /\ run2 \in Seq(Encrypted!Session) /\ Len(run2) = Len(run) + 1 /\ Len(run) \in Nat
      /\ DOMAIN run2 = 1 .. Len(run) + 1 /\ DOMAIN run = 1 .. Len(run)
      /\ run2[Len(run) + 1] = e /\ \A i \in 1 .. Len(run) : run2[i] = run[i]
  BY <1>1
<1> HIDE DEF run2
<1>10. ScoreOf(z, run2)
  <2>1. ScoreOf(s, run)
    BY DEF SessionsAre
  <2>2. /\ \A i \in DOMAIN run : run[i].seen # None => run[i].seen.score <= s.score
        /\ \/ s.score = 0 /\ \A i \in DOMAIN run : run[i].seen = None
           \/ \E i \in DOMAIN run : /\ run[i].seen # None /\ run[i].seen.score = s.score
                                    /\ run[i].seen.positives = s.positives
    BY <2>1 DEF ScoreOf
  <2>3. s.score \in Nat
    BY <1>1 DEF Encrypted!PairState
  <2>4. \A i \in DOMAIN run : run[i].seen # None => run[i].seen.score \in Nat
    <3> SUFFICES ASSUME NEW i \in DOMAIN run, run[i].seen # None
                 PROVE  run[i].seen.score \in Nat
      OBVIOUS
    <3>1. run[i] \in Encrypted!Session
      BY <1>1
    <3>2. run[i].seen \in Handshakes
      BY <3>1 DEF Encrypted!Session
    <3>3. run[i].seen \in [score: Nat, positives: Nat]
      BY <3>2, DetectionAssumption
    <3> QED
      BY <3>3
  <2>5. CASE e.seen = None
    <3>1. z.score = s.score /\ z.positives = s.positives
      BY <1>5, <1>7, <2>5
    <3>2. \A i \in DOMAIN run2 : run2[i].seen # None => run2[i].seen.score <= z.score
      BY <1>9, <2>2, <2>5, <3>1
    <3>3. CASE s.score = 0 /\ \A i \in DOMAIN run : run[i].seen = None
      BY <1>9, <2>5, <3>1, <3>2, <3>3 DEF ScoreOf
    <3>4. CASE \E i \in DOMAIN run : /\ run[i].seen # None /\ run[i].seen.score = s.score
                                     /\ run[i].seen.positives = s.positives
      BY <1>9, <3>1, <3>2, <3>4 DEF ScoreOf
    <3> QED
      BY <2>2, <3>3, <3>4
  <2>6. CASE e.seen # None /\ top
    <3>1. z.score = e.seen.score /\ z.positives = e.seen.positives /\ e.seen.score >= s.score
      BY <1>3, <1>5, <1>7, <2>6
    <3>2. \A i \in DOMAIN run2 : run2[i].seen # None => run2[i].seen.score <= z.score
      BY <1>2, <1>9, <2>2, <2>3, <2>4, <2>6, <3>1
    <3>3. Len(run) + 1 \in DOMAIN run2
      BY <1>9
    <3> QED
      BY <1>9, <2>6, <3>1, <3>2, <3>3 DEF ScoreOf
  <2>7. CASE e.seen # None /\ ~top
    <3>1. z.score = s.score /\ z.positives = s.positives /\ e.seen.score < s.score
      BY <1>2, <1>3, <1>5, <1>7, <2>3, <2>7
    <3>2. \A i \in DOMAIN run2 : run2[i].seen # None => run2[i].seen.score <= z.score
      BY <1>2, <1>9, <2>2, <2>3, <3>1
    <3>3. \E i \in DOMAIN run : /\ run[i].seen # None /\ run[i].seen.score = s.score
                                /\ run[i].seen.positives = s.positives
      BY <1>2, <2>2, <2>7, <3>1
    <3> QED
      BY <1>9, <3>1, <3>2, <3>3 DEF ScoreOf
  <2> QED
    BY <2>5, <2>6, <2>7
<1>11. SessionsAre(z, run2)
  BY <1>1, <1>5, <1>6, <1>7, <1>8, <1>9, <1>10 DEF SessionsAre
<1> QED
  BY <1>5, <1>7, <1>8, <1>11 DEF z, run2

\* The sessions of a run follow one another within the horizon, the last is the one
\* that the timer is set for.
RunIs(s, h) ==
  LET run == h.run IN
  /\ SessionsAre(s, run) /\ run # << >> /\ s.first = run[1].obs /\ s.last = run[Len(run)].obs
  /\ \A i \in 2 .. Len(run) : run[i].obs <= run[i - 1].obs + TlsHorizon
  /\ h.before # -1 => run[1].obs + OutOfOrderness > h.before + TlsHorizon
  /\ Encrypted!Suspicious(s) => s.rank = Encrypted!Rank(s)

\* What was before lies a horizon back, as far as the disorder lets one tell.
EncryptedCounts ==
  /\ newest \in Int
  /\ history \in [run: Seq(Encrypted!Session), before: Int]
  /\ IF state = None THEN newest # -1 => newest + TlsHorizon <= watermark + OutOfOrderness
     ELSE RunIs(state, history) /\ newest <= state.last + OutOfOrderness

LEMMA EncryptedCounting ==
  ASSUME TimersAhead, EncryptedCounts, Encrypted!Next
  PROVE  EncryptedCounts'
<1>0. /\ newest \in Int /\ history \in [run: Seq(Encrypted!Session), before: Int]
      /\ state = None /\ newest # -1 => newest + TlsHorizon <= watermark + OutOfOrderness
      /\ state # None => RunIs(state, history) /\ newest <= state.last + OutOfOrderness
  BY DEF EncryptedCounts
<1>1. TlsHorizon \in Nat /\ OutOfOrderness \in Nat /\ watermark \in Int
  BY ConfigAssumption DEF Sizes, TimersAhead
<1>2. CASE Encrypted!OnTimer
  <2>1. /\ watermark' = watermark + 1 /\ newest' = newest /\ history' = history
        /\ \/ state' = state
           \/ state # None /\ state' = None /\ Due # {} /\ state.last + TlsHorizon <= Max(Due)
    BY <1>2 DEF Encrypted!OnTimer, Encrypted!Expire, Encrypted!Tick, Encrypted!Due, Due,
                Encrypted!Max, Max
  <2>2. CASE state' = state
    BY <1>0, <1>1, <2>1, <2>2 DEF EncryptedCounts
  <2>3. CASE state # None /\ state' = None /\ Due # {} /\ state.last + TlsHorizon <= Max(Due)
    <3>1. Max(Due) = watermark + 1
      BY <2>3, DueNow
    <3>2. state.last \in Nat
      BY <1>0, <2>3 DEF RunIs, SessionsAre, Encrypted!PairState
    <3>3. newest <= state.last + OutOfOrderness /\ newest \in Int
      BY <1>0, <2>3
    <3>4. newest + TlsHorizon <= watermark + 1 + OutOfOrderness
      BY <1>1, <2>3, <3>1, <3>2, <3>3
    <3> QED
      BY <1>0, <1>1, <2>1, <2>3, <3>4 DEF EncryptedCounts
  <2> QED
    BY <2>1, <2>2, <2>3
<1>3. CASE \E e \in Encrypted!Session : Encrypted!Abstain(e) \/ Encrypted!Score(e)
  <2>1. PICK e \in Encrypted!Session : Encrypted!Abstain(e) \/ Encrypted!Score(e)
    BY <1>3
  <2> DEFINE go == Encrypted!Continues(e)
             s == IF go THEN state ELSE Encrypted!Empty(e)
             run == IF go THEN history.run ELSE << >>
             s1 == [s EXCEPT !.sessions = @ + 1, !.last = e.obs]
             top == e.seen.score >= s1.score
             s2 == IF e.seen = None THEN s1
                   ELSE [s1 EXCEPT !.scored = @ + 1,
                                   !.score = IF top THEN e.seen.score ELSE @,
                                   !.positives = IF top THEN e.seen.positives ELSE @]
             z == Encrypted!Shown(s2)
             run2 == Append(run, e)
             before == IF go THEN history.before ELSE newest
  <2>2. e.obs \in Nat
    BY <2>1 DEF Encrypted!Session
  <2>3. /\ e.obs > watermark /\ e.obs + OutOfOrderness >= newest /\ watermark' = watermark
        /\ newest' = Encrypted!Max({newest, e.obs}) /\ history' = Encrypted!Noted(e)
        /\ state' = z
    <3>1. Encrypted!Session1(e) = s1
      BY Zenon DEF Encrypted!Session1
    <3>2. e.seen # None => Encrypted!Scored(e) = s2
      BY <3>1, Zenon DEF Encrypted!Scored
    <3>3. e.seen = None => s2 = s1
      BY Zenon
    <3> HIDE DEF s1, s2, top, s
    <3>4. CASE Encrypted!Abstain(e)
      BY <3>1, <3>3, <3>4, Zenon DEF Encrypted!Abstain, Encrypted!Handle
    <3>5. CASE Encrypted!Score(e)
      BY <3>2, <3>5, Zenon DEF Encrypted!Score, Encrypted!Handle
    <3> QED
      BY <2>1, <3>4, <3>5
  <2>4. newest' = IF newest >= e.obs THEN newest ELSE e.obs
    <3>1. newest \in Int /\ e.obs \in Int
      BY <1>0, <2>2
    <3> QED
      BY <2>3, <3>1, EncryptedMax
  <2>5. go => state # None /\ e.obs <= state.last + TlsHorizon /\ RunIs(state, history)
    BY <1>0 DEF Encrypted!Continues
  <2>6. ~go /\ state # None => ~(e.obs <= state.last + TlsHorizon)
    BY DEF Encrypted!Continues
  <2>7. SessionsAre(s, run)
    <3>1. CASE go
      BY <2>5, <3>1, Zenon DEF RunIs
    <3>2. CASE ~go
      BY <3>2, NoSession, Zenon
    <3> QED
      BY <3>1, <3>2
  <2>8. /\ SessionsAre(z, run2) /\ z.last = e.obs /\ z.first = s.first
        /\ Encrypted!Suspicious(z) => z.rank = Encrypted!Rank(z)
    <3>1. Counts1(s, e, s2)
      BY Zenon DEF Counts1
    <3> HIDE DEF s2, s, run, s1, top
    <3> QED
      BY <2>7, <3>1, SessionAdded
  <2>9. z \in Encrypted!PairState
    BY <2>8 DEF SessionsAre
  <2>10. run \in Seq(Encrypted!Session) /\ e \in Encrypted!Session
    BY <2>1, <2>7 DEF SessionsAre
  <2>11. history' = [run |-> run2, before |-> before] /\ before \in Int
    <3>1. CASE go
      <4>1. history' = [history EXCEPT !.run = Append(@, e)]
        BY <2>3, <3>1, Zenon DEF Encrypted!Noted
      <4>2. run2 = Append(history.run, e) /\ before = history.before
        BY <3>1, Zenon
      <4> HIDE DEF run2, before
      <4> QED
        BY <1>0, <4>1, <4>2
    <3>2. CASE ~go
      <4>1. history' = [run |-> <<e>>, before |-> newest]
        BY <2>3, <3>2, Zenon DEF Encrypted!Noted
      <4>2. run = << >> /\ before = newest
        BY <3>2, Zenon
      <4> HIDE DEF run
      <4>3. run2 = <<e>>
        BY <4>2
      <4> HIDE DEF run2, before
      <4> QED
        BY <1>0, <4>1, <4>2, <4>3
    <3> QED
      BY <3>1, <3>2
  <2>12. /\ run2 \in Seq(Encrypted!Session) /\ Len(run2) = Len(run) + 1 /\ Len(run) \in Nat
         /\ run2[Len(run) + 1] = e /\ \A i \in 1 .. Len(run) : run2[i] = run[i]
         /\ (run # << >> => Len(run) # 0) /\ (run = << >> => Len(run) = 0) /\ run2 # << >>
    <3> HIDE DEF run
    <3> QED
      BY <2>10
  <2> HIDE DEF run2, z
  <2>13. /\ z.first = run2[1].obs
         /\ \A i \in 2 .. Len(run2) : run2[i].obs <= run2[i - 1].obs + TlsHorizon
         /\ before # -1 => run2[1].obs + OutOfOrderness > before + TlsHorizon
    <3>1. CASE go
      <4>1. s = state /\ run = history.run /\ before = history.before
        BY <3>1, Zenon
      <4>2. /\ run # << >> /\ s.first = run[1].obs /\ s.last = run[Len(run)].obs
            /\ \A i \in 2 .. Len(run) : run[i].obs <= run[i - 1].obs + TlsHorizon
            /\ before # -1 => run[1].obs + OutOfOrderness > before + TlsHorizon
        BY <2>5, <3>1, <4>1, Zenon DEF RunIs
      <4>3. e.obs <= run[Len(run)].obs + TlsHorizon
        BY <2>5, <3>1, <4>1, <4>2
      <4> HIDE DEF s, run, before
      <4>4. run2[1] = run[1]
        BY <2>12, <4>2
      <4>5. \A i \in 2 .. Len(run2) : run2[i].obs <= run2[i - 1].obs + TlsHorizon
        <5> SUFFICES ASSUME NEW i \in 2 .. Len(run2)
                     PROVE  run2[i].obs <= run2[i - 1].obs + TlsHorizon
          OBVIOUS
        <5>1. i - 1 \in 1 .. Len(run)
          BY <2>12
        <5>2. CASE i = Len(run) + 1
          BY <2>12, <4>3, <5>1, <5>2
        <5>3. CASE i # Len(run) + 1
          <6>1. i \in 2 .. Len(run)
            BY <2>12, <5>3
          <6> QED
            BY <2>12, <4>2, <5>1, <6>1
        <5> QED
          BY <5>2, <5>3
      <4> QED
        BY <2>8, <4>2, <4>4, <4>5
    <3>2. CASE ~go
      <4>1. run = << >> /\ before = newest /\ s = Encrypted!Empty(e)
        BY <3>2, Zenon
      <4>2. s.first = e.obs
        BY <4>1 DEF Encrypted!Empty
      <4>3. newest # -1 => e.obs + OutOfOrderness > newest + TlsHorizon
        <5>1. CASE state = None
          BY <1>0, <1>1, <2>2, <2>3, <5>1
        <5>2. CASE state # None
          <6>1. state.last \in Nat
            BY <1>0, <5>2 DEF RunIs, SessionsAre, Encrypted!PairState
          <6>2. newest <= state.last + OutOfOrderness /\ newest \in Int
            BY <1>0, <5>2
          <6> QED
            BY <1>1, <2>2, <2>6, <3>2, <5>2, <6>1, <6>2
        <5> QED
          BY <5>1, <5>2
      <4> HIDE DEF s, run, before
      <4>4. Len(run2) = 1 /\ run2[1] = e
        BY <2>12, <4>1
      <4> QED
        BY <2>8, <4>1, <4>2, <4>3, <4>4
    <3> QED
      BY <3>1, <3>2
  <2>14. newest' <= z.last + OutOfOrderness /\ newest' \in Int
    <3>1. z.last = e.obs
      BY <2>8
    <3>2. newest \in Int /\ e.obs + OutOfOrderness >= newest
      BY <1>0, <2>3
    <3>3. newest' <= e.obs + OutOfOrderness /\ newest' \in Int
      BY <1>1, <2>2, <2>4, <3>2
    <3> QED
      BY <3>1, <3>3
  <2> HIDE DEF run, before, s
  <2>15. history'.run = run2 /\ history'.before = before
         /\ history' \in [run: Seq(Encrypted!Session), before: Int]
    BY <2>11, <2>12
  <2>16. RunIs(z, history')
    <3>1. z.last = run2[Len(run2)].obs
      BY <2>8, <2>12
    <3> QED
      BY <2>8, <2>12, <2>13, <2>15, <3>1 DEF RunIs
  <2>17. z # None
    BY <2>9, DetectionAssumption
  <2>18. RunIs(state', history') /\ state' # None
    BY <2>3, <2>16, <2>17
  <2> QED
    BY <2>3, <2>14, <2>15, <2>18 DEF EncryptedCounts
<1> QED
  BY <1>2, <1>3 DEF Encrypted!Next

LEMMA EncryptedCounted ==
  ASSUME EncryptedCounts
  PROVE  Encrypted!SessionsAreOneRun
<1> DEFINE run == history.run
           scores == {run[i].seen : i \in DOMAIN run} \ {None}
           S == {0} \cup {s.score : s \in scores}
<1> SUFFICES ASSUME state # None
             PROVE  /\ state.sessions = Len(run) /\ state.first = run[1].obs
                    /\ \A i \in 2 .. Len(run) : run[i].obs <= run[i - 1].obs + TlsHorizon
                    /\ history.before # -1 =>
                         run[1].obs + OutOfOrderness > history.before + TlsHorizon
                    /\ state.score = Encrypted!Max(S)
                    /\ scores # {} =>
                         [score |-> state.score, positives |-> state.positives] \in scores
                    /\ Encrypted!Suspicious(state) => state.rank = Encrypted!Rank(state)
  BY Zenon DEF Encrypted!SessionsAreOneRun
<1>1. RunIs(state, history)
  BY DEF EncryptedCounts
<1>2. /\ SessionsAre(state, run) /\ state.first = run[1].obs
      /\ \A i \in 2 .. Len(run) : run[i].obs <= run[i - 1].obs + TlsHorizon
      /\ history.before # -1 => run[1].obs + OutOfOrderness > history.before + TlsHorizon
      /\ Encrypted!Suspicious(state) => state.rank = Encrypted!Rank(state)
  BY <1>1, Zenon DEF RunIs
<1>3. /\ state \in Encrypted!PairState /\ run \in Seq(Encrypted!Session)
      /\ state.sessions = Len(run) /\ ScoreOf(state, run)
  BY <1>2 DEF SessionsAre
<1>4. state.score \in Nat
  BY <1>3 DEF Encrypted!PairState
<1>5. scores \subseteq [score: Nat, positives: Nat]
  <2>1. \A i \in DOMAIN run : run[i] \in Encrypted!Session
    BY <1>3
  <2>2. \A i \in DOMAIN run : run[i].seen \in Handshakes
    BY <2>1 DEF Encrypted!Session
  <2> HIDE DEF run
  <2> QED
    BY <2>2, DetectionAssumption
<1> HIDE DEF run
<1>6. \A s \in scores : s.score <= state.score
  BY <1>3 DEF ScoreOf
<1>7. \/ state.score = 0 /\ scores = {}
      \/ \E s \in scores : s.score = state.score /\ s.positives = state.positives
  <2>1. CASE state.score = 0 /\ \A i \in DOMAIN run : run[i].seen = None
    BY <2>1
  <2>2. CASE \E i \in DOMAIN run : /\ run[i].seen # None /\ run[i].seen.score = state.score
                                   /\ run[i].seen.positives = state.positives
    BY <2>2
  <2> QED
    BY <1>3, <2>1, <2>2 DEF ScoreOf
<1> HIDE DEF scores
<1>8. scores # {} => [score |-> state.score, positives |-> state.positives] \in scores
  <2> SUFFICES ASSUME scores # {}
               PROVE  [score |-> state.score, positives |-> state.positives] \in scores
    OBVIOUS
  <2>1. PICK s \in scores : s.score = state.score /\ s.positives = state.positives
    BY <1>7
  <2>2. s \in [score: Nat, positives: Nat]
    BY <1>5, <2>1
  <2>3. s = [score |-> s.score, positives |-> s.positives]
    BY <2>2
  <2> QED
    BY <2>1, <2>3
<1>9. state.score = Encrypted!Max(S)
  <2>1. \A s \in scores : s.score \in Nat
    BY <1>5
  <2>2. state.score \in S /\ \A y \in S : y \in Int /\ state.score >= y
    BY <1>4, <1>6, <1>7, <2>1
  <2> HIDE DEF S
  <2>3. \A x \in S : (\A y \in S : x >= y) => x = state.score
    BY <2>2
  <2> QED
    BY <2>2, <2>3 DEF Encrypted!Max
<1> QED
  BY <1>2, <1>3, <1>8, <1>9

-----------------------------------------------------------------------------
(***************************************************************************)
(* Windows: the horizon of a scan                                          *)
(***************************************************************************)

\* The map g is f with the later of f[k] and t for k.
Renewed(g, D, f, k, t) ==
  /\ DOMAIN g = D \cup {k} /\ g \in [D \cup {k} -> Nat]
  /\ \A x \in D \ {k} : g[x] = f[x]
  /\ g[k] = IF k \in D /\ f[k] > t THEN f[k] ELSE t

LEMMA LaterIs ==
  ASSUME NEW D, NEW f \in [D -> Nat], NEW k, NEW t \in Nat
  PROVE  Renewed(Scan!Later(f, k, t), D, f, k, t)
<1> DEFINE g == Scan!Later(f, k, t)
<1>1. CASE k \in D /\ f[k] > t
  <2>1. g = f /\ D \cup {k} = D
    BY <1>1 DEF Scan!Later
  <2> HIDE DEF g
  <2> QED
    BY <1>1, <2>1 DEF g, Renewed
<1>2. CASE ~(k \in D /\ f[k] > t)
  <2>1. g = [x \in D \cup {k} |-> IF x = k THEN t ELSE f[x]]
    BY <1>2 DEF Scan!Later, Scan!Put
  <2> HIDE DEF g
  <2>2. /\ DOMAIN g = D \cup {k} /\ g \in [D \cup {k} -> Nat]
        /\ \A x \in D \ {k} : g[x] = f[x]
        /\ g[k] = t
    BY <2>1
  <2> QED
    BY <1>2, <2>2 DEF g, Renewed
<1> QED
  BY <1>1, <1>2

\* A contact changes its own pair only, a new one to its time and a known one to the
\* later of the two (scan.py, _track).
LEMMA ScanRenewed ==
  ASSUME NEW m, ScanExact(m), NEW e \in Scan!Flow
  PROVE  LET pair == <<e.host, e.port>>
             P == m.pairs
             Q == Scan!Track(m, e).pairs
         IN /\ DOMAIN Q \subseteq DOMAIN P \cup {pair} /\ DOMAIN P \subseteq DOMAIN Q
            /\ \A x \in DOMAIN P \ {pair} : Q[x] = P[x]
            /\ pair \in DOMAIN Q =>
                 Q[pair] = IF pair \in DOMAIN P /\ P[pair] > e.obs THEN P[pair] ELSE e.obs
<1> DEFINE pair == <<e.host, e.port>>
           P == m.pairs
           m2 == Scan!Track(m, e)
           Q == m2.pairs
<1>1. m \in Scan!ScanState
  BY DEF ScanExact
<1>2. P \in Scan!Maps(Hosts \X Ports, Nat) /\ e.obs \in Nat
  BY <1>1 DEF Scan!ScanState, Scan!Flow
<1>3. P \in [DOMAIN P -> Nat]
  BY <1>2, MapsAre
<1> HIDE DEF pair, m2
<1>4. CASE pair \in DOMAIN P
  <2> DEFINE R == Scan!Later(m.pairs, pair, e.obs)
  <2>1. m2 = [m EXCEPT !.pairs = R]
    BY <1>4 DEF Scan!Track, pair, m2
  <2> HIDE DEF R
  <2>2. Q = R
    BY <1>1, <2>1 DEF Scan!ScanState
  <2>3. /\ DOMAIN R = DOMAIN P \cup {pair} /\ \A x \in DOMAIN P \ {pair} : R[x] = P[x]
        /\ R[pair] = IF pair \in DOMAIN P /\ P[pair] > e.obs THEN P[pair] ELSE e.obs
    <3>1. Renewed(R, DOMAIN P, P, pair, e.obs)
      BY <1>2, <1>3, LaterIs DEF R
    <3> QED
      BY <3>1 DEF Renewed
  <2> QED
    BY <2>2, <2>3 DEF pair, m2
<1>5. CASE pair \notin DOMAIN P /\ m.n >= ScanPairCap
  <2>1. m2 = [m EXCEPT !.capped = TRUE]
    BY <1>5 DEF Scan!Track, pair, m2
  <2>2. Q = P
    BY <1>1, <2>1 DEF Scan!ScanState
  <2> QED
    BY <1>5, <2>2 DEF pair, m2
<1>6. CASE pair \notin DOMAIN P /\ ~(m.n >= ScanPairCap)
  <2> DEFINE R == Scan!Put(m.pairs, pair, e.obs)
             n == m.n + 1
             f == Scan!Put(m.byPort, e.port, Scan!CountOf(m.byPort, e.port) + 1)
             g == Scan!Put(m.byHost, e.host, Scan!CountOf(m.byHost, e.host) + 1)
             a == IF e.port \in DOMAIN m.byPort THEN m.ports ELSE m.ports + 1
             b == IF e.host \in DOMAIN m.byHost THEN m.hosts ELSE m.hosts + 1
  <2>1. m2 = [m EXCEPT !.pairs = R, !.n = n, !.ports = a, !.hosts = b, !.byPort = f, !.byHost = g]
    BY <1>6, Zenon DEF Scan!Track, pair, m2
  <2>2. DOMAIN R = DOMAIN P \cup {pair} /\ R[pair] = e.obs
        /\ \A x \in DOMAIN P \ {pair} : R[x] = P[x]
    BY DEF Scan!Put
  <2> HIDE DEF R, n, f, g, a, b
  <2>3. Q = R
    BY <1>1, <2>1 DEF Scan!ScanState
  <2> QED
    BY <1>6, <2>2, <2>3 DEF pair, m2
<1> QED
  BY <1>4, <1>5, <1>6

\* The times P of the pairs kept against the times S they were contacted, but for
\* those that found no room.
Follows(P, S, capped, now) ==
  /\ \A x \in DOMAIN P : x \in DOMAIN S /\ P[x] <= S[x]
  /\ \A x \in DOMAIN S \ capped :
       S[x] + ScanHorizon >= now => x \in DOMAIN P /\ P[x] = S[x]

\* The next timer comes before a pair is a step beyond the horizon.
ScanHorizons ==
  /\ history.seen \in [DOMAIN history.seen -> Nat]
  /\ Follows(Scan!Current.pairs, history.seen, history.capped, watermark)
  /\ state # None =>
       \E t \in timers : \A x \in DOMAIN state.pairs : state.pairs[x] + ScanHorizon + ScanStep >= t

LEMMA ScanFollows ==
  ASSUME NEW D, NEW P \in [D -> Nat], NEW C, NEW S \in [C -> Nat], NEW capped,
         NEW now \in Int, Follows(P, S, capped, now), NEW k, NEW t \in Nat, t > now,
         NEW Q, DOMAIN Q \subseteq D \cup {k}, D \subseteq DOMAIN Q,
         \A x \in D \ {k} : Q[x] = P[x],
         k \in DOMAIN Q => Q[k] = IF k \in D /\ P[k] > t THEN P[k] ELSE t
  PROVE  Follows(Q, Scan!Later(S, k, t), IF k \in DOMAIN Q THEN capped ELSE capped \cup {k}, now)
<1> DEFINE S2 == Scan!Later(S, k, t)
           capped2 == IF k \in DOMAIN Q THEN capped ELSE capped \cup {k}
<1>1. ScanHorizon \in Nat
  BY ConfigAssumption DEF Sizes
<1>2. /\ DOMAIN S2 = C \cup {k} /\ S2 \in [C \cup {k} -> Nat]
      /\ \A x \in C \ {k} : S2[x] = S[x]
      /\ S2[k] = IF k \in C /\ S[k] > t THEN S[k] ELSE t
  <2>1. Renewed(S2, C, S, k, t)
    BY LaterIs
  <2> HIDE DEF S2
  <2> QED
    BY <2>1 DEF Renewed
<1>3. \A x \in D : x \in C /\ P[x] <= S[x] /\ P[x] \in Nat /\ S[x] \in Nat
  BY DEF Follows
<1>4. \A x \in C \ capped : S[x] + ScanHorizon >= now => x \in D /\ P[x] = S[x]
  BY DEF Follows
<1> HIDE DEF S2, capped2
<1>5. ASSUME NEW x \in DOMAIN Q
      PROVE  x \in DOMAIN S2 /\ Q[x] <= S2[x]
  <2>1. CASE x # k
    BY <1>2, <1>3, <1>5, <2>1
  <2>2. CASE x = k
    BY <1>2, <1>3, <1>5, <2>2
  <2> QED
    BY <2>1, <2>2
<1>6. ASSUME NEW x \in DOMAIN S2 \ capped2, S2[x] + ScanHorizon >= now
      PROVE  x \in DOMAIN Q /\ Q[x] = S2[x]
  <2>1. CASE x # k
    <3>1. x \in C \ capped /\ S2[x] = S[x]
      BY <1>2, <1>6, <2>1 DEF capped2
    <3>2. x \in D /\ P[x] = S[x]
      BY <1>4, <1>6, <3>1
    <3> QED
      BY <2>1, <3>1, <3>2
  <2>2. CASE x = k
    <3>1. k \in DOMAIN Q /\ k \notin capped
      BY <1>6, <2>2 DEF capped2
    <3>2. CASE k \in C /\ S[k] > t
      <4>1. S[k] \in Nat /\ S[k] + ScanHorizon >= now
        BY <1>1, <3>2
      <4>2. k \in D /\ P[k] = S[k]
        BY <1>4, <3>1, <3>2, <4>1
      <4> QED
        BY <1>2, <2>2, <3>1, <3>2, <4>2
    <3>3. CASE ~(k \in C /\ S[k] > t)
      <4>1. ~(k \in D /\ P[k] > t)
        BY <1>3, <3>3
      <4> QED
        BY <1>2, <2>2, <3>1, <3>3, <4>1
    <3> QED
      BY <3>2, <3>3
  <2> QED
    BY <2>1, <2>2
<1> QED
  BY <1>5, <1>6 DEF Follows, S2, capped2

LEMMA ScanHorizonKept ==
  ASSUME TimersAhead, ScanCounts, ScanHorizons, Scan!Next
  PROVE  ScanHorizons'
<1> DEFINE P == Scan!Current.pairs
           S == history.seen
<1>0. /\ S \in [DOMAIN S -> Nat] /\ Follows(P, S, history.capped, watermark)
      /\ state # None =>
           \E t \in timers : \A x \in DOMAIN state.pairs :
             state.pairs[x] + ScanHorizon + ScanStep >= t
  BY DEF ScanHorizons
<1>1. ScanHorizon \in Nat /\ ScanStep \in Nat \ {0} /\ watermark \in Int
  BY ConfigAssumption DEF Sizes, Counts, TimersAhead
<1>2. ScanExact(Scan!Current)
  BY ScanEmpty DEF Scan!Current, ScanCounts
<1>3. P \in [DOMAIN P -> Nat]
  <2>1. P \in Scan!Maps(Hosts \X Ports, Nat)
    BY <1>2 DEF ScanExact, Scan!ScanState
  <2> QED
    BY <2>1, MapsAre
<1>4. state # None => P = state.pairs
  BY DEF Scan!Current
<1>5. state = None => DOMAIN P = {}
  BY DEF Scan!Current, Scan!Empty
<1> HIDE DEF P, S
<1>6. CASE \E e \in Scan!Flow : Scan!Contact(e)
  <2>1. PICK e \in Scan!Flow : Scan!Contact(e)
    BY <1>6
  <2> DEFINE pair == <<e.host, e.port>>
             m1 == Scan!Track(Scan!Current, e)
             o == Scan!Outcome(m1, e)
             m2 == Scan!Noted(o, e)
             Q == m1.pairs
             S2 == Scan!Later(history.seen, pair, e.obs)
             capped2 == IF pair \in DOMAIN o.pairs THEN history.capped
                        ELSE history.capped \cup {pair}
  <2>2. e.obs \in Nat
    BY <2>1 DEF Scan!Flow
  <2>3. /\ watermark' = watermark /\ e.obs > watermark /\ state' = m2
        /\ timers' = timers \cup {BucketUp(e.obs, ScanStep)}
        /\ history' = [seen |-> S2, capped |-> capped2]
    BY <2>1, Zenon DEF Scan!Contact, Scan!Handle, Scan!BucketUp, BucketUp
  <2>4. ScanExact(m1)
    BY <1>2, ScanTracked
  <2>5. m2.pairs = Q /\ ScanExact(m2)
    <3> HIDE DEF m1
    <3> QED
      BY <2>4, ScanNoted
  <2>6. o.pairs = Q
    <3>1. m1 \in Scan!ScanState
      BY <2>4 DEF ScanExact
    <3> HIDE DEF m1
    <3> QED
      BY <3>1 DEF Scan!Outcome, Scan!ScanState
  <2>7. /\ DOMAIN Q \subseteq DOMAIN P \cup {pair} /\ DOMAIN P \subseteq DOMAIN Q
        /\ \A x \in DOMAIN P \ {pair} : Q[x] = P[x]
        /\ pair \in DOMAIN Q =>
             Q[pair] = IF pair \in DOMAIN P /\ P[pair] > e.obs THEN P[pair] ELSE e.obs
    BY <1>2, ScanRenewed DEF P
  <2>8. m2 # None
    BY <2>5, DetectionAssumption DEF ScanExact
  <2> HIDE DEF m1, o, m2, pair
  <2>9. capped2 = IF pair \in DOMAIN Q THEN history.capped ELSE history.capped \cup {pair}
    BY <2>6
  <2>10. Follows(Q, S2, capped2, watermark)
    <3>1. Follows(Q, Scan!Later(S, pair, e.obs),
                  IF pair \in DOMAIN Q THEN history.capped ELSE history.capped \cup {pair},
                  watermark)
      <4> HIDE DEF Q
      <4> QED
        BY <1>0, <1>1, <1>3, <2>2, <2>3, <2>7, ScanFollows
    <3> QED
      BY <2>9, <3>1 DEF S
  <2>11. S2 \in [DOMAIN S2 -> Nat]
    <3>1. S2 \in [DOMAIN S \cup {pair} -> Nat]
      <4>1. Renewed(S2, DOMAIN S, S, pair, e.obs)
        BY <1>0, <2>2, LaterIs DEF S
      <4> HIDE DEF S2
      <4> QED
        BY <4>1 DEF Renewed
    <3> HIDE DEF S2
    <3> QED
      BY <3>1
  <2> HIDE DEF S2, capped2
  <2>12. Scan!Current' = m2
    BY <2>3, <2>8 DEF Scan!Current
  <2>13. history'.seen = S2 /\ history'.capped = capped2
    BY <2>3
  <2>14. \E t \in timers' : \A x \in DOMAIN Q : Q[x] + ScanHorizon + ScanStep >= t
    <3> DEFINE b == BucketUp(e.obs, ScanStep)
    <3>1. b \in Int /\ b <= e.obs + ScanStep
      <4>1. e.obs = ScanStep * (e.obs \div ScanStep) + (e.obs % ScanStep)
            /\ e.obs % ScanStep \in Nat /\ e.obs \div ScanStep \in Nat
        BY <1>1, <2>2
      <4>2. (e.obs \div ScanStep + 1) * ScanStep = ScanStep * (e.obs \div ScanStep) + ScanStep
        BY <1>1, <4>1
      <4>3. ScanStep * (e.obs \div ScanStep) \in Nat
        BY <1>1, <4>1
      <4> DEFINE q == ScanStep * (e.obs \div ScanStep)
                 r == e.obs % ScanStep
      <4>4. e.obs = q + r /\ r \in Nat /\ q \in Nat /\ b = q + ScanStep
        BY <4>1, <4>2, <4>3 DEF BucketUp
      <4> HIDE DEF q, r, b
      <4> QED
        BY <1>1, <2>2, <4>4
    <3> HIDE DEF b, Q
    <3>2. b \in timers'
      BY <2>3 DEF b
    <3>3. \A x \in DOMAIN P : P[x] \in Nat
      BY <1>3
    <3>4. \A x \in DOMAIN Q : \/ x # pair /\ x \in DOMAIN P /\ Q[x] = P[x]
                              \/ x = pair /\ Q[x] >= e.obs /\ Q[x] \in Nat
      BY <2>2, <2>7, <3>3
    <3>5. CASE state = None
      BY <1>1, <1>5, <2>2, <3>1, <3>2, <3>4, <3>5
    <3>6. CASE state # None
      <4>1. PICK t \in timers : \A x \in DOMAIN P : P[x] + ScanHorizon + ScanStep >= t
        BY <1>0, <1>4, <3>6
      <4>2. t \in Int /\ t \in timers'
        BY <2>3, <4>1 DEF TimersAhead
      <4>3. CASE e.obs + ScanHorizon + ScanStep >= t
        BY <1>1, <2>2, <3>4, <4>1, <4>2, <4>3
      <4>4. CASE ~(e.obs + ScanHorizon + ScanStep >= t)
        BY <1>1, <2>2, <3>1, <3>2, <3>3, <3>4, <4>1, <4>2, <4>4
      <4> QED
        BY <4>3, <4>4
    <3> QED
      BY <3>5, <3>6
  <2> QED
    BY <2>3, <2>5, <2>10, <2>11, <2>12, <2>13, <2>14 DEF ScanHorizons
<1>7. CASE \E t \in 0 .. TimeOf["scan"] : Scan!NotNew(t)
  <2>1. /\ state' = state /\ watermark' = watermark /\ timers' = timers /\ history' = history
    BY <1>7 DEF Scan!NotNew, Scan!Ignore, Scan!Handle
  <2>2. Scan!Current' = Scan!Current
    BY <2>1 DEF Scan!Current
  <2> QED
    BY <2>1, <2>2 DEF ScanHorizons
<1>8. CASE Scan!OnTimer
  <2>1. CASE Due = {} \/ state = None
    <3>1. /\ state' = state /\ watermark' = watermark + 1 /\ timers' = timers \ Due
          /\ history' = history
      BY <1>8, <2>1 DEF Scan!OnTimer, Scan!Tick, Scan!Due, Due
    <3>2. Scan!Current' = Scan!Current
      BY <3>1 DEF Scan!Current
    <3>3. Follows(P, S, history.capped, watermark + 1)
      BY <1>0, <1>1 DEF Follows
    <3>4. state # None => timers' = timers
      BY <2>1, <3>1
    <3> QED
      BY <1>0, <3>1, <3>2, <3>3, <3>4 DEF ScanHorizons, P, S
  <2>2. CASE Due # {} /\ state # None
    <3> DEFINE ts == Max(Due)
               m == Scan!AfterExpiry(ts)
               Q == m.pairs
               full == m.capped /\ m.n >= ScanPairCap
    <3>1. /\ watermark' = watermark + 1 /\ history' = history
          /\ \/ state' = None /\ m.n <= 0
             \/ /\ state' = [m EXCEPT !.capped = full]
                /\ timers' = (timers \ Due) \cup {ts + ScanStep}
      <4>1. Scan!Due = Due /\ Scan!Max(Scan!Due) = ts
        BY DEF Scan!Due, Due, Scan!Max, Max
      <4> HIDE DEF ts
      <4> QED
        BY <1>8, <2>2, <4>1, Zenon DEF Scan!OnTimer, Scan!Tick
    <3>2. ts = watermark + 1
      BY <2>2, DueNow
    <3>3. ScanExact(m) /\ Without(m, state, Scan!Expired(ts))
      <4>1. ScanExact(state)
        BY <2>2 DEF ScanCounts
      <4> QED
        BY <4>1, ExpiryExact
    <3>4. Scan!Expired(ts) = {x \in DOMAIN P : P[x] < ts - ScanHorizon}
      BY <1>4, <2>2 DEF Scan!Expired
    <3> HIDE DEF m, ts, full
    <3>5. /\ DOMAIN Q = {x \in DOMAIN P : ~(P[x] < ts - ScanHorizon)}
          /\ \A x \in DOMAIN Q : Q[x] = P[x]
      BY <1>4, <2>2, <3>3, <3>4 DEF Without
    <3>6. m \in Scan!ScanState /\ IsFiniteSet(DOMAIN Q) /\ m.n = Cardinality(DOMAIN Q)
      BY <3>3 DEF ScanExact
    <3> HIDE DEF Q
    <3>7. Follows(Q, S, history.capped, watermark + 1)
      <4>1. ASSUME NEW x \in DOMAIN Q
            PROVE  x \in DOMAIN S /\ Q[x] <= S[x]
        BY <1>0, <3>5, <4>1 DEF Follows
      <4>2. ASSUME NEW x \in DOMAIN S \ history.capped, S[x] + ScanHorizon >= watermark + 1
            PROVE  x \in DOMAIN Q /\ Q[x] = S[x]
        <5>1. S[x] \in Nat
          BY <1>0
        <5>2. x \in DOMAIN P /\ P[x] = S[x]
          BY <1>0, <1>1, <4>2, <5>1 DEF Follows
        <5> QED
          BY <1>1, <3>2, <3>5, <4>2, <5>1, <5>2
      <4> QED
        BY <4>1, <4>2 DEF Follows
    <3>8. CASE state' = None /\ m.n <= 0
      <4>1. DOMAIN Q = {}
        <5>1. Cardinality(DOMAIN Q) \in Nat
          BY <3>6, FS_CardinalityType
        <5>2. Cardinality(DOMAIN Q) = 0
          BY <3>6, <3>8, <5>1
        <5> QED
          BY <3>6, <5>2, FS_EmptySet
      <4>2. Follows(Scan!Empty.pairs, S, history.capped, watermark + 1)
        <5>1. DOMAIN Scan!Empty.pairs = {}
          BY DEF Scan!Empty
        <5> QED
          BY <3>7, <4>1, <5>1 DEF Follows
      <4>3. Scan!Current' = Scan!Empty
        BY <3>8 DEF Scan!Current
      <4> QED
        BY <1>0, <3>1, <3>8, <4>2, <4>3 DEF ScanHorizons, S
    <3>9. CASE /\ state' = [m EXCEPT !.capped = full]
               /\ timers' = (timers \ Due) \cup {ts + ScanStep}
      <4>1. full \in BOOLEAN
        BY Zenon DEF full
      <4>2. state' \in Scan!ScanState /\ state'.pairs = Q
        BY <3>6, <3>9, <4>1 DEF Scan!ScanState, Q
      <4>3. state' # None /\ Scan!Current' = state'
        BY <4>2, DetectionAssumption DEF Scan!Current
      <4>4. \A x \in DOMAIN Q : Q[x] + ScanHorizon + ScanStep >= ts + ScanStep
        BY <1>1, <1>3, <3>2, <3>5
      <4>5. ts + ScanStep \in timers'
        BY <3>9
      <4> QED
        BY <1>0, <3>1, <3>7, <4>2, <4>3, <4>4, <4>5 DEF ScanHorizons, S
    <3> QED
      BY <3>1, <3>8, <3>9
  <2> QED
    BY <2>1, <2>2
<1> QED
  BY <1>6, <1>7, <1>8 DEF Scan!Next

LEMMA ScanHorizoned ==
  ASSUME TimersAhead, ScanCounts, ScanHorizons
  PROVE  Scan!HorizonIsExact
<1> DEFINE P == Scan!Current.pairs
           S == history.seen
           kept == IF state = None THEN {} ELSE DOMAIN state.pairs
           seen(lag) == {pair \in DOMAIN S : S[pair] + ScanHorizon + lag >= watermark}
<1>1. ScanHorizon \in Nat /\ ScanStep \in Nat \ {0} /\ watermark \in Int
  BY ConfigAssumption DEF Sizes, Counts, TimersAhead
<1>2. S \in [DOMAIN S -> Nat] /\ Follows(P, S, history.capped, watermark)
  BY DEF ScanHorizons
<1>3. kept = DOMAIN P
  BY DEF Scan!Current, Scan!Empty
<1>4. seen(0) \subseteq kept \cup history.capped
  <2> HIDE DEF P, S, kept
  <2> QED
    BY <1>1, <1>2, <1>3 DEF Follows
<1>5. kept \subseteq seen(ScanStep)
  <2> SUFFICES ASSUME NEW x \in kept
               PROVE  x \in seen(ScanStep)
    OBVIOUS
  <2>1. state # None /\ P = state.pairs
    BY DEF Scan!Current
  <2>2. ScanExact(state)
    BY <2>1 DEF ScanCounts
  <2>3. P \in Scan!Maps(Hosts \X Ports, Nat)
    BY <2>1, <2>2 DEF ScanExact, Scan!ScanState
  <2>4. P \in [DOMAIN P -> Nat]
    BY <2>3, MapsAre
  <2>5. PICK t \in timers : \A y \in DOMAIN P : P[y] + ScanHorizon + ScanStep >= t
    BY <2>1 DEF ScanHorizons
  <2>6. t \in Int /\ t > watermark
    BY <2>5 DEF TimersAhead
  <2> HIDE DEF P, S, kept
  <2>7. x \in DOMAIN S /\ P[x] <= S[x] /\ P[x] \in Nat /\ S[x] \in Nat
    BY <1>2, <1>3, <2>4 DEF Follows
  <2>8. S[x] + ScanHorizon + ScanStep >= watermark
    BY <1>1, <1>3, <2>5, <2>6, <2>7
  <2> QED
    BY <2>7, <2>8
<1> QED
  BY <1>4, <1>5, Zenon DEF Scan!HorizonIsExact

-----------------------------------------------------------------------------
(***************************************************************************)
(* Windows: the young ones of a sequence of uploads                        *)
(***************************************************************************)

Uploads == Seq(Exfil!Delta)

\* The young ones of the first i records, from those of one less.
YoungAt(f, s, t, i) ==
  IF i = 0 THEN << >>
  ELSE IF s[i].obs >= t THEN Append(f[i - 1], s[i]) ELSE f[i - 1]

Young(f, s, t, n) == f = [i \in 0 .. n |-> YoungAt(f, s, t, i)]

LEMMA YoungExists ==
  ASSUME NEW s, NEW t, NEW n \in Nat
  PROVE  \E f : Young(f, s, t, n)
<1> DEFINE Bad == {i \in Nat : ~(\E f : Young(f, s, t, i))}
<1> SUFFICES ASSUME Bad # {}
             PROVE  FALSE
  OBVIOUS
<1> DEFINE m == Min(Bad)
<1>1. m \in Bad /\ \A i \in Bad : m <= i
  BY Smallest
<1>2. m \in Nat /\ ~(\E f : Young(f, s, t, m))
  BY <1>1
<1> HIDE DEF m
<1>3. m # 0
  <2> DEFINE f == [i \in 0 .. 0 |-> << >>]
  <2>1. \A i \in 0 .. 0 : YoungAt(f, s, t, i) = << >>
    BY DEF YoungAt
  <2>2. Young(f, s, t, 0)
    BY <2>1 DEF Young
  <2> HIDE DEF f
  <2> QED
    BY <1>2, <2>2
<1>4. m - 1 \in Nat /\ m - 1 \notin Bad
  BY <1>1, <1>2, <1>3
<1>5. PICK f : Young(f, s, t, m - 1)
  BY <1>4
<1> DEFINE g == [i \in 0 .. m |-> YoungAt(f, s, t, i)]
<1>6. \A i \in 0 .. m - 1 : g[i] = f[i]
  BY <1>2, <1>5 DEF Young
<1>7. ASSUME NEW i \in 0 .. m
      PROVE  YoungAt(g, s, t, i) = YoungAt(f, s, t, i)
  <2>1. CASE i = 0
    BY <2>1 DEF YoungAt
  <2>2. CASE i # 0
    <3>1. i - 1 \in 0 .. m - 1
      BY <1>2, <2>2
    <3>2. g[i - 1] = f[i - 1]
      BY <1>6, <3>1
    <3> HIDE DEF g
    <3> QED
      BY <3>2 DEF YoungAt
  <2> QED
    BY <2>1, <2>2
<1>8. Young(g, s, t, m)
  BY <1>7 DEF Young
<1> HIDE DEF g
<1> QED
  BY <1>2, <1>8

\* They depend on these records only.
LEMMA YoungSame ==
  ASSUME NEW s, NEW r, NEW t, NEW n \in Nat, NEW k \in Nat, k <= n, NEW f, NEW g,
         Young(f, s, t, n), Young(g, r, t, k), \A i \in 1 .. k : s[i] = r[i]
  PROVE  f[k] = g[k]
<1> DEFINE Bad == {i \in Nat : i <= k /\ f[i] # g[i]}
<1>1. Bad = {}
  <2> SUFFICES ASSUME Bad # {}
               PROVE  FALSE
    OBVIOUS
  <2> DEFINE m == Min(Bad)
  <2>1. m \in Bad /\ \A i \in Bad : m <= i
    BY Smallest
  <2>2. m \in Nat /\ m <= k /\ f[m] # g[m]
    BY <2>1
  <2> HIDE DEF m
  <2>3. f[m] = YoungAt(f, s, t, m) /\ g[m] = YoungAt(g, r, t, m)
    <3>1. m \in 0 .. n /\ m \in 0 .. k
      BY <2>2
    <3> QED
      BY <3>1 DEF Young
  <2>4. m # 0
    BY <2>2, <2>3 DEF YoungAt
  <2>5. m - 1 \in Nat /\ m - 1 \notin Bad
    BY <2>1, <2>2, <2>4
  <2>6. f[m - 1] = g[m - 1] /\ s[m] = r[m]
    BY <2>2, <2>4, <2>5
  <2> QED
    BY <2>2, <2>3, <2>6 DEF YoungAt
<1> QED
  BY <1>1

LEMMA SinceIs ==
  ASSUME NEW s \in Uploads, NEW t
  PROVE  \E f : Young(f, s, t, Len(s)) /\ Exfil!Since(s, t) = f[Len(s)]
<1> DEFINE Body(f) == [i \in 0 .. Len(s) |->
                         IF i = 0 THEN << >>
                         ELSE IF s[i].obs >= t THEN Append(f[i - 1], s[i]) ELSE f[i - 1]]
           it == CHOOSE f : f = Body(f)
<1>1. Exfil!Since(s, t) = it[Len(s)]
  BY Zenon DEF Exfil!Since
<1>2. Len(s) \in Nat
  BY DEF Uploads
<1>3. \A f : Body(f) = [i \in 0 .. Len(s) |-> YoungAt(f, s, t, i)]
  BY Zenon DEF YoungAt
<1> HIDE DEF Body
<1>4. \E f : f = Body(f)
  <2>1. PICK f : Young(f, s, t, Len(s))
    BY <1>2, YoungExists
  <2> QED
    BY <1>3, <2>1, Zenon DEF Young
<1>5. it = Body(it)
  BY <1>4, Zenon
<1>6. Young(it, s, t, Len(s))
  BY <1>3, <1>5, Zenon DEF Young
<1> HIDE DEF it
<1> QED
  BY <1>1, <1>6 DEF it

\* The records from an instant on, one record after the other (exfil.py:37).
LEMMA SinceNone ==
  ASSUME NEW t
  PROVE  Exfil!Since(<< >>, t) = << >>
<1>1. << >> \in Uploads /\ Len(<< >>) = 0
  BY DEF Uploads
<1>2. PICK f : Young(f, << >>, t, 0) /\ Exfil!Since(<< >>, t) = f[0]
  BY <1>1, SinceIs
<1>3. f[0] = YoungAt(f, << >>, t, 0)
  BY <1>2 DEF Young
<1> QED
  BY <1>2, <1>3 DEF YoungAt

LEMMA SinceMore ==
  ASSUME NEW s \in Uploads, NEW e \in Exfil!Delta, NEW t
  PROVE  Exfil!Since(Append(s, e), t) =
           IF e.obs >= t THEN Append(Exfil!Since(s, t), e) ELSE Exfil!Since(s, t)
<1> DEFINE s2 == Append(s, e)
           n == Len(s)
<1>1. /\ s2 \in Uploads /\ n \in Nat /\ Len(s2) = n + 1 /\ s2[n + 1] = e
      /\ \A i \in 1 .. n : s2[i] = s[i]
  BY DEF Uploads
<1> HIDE DEF s2, n
<1>2. PICK f : Young(f, s2, t, n + 1) /\ Exfil!Since(s2, t) = f[n + 1]
  BY <1>1, SinceIs
<1>3. PICK g : Young(g, s, t, n) /\ Exfil!Since(s, t) = g[n]
  BY SinceIs DEF n
<1>4. f[n] = g[n]
  <2>1. n + 1 \in Nat /\ n <= n + 1
    BY <1>1
  <2> QED
    BY <1>1, <1>2, <1>3, <2>1, YoungSame
<1>5. f[n + 1] = YoungAt(f, s2, t, n + 1)
  BY <1>1, <1>2 DEF Young
<1>6. YoungAt(f, s2, t, n + 1) = IF e.obs >= t THEN Append(f[n], e) ELSE f[n]
  BY <1>1 DEF YoungAt
<1> QED
  BY <1>2, <1>3, <1>4, <1>5, <1>6 DEF s2

\* What holds of no upload, and of one more if it does of those before, holds of all.
LEMMA UploadsInduction ==
  ASSUME NEW G, << >> \in G,
         \A s \in Uploads, e \in Exfil!Delta : s \in G => Append(s, e) \in G
  PROVE  Uploads \subseteq G
<1> DEFINE Bad == {n \in Nat : \E s \in Uploads : Len(s) = n /\ s \notin G}
<1>1. Bad = {}
  <2> SUFFICES ASSUME Bad # {}
               PROVE  FALSE
    OBVIOUS
  <2> DEFINE m == Min(Bad)
  <2>1. m \in Bad /\ \A i \in Bad : m <= i
    BY Smallest
  <2>2. PICK s \in Uploads : Len(s) = m /\ s \notin G
    BY <2>1
  <2>3. m \in Nat
    BY <2>1
  <2> HIDE DEF m
  <2>4. PICK r \in Uploads, e \in Exfil!Delta : s = Append(r, e)
    BY <2>2, SequenceEmptyOrAppend DEF Uploads
  <2>5. Len(r) \in Nat /\ m = Len(r) + 1
    BY <2>2, <2>4 DEF Uploads
  <2>6. r \notin G
    BY <2>2, <2>4
  <2>7. Len(r) \in Bad
    BY <2>5, <2>6
  <2>8. m <= Len(r)
    BY <2>1, <2>7
  <2> QED
    BY <2>5, <2>8
<1>2. \A s \in Uploads : Len(s) \in Nat
  BY DEF Uploads
<1> QED
  BY <1>1, <1>2

LEMMA AppendUpload ==
  ASSUME NEW s \in Uploads, NEW e \in Exfil!Delta
  PROVE  /\ Append(s, e) \in Uploads /\ Len(s) \in Nat /\ Len(Append(s, e)) = Len(s) + 1
         /\ Append(s, e)[Len(s) + 1] = e /\ \A i \in 1 .. Len(s) : Append(s, e)[i] = s[i]
BY DEF Uploads

\* The young ones are uploads, no more than there are, and not older than the instant.
YoungOf(r, s, t) ==
  r \in Uploads /\ Len(r) <= Len(s) /\ \A i \in 1 .. Len(r) : r[i].obs >= t

LEMMA SinceType ==
  ASSUME NEW t
  PROVE  \A s \in Uploads : YoungOf(Exfil!Since(s, t), s, t)
<1> DEFINE G == {s \in Uploads : YoungOf(Exfil!Since(s, t), s, t)}
<1>1. << >> \in G
  <2>1. << >> \in Uploads /\ Len(<< >>) = 0
    BY DEF Uploads
  <2> QED
    BY <2>1, SinceNone DEF YoungOf
<1>2. ASSUME NEW s \in Uploads, NEW e \in Exfil!Delta, s \in G
      PROVE  Append(s, e) \in G
  <2> DEFINE r == Exfil!Since(s, t)
             r2 == Exfil!Since(Append(s, e), t)
  <2>1. r \in Uploads /\ Len(r) <= Len(s) /\ \A i \in 1 .. Len(r) : r[i].obs >= t
    BY <1>2 DEF YoungOf
  <2>2. r2 = IF e.obs >= t THEN Append(r, e) ELSE r
    BY SinceMore
  <2>3. Append(s, e) \in Uploads /\ Len(s) \in Nat /\ Len(Append(s, e)) = Len(s) + 1
    BY AppendUpload
  <2> HIDE DEF r, r2
  <2>4. /\ Append(r, e) \in Uploads /\ Len(r) \in Nat /\ Len(Append(r, e)) = Len(r) + 1
        /\ Append(r, e)[Len(r) + 1] = e /\ \A i \in 1 .. Len(r) : Append(r, e)[i] = r[i]
    BY <2>1, AppendUpload
  <2>5. YoungOf(r2, Append(s, e), t)
    <3>1. CASE e.obs >= t
      BY <2>1, <2>2, <2>3, <2>4, <3>1 DEF YoungOf
    <3>2. CASE ~(e.obs >= t)
      BY <2>1, <2>2, <2>3, <2>4, <3>2 DEF YoungOf
    <3> QED
      BY <3>1, <3>2
  <2> QED
    BY <2>3, <2>5 DEF r2
<1> HIDE DEF G
<1>3. Uploads \subseteq G
  BY <1>1, <1>2, UploadsInduction
<1> QED
  BY <1>3 DEF G

\* What is young later is what is young later of what is young.
LEMMA SinceTwice ==
  ASSUME NEW a \in Int, NEW b \in Int, a <= b
  PROVE  \A s \in Uploads : Exfil!Since(Exfil!Since(s, a), b) = Exfil!Since(s, b)
<1> DEFINE G == {s \in Uploads : Exfil!Since(Exfil!Since(s, a), b) = Exfil!Since(s, b)}
<1>1. << >> \in G
  <2>1. << >> \in Uploads
    BY DEF Uploads
  <2> QED
    BY <2>1, SinceNone
<1>2. ASSUME NEW s \in Uploads, NEW e \in Exfil!Delta, s \in G
      PROVE  Append(s, e) \in G
  <2> DEFINE r == Exfil!Since(s, a)
             s2 == Append(s, e)
  <2>1. r \in Uploads
    BY SinceType DEF YoungOf
  <2>2. Exfil!Since(s2, a) = IF e.obs >= a THEN Append(r, e) ELSE r
    BY SinceMore
  <2>3. Exfil!Since(s2, b) = IF e.obs >= b THEN Append(Exfil!Since(s, b), e) ELSE Exfil!Since(s, b)
    BY SinceMore
  <2>4. s2 \in Uploads
    BY AppendUpload
  <2>5. Exfil!Since(r, b) = Exfil!Since(s, b)
    BY <1>2
  <2> HIDE DEF r
  <2>6. Exfil!Since(Append(r, e), b) = IF e.obs >= b THEN Append(Exfil!Since(r, b), e)
                                       ELSE Exfil!Since(r, b)
    BY <2>1, SinceMore
  <2>7. e.obs \in Int
    BY DEF Exfil!Delta
  <2> HIDE DEF s2
  <2>8. Exfil!Since(Exfil!Since(s2, a), b) = Exfil!Since(s2, b)
    <3>1. CASE e.obs >= a
      BY <2>2, <2>3, <2>5, <2>6, <3>1
    <3>2. CASE ~(e.obs >= a)
      <4>1. ~(e.obs >= b)
        BY <2>7, <3>2
      <4> QED
        BY <2>2, <2>3, <2>5, <3>2, <4>1
    <3> QED
      BY <3>1, <3>2
  <2> QED
    BY <2>4, <2>8 DEF s2
<1> HIDE DEF G
<1>3. Uploads \subseteq G
  BY <1>1, <1>2, UploadsInduction
<1> QED
  BY <1>3 DEF G

\* The sequence b ends with a.
Ends(a, b) ==
  Len(a) <= Len(b) /\ \A i \in 1 .. Len(a) : a[i] = b[i + (Len(b) - Len(a))]

LEMMA EndsTwice ==
  ASSUME NEW a \in Uploads, NEW b \in Uploads, NEW c \in Uploads, Ends(a, b), Ends(b, c)
  PROVE  Ends(a, c)
<1>1. Len(a) \in Nat /\ Len(b) \in Nat /\ Len(c) \in Nat /\ Len(a) <= Len(b) /\ Len(b) <= Len(c)
  BY DEF Ends, Uploads
<1>2. ASSUME NEW i \in 1 .. Len(a)
      PROVE  a[i] = c[i + (Len(c) - Len(a))]
  <2> DEFINE j == i + (Len(b) - Len(a))
  <2>1. a[i] = b[j]
    BY DEF Ends
  <2>2. j \in 1 .. Len(b) /\ j + (Len(c) - Len(b)) = i + (Len(c) - Len(a))
    BY <1>1
  <2> HIDE DEF j
  <2>3. b[j] = c[j + (Len(c) - Len(b))]
    BY <2>2 DEF Ends
  <2> QED
    BY <2>1, <2>2, <2>3
<1> QED
  BY <1>1, <1>2 DEF Ends

LEMMA EndsMore ==
  ASSUME NEW a \in Uploads, NEW b \in Uploads, NEW e \in Exfil!Delta
  PROVE  Ends(a, b) <=> Ends(Append(a, e), Append(b, e))
<1> DEFINE x == Append(a, e)
           y == Append(b, e)
           d == Len(b) - Len(a)
<1>1. /\ Len(a) \in Nat /\ Len(x) = Len(a) + 1 /\ x[Len(a) + 1] = e
      /\ \A i \in 1 .. Len(a) : x[i] = a[i]
  BY AppendUpload
<1>2. /\ Len(b) \in Nat /\ Len(y) = Len(b) + 1 /\ y[Len(b) + 1] = e
      /\ \A i \in 1 .. Len(b) : y[i] = b[i]
  BY AppendUpload
<1>3. Len(y) - Len(x) = d /\ d \in Int
  BY <1>1, <1>2
<1> HIDE DEF x, y
<1>4. ASSUME Ends(a, b)
      PROVE  Ends(x, y)
  <2>1. Len(a) <= Len(b) /\ \A i \in 1 .. Len(a) : a[i] = b[i + d]
    BY <1>4 DEF Ends
  <2>2. ASSUME NEW i \in 1 .. Len(x)
        PROVE  x[i] = y[i + d]
    <3>1. CASE i = Len(a) + 1
      <4>1. i + d = Len(b) + 1
        BY <1>1, <1>2, <3>1
      <4> QED
        BY <1>1, <1>2, <3>1, <4>1
    <3>2. CASE i # Len(a) + 1
      <4>1. i \in 1 .. Len(a) /\ i + d \in 1 .. Len(b)
        BY <1>1, <1>2, <2>1, <3>2
      <4> QED
        BY <1>1, <1>2, <2>1, <4>1
    <3> QED
      BY <3>1, <3>2
  <2>3. Len(x) <= Len(y)
    BY <1>1, <1>2, <2>1
  <2> QED
    BY <1>3, <2>2, <2>3 DEF Ends
<1>5. ASSUME Ends(x, y)
      PROVE  Ends(a, b)
  <2>1. Len(x) <= Len(y) /\ \A i \in 1 .. Len(x) : x[i] = y[i + d]
    BY <1>3, <1>5 DEF Ends
  <2>2. ASSUME NEW i \in 1 .. Len(a)
        PROVE  a[i] = b[i + d]
    <3>1. i \in 1 .. Len(x) /\ i + d \in 1 .. Len(b)
      BY <1>1, <1>2, <2>1
    <3> QED
      BY <1>1, <1>2, <2>1, <3>1
  <2>3. Len(a) <= Len(b)
    BY <1>1, <1>2, <2>1
  <2> QED
    BY <2>2, <2>3 DEF Ends
<1> QED
  BY <1>4, <1>5 DEF x, y

\* An end of the same length is the same.
LEMMA EndsSame ==
  ASSUME NEW a \in Uploads, NEW b \in Uploads, NEW c, Ends(a, c), Ends(b, c), Len(a) = Len(b)
  PROVE  a = b
<1>1. \A i \in 1 .. Len(a) : a[i] = b[i]
  BY DEF Ends
<1> QED
  BY <1>1, SeqEqual DEF Uploads

\* The young ones of an end are an end of the young ones.
LEMMA SinceEnds ==
  ASSUME NEW t
  PROVE  \A a \in Uploads : \A b \in Uploads :
           Ends(a, b) => Ends(Exfil!Since(a, t), Exfil!Since(b, t))
<1> DEFINE Y(s) == Exfil!Since(s, t)
           G == {a \in Uploads : \A b \in Uploads : Ends(a, b) => Ends(Y(a), Y(b))}
<1>0. ASSUME NEW s \in Uploads
      PROVE  Y(s) \in Uploads
  BY SinceType DEF YoungOf
<1>1. << >> \in G
  <2>1. << >> \in Uploads /\ Len(<< >>) = 0 /\ Y(<< >>) = << >>
    BY SinceNone DEF Uploads
  <2>2. ASSUME NEW b \in Uploads
        PROVE  Ends(<< >>, Y(b))
    <3>1. Len(Y(b)) \in Nat
      BY <1>0 DEF Uploads
    <3> HIDE DEF Y
    <3> QED
      BY <2>1, <3>1 DEF Ends
  <2> QED
    BY <2>1, <2>2
<1>2. ASSUME NEW a \in Uploads, NEW e \in Exfil!Delta, a \in G
      PROVE  Append(a, e) \in G
  <2>1. Append(a, e) \in Uploads /\ Len(a) \in Nat /\ Len(Append(a, e)) = Len(a) + 1
        /\ Append(a, e)[Len(a) + 1] = e
    BY AppendUpload
  <2>2. ASSUME NEW b \in Uploads, Ends(Append(a, e), b)
        PROVE  Ends(Y(Append(a, e)), Y(b))
    <3>1. Len(b) \in Nat /\ Len(a) + 1 <= Len(b)
      BY <2>1, <2>2 DEF Ends, Uploads
    <3>2. b # << >>
      BY <3>1, <2>1
    <3>3. PICK c \in Uploads, f \in Exfil!Delta : b = Append(c, f)
      BY <3>2, SequenceEmptyOrAppend DEF Uploads
    <3>4. Len(c) \in Nat /\ Len(b) = Len(c) + 1 /\ b[Len(c) + 1] = f
      BY <3>3, AppendUpload
    <3>5. e = f
      <4>1. Len(a) + 1 \in 1 .. Len(Append(a, e))
        BY <2>1
      <4>2. Append(a, e)[Len(a) + 1] = b[Len(a) + 1 + (Len(b) - (Len(a) + 1))]
        BY <2>1, <2>2, <4>1 DEF Ends
      <4>3. Len(a) + 1 + (Len(b) - (Len(a) + 1)) = Len(c) + 1
        BY <2>1, <3>4
      <4> QED
        BY <2>1, <3>4, <4>2, <4>3
    <3>6. Ends(a, c)
      BY <2>2, <3>3, <3>5, EndsMore
    <3>7. Ends(Y(a), Y(c))
      BY <1>2, <3>6
    <3>8. /\ Y(Append(a, e)) = IF e.obs >= t THEN Append(Y(a), e) ELSE Y(a)
          /\ Y(Append(c, e)) = IF e.obs >= t THEN Append(Y(c), e) ELSE Y(c)
      BY SinceMore
    <3>9. Y(a) \in Uploads /\ Y(c) \in Uploads
      BY <1>0
    <3> HIDE DEF Y
    <3>10. Ends(Append(Y(a), e), Append(Y(c), e))
      BY <3>7, <3>9, EndsMore
    <3> QED
      BY <3>3, <3>5, <3>7, <3>8, <3>10
  <2> QED
    BY <2>1, <2>2
<1> HIDE DEF G
<1>3. Uploads \subseteq G
  BY <1>1, <1>2, UploadsInduction
<1> QED
  BY <1>3 DEF G

LEMMA ExfilMax ==
  ASSUME NEW a \in Int, NEW b \in Int
  PROVE  Exfil!Max({a, b}) = IF a >= b THEN a ELSE b
<1> DEFINE m == IF a >= b THEN a ELSE b
<1>1. m \in {a, b} /\ \A y \in {a, b} : m >= y
  OBVIOUS
<1>2. \A x \in {a, b} : (\A y \in {a, b} : x >= y) => x = m
  OBVIOUS
<1> QED
  BY <1>1, <1>2 DEF Exfil!Max

LEMMA ExfilMin ==
  ASSUME NEW a \in Int, NEW b \in Int
  PROVE  Exfil!Min({a, b}) = Lesser(a, b)
<1> DEFINE m == IF a <= b THEN a ELSE b
<1>1. m \in {a, b} /\ \A y \in {a, b} : m <= y
  OBVIOUS
<1>2. \A x \in {a, b} : (\A y \in {a, b} : x <= y) => x = m
  OBVIOUS
<1> QED
  BY <1>1, <1>2 DEF Exfil!Min, Lesser

\* The last k of a sequence, or all of them.
TailOf(s, k) == SubSeq(s, Exfil!Max({1, Len(s) - k + 1}), Len(s))

LEMMA TailIs ==
  ASSUME NEW s \in Uploads, NEW k \in Nat
  PROVE  TailOf(s, k) \in Uploads /\ Len(TailOf(s, k)) = Lesser(k, Len(s)) /\ Ends(TailOf(s, k), s)
<1> DEFINE n == Len(s)
           m == Exfil!Max({1, n - k + 1})
           r == SubSeq(s, m, n)
<1>1. n \in Nat /\ \A i \in 1 .. n : s[i] \in Exfil!Delta
  BY DEF Uploads
<1>2. m \in Int /\ m = IF 1 >= n - k + 1 THEN 1 ELSE n - k + 1
  <2> HIDE DEF n
  <2> QED
    BY <1>1, ExfilMax
<1> HIDE DEF n, m
<1>3. \A i \in m .. n : s[i] \in Exfil!Delta
  BY <1>1, <1>2
<1>4. /\ r \in Seq(Exfil!Delta)
      /\ Len(r) = IF m <= n THEN n - m + 1 ELSE 0
      /\ \A i \in 1 .. n - m + 1 : r[i] = s[m + i - 1]
  BY <1>1, <1>2, <1>3, SubSeqProperties
<1> HIDE DEF r
<1>5. Len(r) = Lesser(k, n) /\ Len(r) = n - m + 1
  BY <1>1, <1>2, <1>4 DEF Lesser
<1>6. \A i \in 1 .. Len(r) : r[i] = s[i + (n - Len(r))]
  <2> SUFFICES ASSUME NEW i \in 1 .. Len(r)
               PROVE  r[i] = s[i + (n - Len(r))]
    OBVIOUS
  <2>1. r[i] = s[m + i - 1] /\ m + i - 1 = i + (n - Len(r))
    BY <1>1, <1>2, <1>4, <1>5
  <2> QED
    BY <2>1
<1>7. Len(r) <= n
  BY <1>1, <1>5 DEF Lesser
<1>8. r \in Uploads /\ Ends(r, s)
  BY <1>4, <1>6, <1>7 DEF Ends, Uploads, n
<1>9. r = TailOf(s, k)
  BY DEF r, m, n, TailOf
<1> QED
  BY <1>5, <1>8, <1>9 DEF n

\* An end that is no longer than k is an end of the last k.
LEMMA TailEnds ==
  ASSUME NEW a \in Uploads, NEW b \in Uploads, NEW k \in Nat, Ends(a, b), Len(a) <= k
  PROVE  Ends(a, TailOf(b, k))
<1> DEFINE c == TailOf(b, k)
<1>1. c \in Uploads /\ Len(c) = Lesser(k, Len(b)) /\ Ends(c, b)
  BY TailIs
<1> HIDE DEF c
<1>2. Len(a) \in Nat /\ Len(b) \in Nat /\ Len(c) \in Nat /\ Len(a) <= Len(b)
  BY <1>1 DEF Uploads, Ends
<1>3. Len(a) <= Len(c) /\ Len(c) <= Len(b)
  BY <1>1, <1>2 DEF Lesser
<1>4. ASSUME NEW i \in 1 .. Len(a)
      PROVE  a[i] = c[i + (Len(c) - Len(a))]
  <2> DEFINE j == i + (Len(c) - Len(a))
  <2>1. j \in 1 .. Len(c) /\ j + (Len(b) - Len(c)) = i + (Len(b) - Len(a))
    BY <1>2, <1>3
  <2>2. a[i] = b[i + (Len(b) - Len(a))]
    BY DEF Ends
  <2> HIDE DEF j
  <2>3. c[j] = b[j + (Len(b) - Len(c))]
    BY <1>1, <2>1 DEF Ends
  <2> QED
    BY <2>1, <2>2, <2>3 DEF j
<1> QED
  BY <1>3, <1>4 DEF Ends, c

LEMMA TailMore ==
  ASSUME NEW s \in Uploads, NEW e \in Exfil!Delta, NEW k \in Nat \ {0}
  PROVE  TailOf(Append(s, e), k) = Append(TailOf(s, k - 1), e)
<1> DEFINE s2 == Append(s, e)
           a == TailOf(s2, k)
           b == TailOf(s, k - 1)
           c == Append(b, e)
<1>1. s2 \in Uploads /\ Len(s) \in Nat /\ Len(s2) = Len(s) + 1
  BY AppendUpload
<1>2. b \in Uploads /\ Len(b) = Lesser(k - 1, Len(s)) /\ Ends(b, s)
  <2>1. k - 1 \in Nat
    OBVIOUS
  <2> QED
    BY <2>1, TailIs
<1> HIDE DEF b
<1>3. c \in Uploads /\ Len(c) = Len(b) + 1 /\ Ends(c, s2)
  BY <1>2, AppendUpload, EndsMore
<1> HIDE DEF s2, c
<1>4. a \in Uploads /\ Len(a) = Lesser(k, Len(s2)) /\ Ends(a, s2)
  BY <1>1, TailIs
<1> HIDE DEF a
<1>5. Len(a) = Len(c)
  BY <1>1, <1>2, <1>3, <1>4 DEF Lesser
<1>6. a = c
  BY <1>3, <1>4, <1>5, EndsSame
<1> QED
  BY <1>6 DEF a, b, c, s2

\* An end is a suffix.
LEMMA EndsSuffix ==
  ASSUME NEW a \in Uploads, NEW b \in Uploads, Ends(a, b)
  PROVE  Exfil!IsSuffix(a, b)
<1> DEFINE x == Exfil!Reverse(a)
           y == Exfil!Reverse(b)
           n == Len(a)
<1>1. n \in Nat /\ Len(b) \in Nat /\ n <= Len(b)
  BY DEF Uploads, Ends
<1>2. /\ \A i \in 1 .. n : a[i] \in Exfil!Delta
      /\ \A i \in 1 .. Len(b) : b[i] \in Exfil!Delta
  BY DEF Uploads
<1>3. x = [i \in 1 .. n |-> a[(n - i) + 1]] /\ y = [i \in 1 .. Len(b) |-> b[(Len(b) - i) + 1]]
  BY DEF Exfil!Reverse
<1> HIDE DEF x, y
<1>4. x \in Seq(Exfil!Delta) /\ Len(x) = n
  <2>1. \A i \in 1 .. n : (n - i) + 1 \in 1 .. n
    BY <1>1
  <2>2. x \in [1 .. n -> Exfil!Delta]
    BY <1>2, <1>3, <2>1
  <2> QED
    BY <1>1, <2>2
<1>5. y \in Seq(Exfil!Delta) /\ Len(y) = Len(b)
  <2>1. \A i \in 1 .. Len(b) : (Len(b) - i) + 1 \in 1 .. Len(b)
    BY <1>1
  <2>2. y \in [1 .. Len(b) -> Exfil!Delta]
    BY <1>2, <1>3, <2>1
  <2> QED
    BY <1>1, <2>2
<1>6. ASSUME NEW i \in 1 .. n
      PROVE  x[i] = y[i]
  <2> DEFINE j == (n - i) + 1
  <2>1. x[i] = a[j] /\ j \in 1 .. n
    BY <1>1, <1>3
  <2>2. y[i] = b[(Len(b) - i) + 1] /\ (Len(b) - i) + 1 = j + (Len(b) - n)
    BY <1>1, <1>3
  <2> HIDE DEF j
  <2>3. a[j] = b[j + (Len(b) - n)]
    BY <2>1 DEF Ends
  <2> QED
    BY <2>1, <2>2, <2>3
<1>7. SubSeq(x, 1, n) = SubSeq(y, 1, n)
  <2>1. /\ SubSeq(x, 1, n) \in Seq(Exfil!Delta) /\ Len(SubSeq(x, 1, n)) = n
        /\ \A i \in 1 .. n : SubSeq(x, 1, n)[i] = x[i]
    <3>1. \A i \in 1 .. n : x[i] \in Exfil!Delta
      BY <1>4
    <3>2. /\ SubSeq(x, 1, n) \in Seq(Exfil!Delta)
          /\ Len(SubSeq(x, 1, n)) = IF 1 <= n THEN n - 1 + 1 ELSE 0
          /\ \A i \in 1 .. n - 1 + 1 : SubSeq(x, 1, n)[i] = x[1 + i - 1]
      BY <1>1, <3>1, SubSeqProperties
    <3>3. n - 1 + 1 = n /\ \A i \in 1 .. n : 1 + i - 1 = i
      BY <1>1
    <3> QED
      BY <1>1, <3>2, <3>3
  <2>2. /\ SubSeq(y, 1, n) \in Seq(Exfil!Delta) /\ Len(SubSeq(y, 1, n)) = n
        /\ \A i \in 1 .. n : SubSeq(y, 1, n)[i] = y[i]
    <3>1. \A i \in 1 .. n : y[i] \in Exfil!Delta
      BY <1>1, <1>5
    <3>2. /\ SubSeq(y, 1, n) \in Seq(Exfil!Delta)
          /\ Len(SubSeq(y, 1, n)) = IF 1 <= n THEN n - 1 + 1 ELSE 0
          /\ \A i \in 1 .. n - 1 + 1 : SubSeq(y, 1, n)[i] = y[1 + i - 1]
      BY <1>1, <3>1, SubSeqProperties
    <3>3. n - 1 + 1 = n /\ \A i \in 1 .. n : 1 + i - 1 = i
      BY <1>1
    <3> QED
      BY <1>1, <3>2, <3>3
  <2>3. \A i \in 1 .. n : SubSeq(x, 1, n)[i] = SubSeq(y, 1, n)[i]
    BY <1>6, <2>1, <2>2
  <2> QED
    BY <2>1, <2>2, <2>3, SeqEqual
<1>8. Exfil!IsPrefix(x, y)
  BY <1>1, <1>4, <1>5, <1>7 DEF Exfil!IsPrefix
<1> QED
  BY <1>8 DEF Exfil!IsSuffix, x, y

\* Of the records from t on, those kept are the last of all, and no fewer than among
\* the last k, for every k that there is room for.
KeptFrom(recs, all, t) ==
  /\ Ends(Exfil!Since(recs, t), Exfil!Since(all, t))
  /\ \A k \in 0 .. ExfilMaxRecords :
       Ends(Exfil!Since(TailOf(all, k), t), Exfil!Since(TailOf(recs, k), t))

LEMMA RecentIs ==
  ASSUME NEW s \in Uploads, NEW now \in Int
  PROVE  LET r == Exfil!Recent(s, now)
             y == Exfil!Since(s, now - ExfilWindow)
         IN /\ r = TailOf(y, ExfilMaxRecords) /\ y \in Uploads /\ r \in Uploads
            /\ Ends(r, y) /\ Len(r) <= ExfilMaxRecords
            /\ \A i \in 1 .. Len(r) : r[i].obs >= now - ExfilWindow
<1> DEFINE r == Exfil!Recent(s, now)
           a == now - ExfilWindow
           y == Exfil!Since(s, a)
<1>1. r = TailOf(y, ExfilMaxRecords)
  BY Zenon DEF Exfil!Recent, TailOf
<1>2. y \in Uploads /\ \A i \in 1 .. Len(y) : y[i].obs >= a
  BY SinceType DEF YoungOf
<1>3. ExfilMaxRecords \in Nat
  BY ConfigAssumption DEF Counts
<1> HIDE DEF y, r
<1>4. r \in Uploads /\ Len(r) = Lesser(ExfilMaxRecords, Len(y)) /\ Ends(r, y)
  BY <1>1, <1>2, <1>3, TailIs
<1>5. Len(r) \in Nat /\ Len(y) \in Nat
  BY <1>2, <1>4 DEF Uploads
<1>6. Len(r) <= ExfilMaxRecords
  BY <1>3, <1>4, <1>5 DEF Lesser
<1>7. ASSUME NEW i \in 1 .. Len(r)
      PROVE  r[i].obs >= a
  <2>1. r[i] = y[i + (Len(y) - Len(r))] /\ Len(r) <= Len(y)
    BY <1>4 DEF Ends
  <2>2. i + (Len(y) - Len(r)) \in 1 .. Len(y)
    BY <1>5, <2>1
  <2> QED
    BY <1>2, <2>1, <2>2
<1> QED
  BY <1>1, <1>2, <1>4, <1>6, <1>7 DEF r, y

\* Of what is young when the next record comes, none is lost but for room.
LEMMA RecentKept ==
  ASSUME NEW recs \in Uploads, NEW all \in Uploads, NEW e \in Exfil!Delta, NEW t \in Int,
         t >= e.obs - ExfilWindow, KeptFrom(recs, all, t)
  PROVE  KeptFrom(Exfil!Recent(Append(recs, e), e.obs), Append(all, e), t)
<1> DEFINE M == ExfilMaxRecords
           Y(s) == Exfil!Since(s, t)
           a == e.obs - ExfilWindow
           recs1 == Append(recs, e)
           all1 == Append(all, e)
           young == Exfil!Since(recs1, a)
           recs2 == Exfil!Recent(recs1, e.obs)
<1>1. M \in Nat /\ a \in Int /\ e.obs \in Int
  BY ConfigAssumption DEF Counts, Exfil!Delta
<1>2. recs1 \in Uploads /\ all1 \in Uploads
  BY AppendUpload
<1>3. recs2 = TailOf(young, M) /\ young \in Uploads /\ recs2 \in Uploads /\ Ends(recs2, young)
  BY <1>1, <1>2, RecentIs
<1>4. ASSUME NEW s \in Uploads
      PROVE  Y(s) \in Uploads /\ Y(Exfil!Since(s, a)) = Y(s) /\ Exfil!Since(s, a) \in Uploads
             /\ Len(Exfil!Since(s, a)) <= Len(s)
  <2>1. Y(s) \in Uploads /\ Exfil!Since(s, a) \in Uploads /\ Len(Exfil!Since(s, a)) <= Len(s)
    BY SinceType DEF YoungOf
  <2>2. Y(Exfil!Since(s, a)) = Y(s)
    BY <1>1, SinceTwice
  <2> QED
    BY <2>1, <2>2
<1>5. ASSUME NEW r \in Uploads, NEW s \in Uploads, Ends(Y(r), Y(s))
      PROVE  Ends(Y(Append(r, e)), Y(Append(s, e)))
  <2>1. /\ Y(Append(r, e)) = IF e.obs >= t THEN Append(Y(r), e) ELSE Y(r)
        /\ Y(Append(s, e)) = IF e.obs >= t THEN Append(Y(s), e) ELSE Y(s)
    BY SinceMore
  <2>2. Y(r) \in Uploads /\ Y(s) \in Uploads
    BY <1>4
  <2> HIDE DEF Y
  <2>3. Ends(Append(Y(r), e), Append(Y(s), e))
    BY <1>5, <2>2, EndsMore
  <2> QED
    BY <1>5, <2>1, <2>3
<1>6. ASSUME NEW r \in Uploads, NEW s \in Uploads, Ends(r, s)
      PROVE  Ends(Y(r), Y(s)) /\ Ends(Exfil!Since(r, a), Exfil!Since(s, a))
  BY <1>6, SinceEnds
<1>7. /\ Ends(Y(recs), Y(all))
      /\ \A k \in 0 .. M : Ends(Y(TailOf(all, k)), Y(TailOf(recs, k)))
  BY DEF KeptFrom
<1>8. Y(young) = Y(recs1)
  BY <1>2, <1>4
<1> HIDE DEF Y, M, a
<1>9. Ends(Y(recs2), Y(all1))
  <2>1. Ends(Y(recs2), Y(recs1))
    <3>1. Ends(Y(recs2), Y(young))
      BY <1>3, <1>6
    <3> QED
      BY <1>8, <3>1
  <2>2. Ends(Y(recs1), Y(all1))
    BY <1>5, <1>7
  <2>3. Y(recs2) \in Uploads /\ Y(recs1) \in Uploads /\ Y(all1) \in Uploads
    BY <1>2, <1>3, <1>4
  <2> QED
    BY <2>1, <2>2, <2>3, EndsTwice
<1> HIDE DEF young, recs2
<1>10. ASSUME NEW k \in 0 .. M
       PROVE  Ends(Y(TailOf(all1, k)), Y(TailOf(recs2, k)))
  <2> DEFINE p == TailOf(all1, k)
             q == TailOf(recs1, k)
             v == Exfil!Since(q, a)
             z == TailOf(recs2, k)
  <2>0. k \in Nat /\ k <= M
    BY <1>1
  <2>1. /\ p \in Uploads /\ Len(p) = Lesser(k, Len(all1))
        /\ q \in Uploads /\ Len(q) = Lesser(k, Len(recs1)) /\ Ends(q, recs1)
    <3> HIDE DEF recs1, all1
    <3>1. TailOf(all1, k) \in Uploads /\ Len(TailOf(all1, k)) = Lesser(k, Len(all1))
      BY <1>2, <2>0, TailIs
    <3>2. /\ TailOf(recs1, k) \in Uploads /\ Len(TailOf(recs1, k)) = Lesser(k, Len(recs1))
          /\ Ends(TailOf(recs1, k), recs1)
      BY <1>2, <2>0, TailIs
    <3> QED
      BY <3>1, <3>2
  <2>2. z \in Uploads
    BY <1>3, <2>0, TailIs
  <2>3. Ends(Y(p), Y(q))
    <3>1. CASE k = 0
      <4>1. Len(p) = 0 /\ Len(q) = 0
        <5>1. Len(all1) \in Nat /\ Len(recs1) \in Nat
          BY <1>2 DEF Uploads
        <5> HIDE DEF p, q, all1, recs1
        <5> QED
          BY <2>1, <3>1, <5>1 DEF Lesser
      <4>2. p = << >> /\ q = << >>
        <5> HIDE DEF p, q
        <5> QED
          BY <2>1, <4>1 DEF Uploads
      <4>3. Ends(<< >>, << >>)
        BY DEF Ends
      <4>4. << >> \in Uploads
        BY DEF Uploads
      <4> QED
        BY <1>6, <4>2, <4>3, <4>4
    <3>2. CASE k # 0
      <4>1. p = Append(TailOf(all, k - 1), e) /\ q = Append(TailOf(recs, k - 1), e)
        BY <2>0, <3>2, TailMore
      <4>2. k - 1 \in Nat /\ k - 1 \in 0 .. M
        BY <1>1, <2>0, <3>2
      <4>3. Ends(Y(TailOf(all, k - 1)), Y(TailOf(recs, k - 1)))
        BY <1>7, <4>2
      <4>4. TailOf(all, k - 1) \in Uploads /\ TailOf(recs, k - 1) \in Uploads
        BY <4>2, TailIs
      <4> QED
        BY <1>5, <4>1, <4>3, <4>4
    <3> QED
      BY <3>1, <3>2
  <2> HIDE DEF p, q
  <2>4. v \in Uploads /\ Y(v) = Y(q) /\ Len(v) <= Len(q) /\ Ends(v, young)
    BY <1>2, <1>4, <1>6, <2>1 DEF young
  <2> HIDE DEF v
  <2>5. Len(v) <= k /\ Len(v) <= M
    <3>1. Len(recs1) \in Nat /\ Len(v) \in Nat /\ Len(q) \in Nat
      BY <1>2, <2>1, <2>4 DEF Uploads
    <3> HIDE DEF recs1
    <3> QED
      BY <1>1, <2>0, <2>1, <2>4, <3>1 DEF Lesser
  <2>6. Ends(v, recs2)
    BY <1>1, <1>3, <2>4, <2>5, TailEnds
  <2>7. Ends(v, z)
    BY <1>3, <2>0, <2>4, <2>5, <2>6, TailEnds
  <2> HIDE DEF z
  <2>8. Ends(Y(q), Y(z))
    <3>1. Ends(Y(v), Y(z))
      BY <1>6, <2>2, <2>4, <2>7
    <3> QED
      BY <2>4, <3>1
  <2>9. Y(p) \in Uploads /\ Y(q) \in Uploads /\ Y(z) \in Uploads
    BY <1>4, <2>1, <2>2
  <2>10. Ends(Y(p), Y(z))
    BY <2>3, <2>8, <2>9, EndsTwice
  <2> QED
    BY <2>10 DEF p, z
<1> QED
  BY <1>9, <1>10 DEF KeptFrom, Y, M, recs2

\* What records add up to is a number.
LEMMA TotalType ==
  ASSUME NEW recs \in Uploads
  PROVE  Exfil!Total(recs) \in Nat
<1> DEFINE W == DOMAIN recs
           F == [k \in W |-> recs[k].bytes]
           Body(g) == [t \in SUBSET W |->
                         IF t = {} THEN 0
                         ELSE LET x == CHOOSE x \in t : TRUE IN g[t \ {x}] + recs[x].bytes]
           it == CHOOSE g : g = Body(g)
<1>1. Exfil!Total(recs) = it[W]
  BY Zenon DEF Exfil!Total, Exfil!FoldSeq, Exfil!FoldFunction, Exfil!FoldFunctionOnSet,
               Exfil!MapThenFoldSet
<1>2. W = 1 .. Len(recs) /\ Len(recs) \in Nat
  BY DEF Uploads
<1>3. IsFiniteSet(W)
  <2>1. W \in SUBSET Nat /\ \A k \in W : k <= Len(recs)
    BY <1>2
  <2> HIDE DEF W
  <2> QED
    BY <1>2, <2>1, FS_BoundedSetOfNaturals
<1>4. F \in [W -> Nat]
  <2>1. ASSUME NEW k \in W
        PROVE  recs[k].bytes \in Nat
    <3>1. recs[k] \in Exfil!Delta
      BY <2>1 DEF Uploads
    <3> QED
      BY <3>1, DetectionAssumption DEF Exfil!Delta
  <2> HIDE DEF W
  <2> QED
    BY <2>1
<1>5. ASSUME NEW g
      PROVE  Body(g) = [t \in SUBSET W |-> SumOf(g, F, t)]
  <2>1. ASSUME NEW t \in SUBSET W, t # {}
        PROVE  LET x == CHOOSE x \in t : TRUE IN F[x] = recs[x].bytes
    <3> DEFINE x == CHOOSE x \in t : TRUE
    <3>1. x \in W
      BY <2>1
    <3> HIDE DEF x, W
    <3> QED
      BY <3>1 DEF x
  <2> HIDE DEF W, F
  <2>2. ASSUME NEW t \in SUBSET W
        PROVE  SumOf(g, F, t) = IF t = {} THEN 0
                                ELSE LET x == CHOOSE x \in t : TRUE
                                     IN g[t \ {x}] + recs[x].bytes
    <3>1. CASE t = {}
      BY <3>1 DEF SumOf
    <3>2. CASE t # {}
      BY <2>1, <3>2 DEF SumOf
    <3> QED
      BY <3>1, <3>2
  <2> QED
    BY <2>2, Zenon
<1> HIDE DEF Body, W, F
<1>6. \E g : g = [t \in SUBSET W |-> SumOf(g, F, t)]
  <2>1. \A S : \A G \in [S -> Nat] :
          IsFiniteSet(S) => \E g : g = [t \in SUBSET S |-> SumOf(g, G, t)]
    BY AllSums
  <2>2. \A G \in [W -> Nat] : IsFiniteSet(W) => \E g : g = [t \in SUBSET W |-> SumOf(g, G, t)]
    BY <2>1, Zenon
  <2>3. IsFiniteSet(W) => \E g : g = [t \in SUBSET W |-> SumOf(g, F, t)]
    BY <1>4, <2>2, Zenon
  <2> QED
    BY <1>3, <2>3, Zenon
<1>7. it = Body(it)
  BY <1>5, <1>6, Zenon
<1>8. it = [t \in SUBSET W |-> SumOf(it, F, t)]
  BY <1>5, <1>7, Zenon
<1> HIDE DEF it
<1>9. it[W] \in Nat
  BY <1>3, <1>4, <1>8, SumType
<1> QED
  BY <1>1, <1>9 DEF it, Body, W

\* A record opens a window or not; what is kept otherwise stays.
LEMMA RolledIs ==
  ASSUME NEW x \in Exfil!SourceState, NEW e \in Exfil!Delta
  PROVE  LET y == Exfil!Rolled(x, e)
         IN /\ y \in Exfil!SourceState
            /\ y.recs = x.recs /\ y.dsts = x.dsts /\ y.ndst = x.ndst
            /\ y.bytes = IF Exfil!NewWindow(x, e) THEN 0 ELSE x.bytes
<1> DEFINE ends == Exfil!NewWindow(x, e)
           win == e.obs \div ExfilWindow
           bytes == IF ends THEN 0 ELSE x.bytes
           anomalous == x.anomalous /\ ~ends
           base == IF ends /\ ~x.anomalous THEN Exfil!Min({x.base + 1, ExfilWarmup}) ELSE x.base
           y == Exfil!Rolled(x, e)
<1>1. y = [x EXCEPT !.win = win, !.bytes = bytes, !.anomalous = anomalous, !.base = base]
  BY DEF Exfil!Rolled
<1>2. /\ x.recs \in Seq(Exfil!Delta) /\ x.base \in Nat /\ x.bytes \in Nat
      /\ x.anomalous \in BOOLEAN /\ x.dsts \in SUBSET Dsts /\ x.ndst \in Nat /\ x.rank \in Int
      /\ x.emitted \in Nat /\ x.last \in Nat
  BY DEF Exfil!SourceState
<1>3. win \in Nat
  <2>1. e.obs \in Nat /\ ExfilWindow \in Nat \ {0}
    BY ConfigAssumption DEF Exfil!Delta, Counts
  <2> QED
    BY <2>1
<1>4. base \in Nat
  <2>1. x.base + 1 \in Nat /\ ExfilWarmup \in Nat
    <3>1. ExfilWarmup \in Sizes
      BY DEF Sizes
    <3> QED
      BY <1>2, <3>1, ConfigAssumption
  <2>2. Exfil!Min({x.base + 1, ExfilWarmup}) = Lesser(x.base + 1, ExfilWarmup)
    BY <2>1, ExfilMin
  <2>3. Exfil!Min({x.base + 1, ExfilWarmup}) \in Nat
    BY <2>1, <2>2 DEF Lesser
  <2> QED
    BY <1>2, <2>3
<1>5. bytes \in Nat /\ anomalous \in BOOLEAN
  <2> HIDE DEF ends
  <2> QED
    BY <1>2
<1> HIDE DEF win, bytes, anomalous, base, y
<1>6. y \in Exfil!SourceState /\ y.recs = x.recs /\ y.dsts = x.dsts /\ y.ndst = x.ndst
      /\ y.bytes = bytes
  BY <1>1, <1>3, <1>4, <1>5 DEF Exfil!SourceState
<1> QED
  BY <1>6 DEF y, bytes

\* What is reported of a source changes nothing of what is kept of it.
LEMMA UploadShown ==
  ASSUME NEW x \in Exfil!SourceState, NEW threshold, NEW newDst
  PROVE  LET y == Exfil!Shown(x, threshold, newDst)
         IN /\ y \in Exfil!SourceState
            /\ y.recs = x.recs /\ y.dsts = x.dsts /\ y.ndst = x.ndst /\ y.bytes = x.bytes
<1> DEFINE out == Exfil!Total(x.recs)
           rank == Exfil!Rank(out, threshold, newDst)
           top == Exfil!Max({x.rank, rank})
           y == Exfil!Shown(x, threshold, newDst)
<1>1. \/ y = x
      \/ y = [x EXCEPT !.anomalous = TRUE, !.rank = top, !.emitted = out]
      \/ y = [x EXCEPT !.anomalous = TRUE]
  BY DEF Exfil!Shown
<1>2. x.recs \in Uploads /\ x.rank \in Int
  BY DEF Exfil!SourceState, Uploads
<1>3. out \in Nat
  BY <1>2, TotalType
<1>4. rank \in Int
  <2>1. rank = 3 \/ rank = 2
    BY Zenon DEF Exfil!Rank
  <2> QED
    BY <2>1
<1> HIDE DEF rank, out
<1>5. top \in Int
  <2>1. top = IF x.rank >= rank THEN x.rank ELSE rank
    BY <1>2, <1>4, ExfilMax
  <2> QED
    BY <1>2, <1>4, <2>1
<1> HIDE DEF top, y
<1>6. y \in Exfil!SourceState /\ y.recs = x.recs /\ y.dsts = x.dsts /\ y.ndst = x.ndst
      /\ y.bytes = x.bytes
  BY <1>1, <1>3, <1>5 DEF Exfil!SourceState
<1> QED
  BY <1>6 DEF y

\* A window holds records no older than the last event allows, and what a window from
\* an instant on needs, whichever the instant.
WindowHolds(recs, all, now) ==
  /\ recs \in Uploads /\ all \in Uploads /\ Len(recs) <= ExfilMaxRecords
  /\ \A i \in 1 .. Len(recs) : recs[i].obs >= now - OutOfOrderness - ExfilWindow
  /\ \A t \in Int : t >= now - ExfilWindow => KeptFrom(recs, all, t)

LEMMA WindowEmpty ==
  ASSUME NEW now \in Int
  PROVE  WindowHolds(<< >>, << >>, now)
<1>1. << >> \in Uploads /\ Len(<< >>) = 0
  BY DEF Uploads
<1>2. ExfilMaxRecords \in Nat
  BY ConfigAssumption DEF Counts
<1>3. ASSUME NEW s \in Uploads
      PROVE  Ends(s, s)
  BY DEF Ends, Uploads
<1>4. ASSUME NEW t \in Int
      PROVE  KeptFrom(<< >>, << >>, t)
  <2>1. Exfil!Since(<< >>, t) \in Uploads
    BY <1>1, SinceType DEF YoungOf
  <2>2. Ends(Exfil!Since(<< >>, t), Exfil!Since(<< >>, t))
    BY <1>3, <2>1
  <2>3. ASSUME NEW k \in 0 .. ExfilMaxRecords
        PROVE  Ends(Exfil!Since(TailOf(<< >>, k), t), Exfil!Since(TailOf(<< >>, k), t))
    <3>1. k \in Nat
      BY <1>2
    <3>2. TailOf(<< >>, k) \in Uploads
      BY <1>1, <3>1, TailIs
    <3>3. Exfil!Since(TailOf(<< >>, k), t) \in Uploads
      BY <3>2, SinceType DEF YoungOf
    <3> QED
      BY <1>3, <3>3
  <2> QED
    BY <2>2, <2>3 DEF KeptFrom
<1> QED
  BY <1>1, <1>2, <1>4 DEF WindowHolds

LEMMA WindowMoves ==
  ASSUME NEW recs, NEW all, NEW now \in Int, WindowHolds(recs, all, now),
         NEW e \in Exfil!Delta, NEW next \in Int,
         next >= now, next >= e.obs, next <= e.obs + OutOfOrderness
  PROVE  WindowHolds(Exfil!Recent(Append(recs, e), e.obs), Append(all, e), next)
<1> DEFINE recs2 == Exfil!Recent(Append(recs, e), e.obs)
           all2 == Append(all, e)
<1>1. /\ recs \in Uploads /\ all \in Uploads
      /\ \A t \in Int : t >= now - ExfilWindow => KeptFrom(recs, all, t)
  BY DEF WindowHolds
<1>2. OutOfOrderness \in Nat /\ ExfilWindow \in Nat /\ e.obs \in Int
  <2>1. OutOfOrderness \in Sizes /\ ExfilWindow \in Counts
    BY DEF Sizes, Counts
  <2> QED
    BY <2>1, ConfigAssumption DEF Exfil!Delta
<1>3. Append(recs, e) \in Uploads /\ all2 \in Uploads
  BY <1>1, AppendUpload
<1>4. /\ recs2 \in Uploads /\ Len(recs2) <= ExfilMaxRecords
      /\ \A i \in 1 .. Len(recs2) : recs2[i].obs >= e.obs - ExfilWindow
  BY <1>2, <1>3, RecentIs
<1>5. ASSUME NEW t \in Int, t >= next - ExfilWindow
      PROVE  KeptFrom(recs2, all2, t)
  <2>1. t >= now - ExfilWindow /\ t >= e.obs - ExfilWindow
    BY <1>2, <1>5
  <2>2. KeptFrom(recs, all, t)
    BY <1>1, <2>1
  <2> QED
    BY <1>1, <2>1, <2>2, RecentKept
<1> HIDE DEF recs2, all2
<1>6. ASSUME NEW i \in 1 .. Len(recs2)
      PROVE  recs2[i].obs >= next - OutOfOrderness - ExfilWindow
  <2> DEFINE o == recs2[i].obs
  <2>1. recs2[i] \in Exfil!Delta
    BY <1>4 DEF Uploads
  <2>2. o \in Int /\ o >= e.obs - ExfilWindow
    BY <1>4, <2>1 DEF Exfil!Delta
  <2> HIDE DEF o
  <2>3. o >= next - OutOfOrderness - ExfilWindow
    BY <1>2, <2>2
  <2> QED
    BY <2>3 DEF o
<1> QED
  BY <1>3, <1>4, <1>5, <1>6 DEF WindowHolds, recs2, all2

\* The destinations kept are the first ones, as many as the cap allows.
FirstDsts(dsts, n, all) ==
  /\ all \in Seq(Dsts) /\ \A i, j \in 1 .. Len(all) : all[i] = all[j] => i = j
  /\ n = Lesser(Len(all), ExfilDstCap) /\ dsts = {all[i] : i \in 1 .. n}
  /\ IsFiniteSet(dsts) /\ Cardinality(dsts) = n

LEMMA DstsMore ==
  ASSUME NEW dsts, NEW n, NEW all, FirstDsts(dsts, n, all), NEW d \in Dsts
  PROVE  LET kept == d \notin dsts /\ n < ExfilDstCap
         IN FirstDsts(IF kept THEN dsts \cup {d} ELSE dsts, IF kept THEN n + 1 ELSE n,
                      IF Exfil!Contains(all, d) THEN all ELSE Append(all, d))
<1> DEFINE m == Len(all)
           all2 == Append(all, d)
           kept == d \notin dsts /\ n < ExfilDstCap
<1>1. /\ all \in Seq(Dsts) /\ \A i, j \in 1 .. m : all[i] = all[j] => i = j
      /\ n = Lesser(m, ExfilDstCap) /\ dsts = {all[i] : i \in 1 .. n}
      /\ IsFiniteSet(dsts) /\ Cardinality(dsts) = n
  BY DEF FirstDsts
<1>2. ExfilDstCap \in Nat
  <2>1. ExfilDstCap \in Counts
    BY DEF Counts
  <2> QED
    BY <2>1, ConfigAssumption
<1>3. m \in Nat /\ n \in Nat /\ n <= m /\ n <= ExfilDstCap /\ (n < ExfilDstCap => n = m)
  <2>1. m \in Nat
    BY <1>1
  <2> HIDE DEF m
  <2> QED
    BY <1>1, <1>2, <2>1 DEF Lesser
<1>4. Exfil!Contains(all, d) <=> \E i \in 1 .. m : all[i] = d
  BY DEF Exfil!Contains
<1>5. /\ all2 \in Seq(Dsts) /\ Len(all2) = m + 1 /\ all2[m + 1] = d
      /\ \A i \in 1 .. m : all2[i] = all[i]
  BY <1>1
<1> HIDE DEF m, all2
<1>6. CASE Exfil!Contains(all, d)
  <2>1. ~kept
    <3> SUFFICES ASSUME kept
                 PROVE  FALSE
      OBVIOUS
    <3>1. n = m /\ d \notin dsts
      BY <1>3
    <3>2. PICK i \in 1 .. m : all[i] = d
      BY <1>4, <1>6
    <3> QED
      BY <1>1, <3>1, <3>2
  <2> HIDE DEF kept
  <2> QED
    BY <1>6, <2>1 DEF kept
<1>7. CASE ~Exfil!Contains(all, d)
  <2>1. \A i, j \in 1 .. Len(all2) : all2[i] = all2[j] => i = j
    <3> SUFFICES ASSUME NEW i \in 1 .. Len(all2), NEW j \in 1 .. Len(all2), all2[i] = all2[j]
                 PROVE  i = j
      OBVIOUS
    <3>1. (i \in 1 .. m \/ i = m + 1) /\ (j \in 1 .. m \/ j = m + 1)
      BY <1>3, <1>5
    <3>2. \A k \in 1 .. m : all2[k] # d
      BY <1>4, <1>5, <1>7
    <3> QED
      BY <1>1, <1>5, <3>1, <3>2
  <2>2. d \notin dsts
    <3>1. \A i \in 1 .. n : i \in 1 .. m
      BY <1>3
    <3> QED
      BY <1>1, <1>4, <1>7, <3>1
  <2>3. \A i \in 1 .. n : all2[i] = all[i]
    <3>1. \A i \in 1 .. n : i \in 1 .. m
      BY <1>3
    <3> QED
      BY <1>5, <3>1
  <2>4. dsts = {all2[i] : i \in 1 .. n}
    BY <1>1, <2>3
  <2>5. CASE n < ExfilDstCap
    <3>1. n = m /\ Lesser(m + 1, ExfilDstCap) = n + 1
      BY <1>2, <1>3, <2>5 DEF Lesser
    <3>2. dsts \cup {d} = {all2[i] : i \in 1 .. n + 1}
      <4>1. \A i : i \in 1 .. n + 1 <=> i \in 1 .. n \/ i = n + 1
        BY <1>3
      <4>2. all2[n + 1] = d
        BY <1>5, <3>1
      <4> QED
        BY <2>4, <4>1, <4>2
    <3>3. IsFiniteSet(dsts \cup {d}) /\ Cardinality(dsts \cup {d}) = n + 1
      <4>1. IsFiniteSet(dsts) /\ Cardinality(dsts) = n
        BY <1>1
      <4>2. /\ IsFiniteSet(dsts \cup {d})
            /\ Cardinality(dsts \cup {d}) = Cardinality(dsts) + 1
        BY <2>2, <4>1, FS_AddElement, Zenon
      <4> QED
        BY <4>1, <4>2
    <3>4. FirstDsts(dsts \cup {d}, n + 1, all2)
      BY <1>5, <2>1, <3>1, <3>2, <3>3 DEF FirstDsts
    <3> QED
      BY <1>7, <2>2, <2>5, <3>4 DEF all2
  <2>6. CASE ~(n < ExfilDstCap)
    <3>1. n = Lesser(m + 1, ExfilDstCap)
      BY <1>2, <1>3, <2>6 DEF Lesser
    <3>2. FirstDsts(dsts, n, all2)
      BY <1>1, <1>5, <2>1, <2>4, <3>1 DEF FirstDsts
    <3> QED
      BY <1>7, <2>6, <3>2 DEF all2
  <2> QED
    BY <2>5, <2>6
<1> QED
  BY <1>6, <1>7

UploadHistory ==
  [received: Uploads, total: Int, learned: Int, spared: Int, dsts: Seq(Dsts)]

\* A source's records are those of the window, every byte is in one sample, and the
\* destinations are the first ones; the history of a forgotten source begins anew.
SourceIs(x, h, now) ==
  /\ x \in Exfil!SourceState /\ h \in UploadHistory
  /\ WindowHolds(x.recs, h.received, now)
  /\ h.total = h.learned + h.spared + x.bytes
  /\ FirstDsts(x.dsts, x.ndst, h.dsts)

ExfilCounts ==
  /\ newest \in Int
  /\ state = None => history = Exfil!Nothing
  /\ SourceIs(Exfil!Current, history, newest)

LEMMA SourceStarts ==
  ASSUME NEW now \in Int
  PROVE  SourceIs(Exfil!Empty, Exfil!Nothing, now)
<1> DEFINE x == Exfil!Empty
           h == Exfil!Nothing
<1>1. x \in Exfil!SourceState
  BY DEF Exfil!Empty, Exfil!SourceState
<1>2. /\ x.recs = << >> /\ x.bytes = 0 /\ x.dsts = {} /\ x.ndst = 0
  BY DEF Exfil!Empty
<1>3. /\ h.received = << >> /\ h.total = 0 /\ h.learned = 0 /\ h.spared = 0 /\ h.dsts = << >>
      /\ h \in UploadHistory
  BY DEF Exfil!Nothing, UploadHistory, Uploads
<1>4. WindowHolds(<< >>, << >>, now)
  BY WindowEmpty
<1>5. FirstDsts({}, 0, << >>)
  <2>1. ExfilDstCap \in Nat
    <3>1. ExfilDstCap \in Counts
      BY DEF Counts
    <3> QED
      BY <3>1, ConfigAssumption
  <2>2. << >> \in Seq(Dsts) /\ Len(<< >>) = 0
    OBVIOUS
  <2>3. Lesser(0, ExfilDstCap) = 0
    BY <2>1 DEF Lesser
  <2>4. IsFiniteSet({}) /\ Cardinality({}) = 0
    BY FS_EmptySet
  <2>5. \A i : i \notin 1 .. 0
    OBVIOUS
  <2> QED
    BY <2>2, <2>3, <2>4, <2>5 DEF FirstDsts
<1> HIDE DEF x, h
<1>6. SourceIs(x, h, now)
  BY <1>1, <1>2, <1>3, <1>4, <1>5 DEF SourceIs
<1> QED
  BY <1>6 DEF x, h

\* What an upload adds to what is kept.
LEMMA UploadAdded ==
  ASSUME NEW y \in Exfil!SourceState, NEW e \in Exfil!Delta
  PROVE  LET z == Exfil!Added(y, e)
             kept == e.dst \notin y.dsts /\ y.ndst < ExfilDstCap
         IN /\ z \in Exfil!SourceState
            /\ z.recs = Exfil!Recent(Append(y.recs, e), e.obs) /\ z.bytes = y.bytes + e.bytes
            /\ z.dsts = (IF kept THEN y.dsts \cup {e.dst} ELSE y.dsts)
            /\ z.ndst = IF kept THEN y.ndst + 1 ELSE y.ndst
<1> DEFINE kept == e.dst \notin y.dsts /\ y.ndst < ExfilDstCap
           recs == Exfil!Recent(Append(y.recs, e), e.obs)
           bytes == y.bytes + e.bytes
           dsts == IF kept THEN y.dsts \cup {e.dst} ELSE y.dsts
           ndst == IF kept THEN y.ndst + 1 ELSE y.ndst
           z == Exfil!Added(y, e)
<1>1. z = [y EXCEPT !.recs = recs, !.bytes = bytes, !.last = e.obs, !.dsts = dsts, !.ndst = ndst]
  BY Zenon DEF Exfil!Added
<1>2. /\ y.recs \in Uploads /\ y.bytes \in Nat /\ y.dsts \in SUBSET Dsts /\ y.ndst \in Nat
  BY DEF Exfil!SourceState, Uploads
<1>3. e.dst \in Dsts /\ e.bytes \in Nat /\ e.obs \in Nat /\ e.obs \in Int
  <2>1. Amounts \subseteq Nat
    BY DetectionAssumption
  <2>2. e.dst \in Dsts /\ e.bytes \in Amounts
    BY DEF Exfil!Delta
  <2>3. e.obs \in Nat /\ e.obs \in Int
    BY DEF Exfil!Delta
  <2> QED
    BY <2>1, <2>2, <2>3
<1>4. recs \in Seq(Exfil!Delta)
  <2>1. Append(y.recs, e) \in Uploads
    BY <1>2, AppendUpload
  <2>2. recs \in Uploads
    BY <1>3, <2>1, RecentIs
  <2> QED
    BY <2>2 DEF Uploads
<1>5. bytes \in Nat
  BY <1>2, <1>3
<1>6. dsts \in SUBSET Dsts /\ ndst \in Nat
  BY <1>2, <1>3
<1> HIDE DEF recs, bytes, dsts, ndst, z
<1>7. /\ z \in Exfil!SourceState /\ z.recs = recs /\ z.bytes = bytes
      /\ z.dsts = dsts /\ z.ndst = ndst
  BY <1>1, <1>3, <1>4, <1>5, <1>6 DEF Exfil!SourceState
<1> QED
  BY <1>7 DEF z, recs, bytes, dsts, ndst

\* What the history notes of an upload.
UploadNoted(h, h2, e, learned, spared) ==
  h2 = [h EXCEPT !.received = Append(@, e), !.total = @ + e.bytes,
                 !.learned = learned, !.spared = spared,
                 !.dsts = IF Exfil!Contains(@, e.dst) THEN @ ELSE Append(@, e.dst)]

\* An upload, whatever is shown of it.
LEMMA UploadCounted ==
  ASSUME NEW x, NEW h, NEW now \in Int, SourceIs(x, h, now), NEW e \in Exfil!Delta,
         NEW next \in Int, next >= now, next >= e.obs, next <= e.obs + OutOfOrderness,
         NEW threshold, NEW newDst, NEW learned \in Int, NEW spared \in Int, NEW h2,
         learned + spared = h.learned + h.spared
                            + IF Exfil!NewWindow(x, e) THEN x.bytes ELSE 0,
         UploadNoted(h, h2, e, learned, spared)
  PROVE  SourceIs(Exfil!Shown(Exfil!Added(Exfil!Rolled(x, e), e), threshold, newDst), h2, next)
<1> DEFINE y == Exfil!Rolled(x, e)
           z == Exfil!Added(y, e)
           w == Exfil!Shown(z, threshold, newDst)
           ends == Exfil!NewWindow(x, e)
           dsts == IF Exfil!Contains(h.dsts, e.dst) THEN h.dsts ELSE Append(h.dsts, e.dst)
           kept == e.dst \notin x.dsts /\ x.ndst < ExfilDstCap
<1>1. /\ x \in Exfil!SourceState /\ h \in UploadHistory
      /\ WindowHolds(x.recs, h.received, now)
      /\ h.total = h.learned + h.spared + x.bytes
      /\ FirstDsts(x.dsts, x.ndst, h.dsts)
  BY DEF SourceIs
<1>2. /\ y \in Exfil!SourceState
      /\ y.recs = x.recs /\ y.dsts = x.dsts /\ y.ndst = x.ndst
      /\ y.bytes = IF ends THEN 0 ELSE x.bytes
  BY <1>1, RolledIs
<1> HIDE DEF y, ends
<1>3. /\ z \in Exfil!SourceState
      /\ z.recs = Exfil!Recent(Append(x.recs, e), e.obs) /\ z.bytes = y.bytes + e.bytes
      /\ z.dsts = (IF kept THEN x.dsts \cup {e.dst} ELSE x.dsts)
      /\ z.ndst = IF kept THEN x.ndst + 1 ELSE x.ndst
  <2>1. LET p == Exfil!Added(y, e)
            k == e.dst \notin y.dsts /\ y.ndst < ExfilDstCap
        IN /\ p \in Exfil!SourceState
           /\ p.recs = Exfil!Recent(Append(y.recs, e), e.obs) /\ p.bytes = y.bytes + e.bytes
           /\ p.dsts = (IF k THEN y.dsts \cup {e.dst} ELSE y.dsts)
           /\ p.ndst = IF k THEN y.ndst + 1 ELSE y.ndst
    BY <1>2, UploadAdded
  <2> QED
    BY <1>2, <2>1, Zenon
<1> HIDE DEF z, kept
<1>4. /\ w \in Exfil!SourceState
      /\ w.recs = z.recs /\ w.dsts = z.dsts /\ w.ndst = z.ndst /\ w.bytes = z.bytes
  BY <1>3, UploadShown
<1> HIDE DEF w
<1>5. e.dst \in Dsts /\ e.bytes \in Nat
  BY DetectionAssumption DEF Exfil!Delta
<1>6. /\ h.received \in Uploads /\ h.total \in Int /\ h.learned \in Int /\ h.spared \in Int
      /\ h.dsts \in Seq(Dsts)
  BY <1>1 DEF UploadHistory
<1>7. Append(h.received, e) \in Uploads
  BY <1>6, AppendUpload
<1>8. dsts \in Seq(Dsts)
  BY <1>5, <1>6
<1>9. h2 = [h EXCEPT !.received = Append(h.received, e), !.total = h.total + e.bytes,
                     !.learned = learned, !.spared = spared, !.dsts = dsts]
  BY Zenon DEF UploadNoted
<1> HIDE DEF dsts
<1>10. /\ h2 \in UploadHistory /\ h2.received = Append(h.received, e)
       /\ h2.total = h.total + e.bytes /\ h2.learned = learned /\ h2.spared = spared
       /\ h2.dsts = dsts
  <2>1. h \in UploadHistory /\ h.total + e.bytes \in Int
    BY <1>1, <1>5, <1>6
  <2> DEFINE received == Append(h.received, e)
             total == h.total + e.bytes
  <2>2. received \in Uploads /\ total \in Int
    BY <1>7, <2>1
  <2>3. h2 = [h EXCEPT !.received = received, !.total = total,
                       !.learned = learned, !.spared = spared, !.dsts = dsts]
    BY <1>9
  <2> HIDE DEF received, total
  <2>4. /\ h2 \in UploadHistory /\ h2.received = received
        /\ h2.total = total /\ h2.learned = learned /\ h2.spared = spared /\ h2.dsts = dsts
    BY <1>8, <2>1, <2>2, <2>3 DEF UploadHistory
  <2> QED
    BY <2>4 DEF received, total
<1>11. WindowHolds(w.recs, h2.received, next)
  <2>1. WindowHolds(Exfil!Recent(Append(x.recs, e), e.obs), Append(h.received, e), next)
    BY <1>1, WindowMoves
  <2> QED
    BY <1>3, <1>4, <1>10, <2>1, Zenon
<1>12. h2.total = h2.learned + h2.spared + w.bytes
  <2>1. learned + spared = h.learned + h.spared + IF ends THEN x.bytes ELSE 0
    BY DEF ends
  <2>2. x.bytes \in Nat
    BY <1>1 DEF Exfil!SourceState
  <2> QED
    <3> DEFINE over == IF ends THEN x.bytes ELSE 0
    <3>1. learned + spared = h.learned + h.spared + over
      BY <2>1
    <3>2. y.bytes + over = x.bytes /\ over \in Nat /\ y.bytes \in Nat
      BY <1>2, <2>2
    <3> HIDE DEF over
    <3>3. /\ h2.total = h.total + e.bytes /\ h2.learned = learned /\ h2.spared = spared
          /\ h.total = h.learned + h.spared + x.bytes /\ w.bytes = y.bytes + e.bytes
      BY <1>1, <1>3, <1>4, <1>10
    <3>4. e.bytes \in Nat /\ h.learned \in Int /\ h.spared \in Int /\ h.total \in Int
      BY <1>5, <1>6
    <3> QED
      BY <2>2, <3>1, <3>2, <3>3, <3>4
<1>13. FirstDsts(w.dsts, w.ndst, h2.dsts)
  <2>1. FirstDsts(IF kept THEN x.dsts \cup {e.dst} ELSE x.dsts,
                  IF kept THEN x.ndst + 1 ELSE x.ndst, dsts)
    BY <1>1, <1>5, DstsMore, Zenon DEF kept, dsts
  <2> QED
    BY <1>3, <1>4, <1>10, <2>1, Zenon
<1>14. SourceIs(w, h2, next)
  BY <1>4, <1>10, <1>11, <1>12, <1>13 DEF SourceIs
<1> QED
  BY <1>14 DEF w, z, y

LEMMA ExfilCounting ==
  ASSUME ExfilCounts, Exfil!Next
  PROVE  ExfilCounts'
<1>0. /\ newest \in Int /\ (state = None => history = Exfil!Nothing)
      /\ SourceIs(Exfil!Current, history, newest)
  BY DEF ExfilCounts
<1>1. CASE Exfil!OnTimer
  <2>1. /\ newest' = newest
        /\ \/ state' = state /\ history' = history
           \/ state' = None /\ history' = Exfil!Nothing
    BY <1>1 DEF Exfil!OnTimer, Exfil!Expire, Exfil!Tick
  <2>2. CASE state' = state /\ history' = history
    <3>1. Exfil!Current' = Exfil!Current
      BY <2>2 DEF Exfil!Current
    <3> QED
      BY <1>0, <2>1, <2>2, <3>1, Zenon DEF ExfilCounts
  <2>3. CASE state' = None /\ history' = Exfil!Nothing
    <3>1. Exfil!Current' = Exfil!Empty
      BY <2>3 DEF Exfil!Current
    <3>2. SourceIs(Exfil!Empty, Exfil!Nothing, newest)
      BY <1>0, SourceStarts
    <3> QED
      BY <1>0, <2>1, <2>3, <3>1, <3>2, Zenon DEF ExfilCounts
  <2> QED
    BY <2>1, <2>2, <2>3
<1>2. CASE \E e \in Exfil!Delta : Exfil!Upload(e)
  <2>1. PICK e \in Exfil!Delta : Exfil!Upload(e)
    BY <1>2
  <2> DEFINE x == Exfil!Current
             z == Exfil!Added(Exfil!Rolled(x, e), e)
             newDst == e.dst \notin x.dsts
             ends == Exfil!NewWindow(x, e)
             learned == IF ends /\ ~x.anomalous THEN history.learned + x.bytes ELSE history.learned
             spared == IF ends /\ x.anomalous THEN history.spared + x.bytes ELSE history.spared
  <2>2. PICK threshold : Exfil!Handle(e, Exfil!Shown(z, threshold, newDst),
                                      {Exfil!BucketUp(e.obs + ExfilIdle, ExfilStep)},
                                      Exfil!Noted(e))
    BY <2>1, Zenon DEF Exfil!Upload
  <2> DEFINE w == Exfil!Shown(z, threshold, newDst)
  <2>3. /\ e.obs + OutOfOrderness >= newest /\ newest' = Exfil!Max({newest, e.obs})
        /\ state' = w /\ history' = Exfil!Noted(e)
    BY <2>2, Zenon DEF Exfil!Handle
  <2>4. history' = [history EXCEPT !.received = Append(@, e), !.total = @ + e.bytes,
                                   !.learned = learned, !.spared = spared,
                                   !.dsts = IF Exfil!Contains(@, e.dst) THEN @
                                            ELSE Append(@, e.dst)]
    BY <2>3, Zenon DEF Exfil!Noted
  <2>5. e.obs \in Int /\ OutOfOrderness \in Nat
    <3>1. OutOfOrderness \in Sizes
      BY DEF Sizes
    <3> QED
      BY <3>1, ConfigAssumption DEF Exfil!Delta
  <2>6. newest' = IF newest >= e.obs THEN newest ELSE e.obs
    BY <1>0, <2>3, <2>5, ExfilMax
  <2>7. /\ newest' \in Int /\ newest' >= newest /\ newest' >= e.obs
        /\ newest' <= e.obs + OutOfOrderness
    BY <1>0, <2>3, <2>5, <2>6
  <2>8. /\ history.learned \in Int /\ history.spared \in Int /\ x.bytes \in Nat
    BY <1>0 DEF SourceIs, UploadHistory, Exfil!SourceState
  <2>9. /\ learned \in Int /\ spared \in Int
        /\ learned + spared = history.learned + history.spared + IF ends THEN x.bytes ELSE 0
    <3> HIDE DEF x, ends
    <3> QED
      BY <2>8
  <2> HIDE DEF learned, spared
  <2>10. SourceIs(w, history', newest')
    <3> DEFINE h == history
               h2 == history'
               now == newest
               next == newest'
    <3>1. /\ now \in Int /\ SourceIs(x, h, now) /\ next \in Int /\ next >= now /\ next >= e.obs
          /\ next <= e.obs + OutOfOrderness
      BY <1>0, <2>7
    <3>2. /\ learned \in Int /\ spared \in Int
          /\ learned + spared = h.learned + h.spared + IF Exfil!NewWindow(x, e) THEN x.bytes ELSE 0
      BY <2>9
    <3>3. UploadNoted(h, h2, e, learned, spared)
      BY <2>4, Zenon DEF UploadNoted
    <3> HIDE DEF h, h2, now, next, x, newDst
    <3>4. SourceIs(Exfil!Shown(Exfil!Added(Exfil!Rolled(x, e), e), threshold, newDst), h2, next)
      BY <3>1, <3>2, <3>3, UploadCounted, Zenon
    <3> QED
      BY <3>4 DEF h2, next
  <2>11. w # None
    <3>1. w \in Exfil!SourceState
      BY <2>10 DEF SourceIs
    <3> HIDE DEF w
    <3> QED
      BY <3>1, DetectionAssumption
  <2> HIDE DEF w
  <2>12. state' # None /\ Exfil!Current' = w
    BY <2>3, <2>11 DEF Exfil!Current
  <2> QED
    BY <2>7, <2>10, <2>12, Zenon DEF ExfilCounts
<1> QED
  BY <1>1, <1>2 DEF Exfil!Next

LEMMA ExfilCardinality ==
  ASSUME NEW S
  PROVE  Exfil!Cardinality(S) = Cardinality(S)
BY Zenon DEF Exfil!Cardinality, Cardinality

LEMMA ExfilCounted ==
  ASSUME ExfilCounts
  PROVE  Exfil!WindowIsExact
<1> SUFFICES ASSUME state # None
             PROVE  Exfil!WindowIsExact
  BY DEF Exfil!WindowIsExact
<1> DEFINE all == history.received
           recs == state.recs
           t == newest - ExfilWindow
           latest == SubSeq(all, Exfil!Max({1, Len(all) - ExfilMaxRecords + 1}), Len(all))
           first == SubSeq(history.dsts, 1, Exfil!Min({Len(history.dsts), ExfilDstCap}))
<1>1. newest \in Int /\ SourceIs(state, history, newest)
  BY DEF ExfilCounts, Exfil!Current
<1>2. /\ WindowHolds(recs, all, newest)
      /\ history.total = history.learned + history.spared + state.bytes
      /\ FirstDsts(state.dsts, state.ndst, history.dsts)
  BY <1>1 DEF SourceIs
<1>3. /\ recs \in Uploads /\ all \in Uploads /\ Len(recs) <= ExfilMaxRecords
      /\ \A i \in 1 .. Len(recs) : recs[i].obs >= newest - OutOfOrderness - ExfilWindow
      /\ \A u \in Int : u >= newest - ExfilWindow => KeptFrom(recs, all, u)
  BY <1>2 DEF WindowHolds
<1>4. ExfilMaxRecords \in Nat /\ ExfilWindow \in Nat /\ ExfilDstCap \in Nat
  <2>1. {ExfilMaxRecords, ExfilWindow, ExfilDstCap} \subseteq Counts
    BY DEF Counts
  <2> QED
    BY <2>1, ConfigAssumption
<1>5. t \in Int /\ t >= newest - ExfilWindow
  BY <1>1, <1>4
<1>6. latest = TailOf(all, ExfilMaxRecords)
  BY Zenon DEF TailOf
<1> HIDE DEF recs, all, t, latest
<1>7. TailOf(recs, ExfilMaxRecords) = recs
  <2> DEFINE r == TailOf(recs, ExfilMaxRecords)
  <2>1. r \in Uploads /\ Len(r) = Lesser(ExfilMaxRecords, Len(recs)) /\ Ends(r, recs)
    BY <1>3, <1>4, TailIs
  <2> HIDE DEF r
  <2>2. Len(recs) \in Nat
    BY <1>3 DEF Uploads
  <2>3. Len(r) = Len(recs)
    BY <1>3, <1>4, <2>1, <2>2 DEF Lesser
  <2>4. r = recs
    <3>1. Ends(recs, recs)
      BY <2>2 DEF Ends
    <3> QED
      BY <1>3, <2>1, <2>3, <3>1, EndsSame
  <2> QED
    BY <2>4 DEF r
<1>8. KeptFrom(recs, all, t)
  BY <1>3, <1>5
<1>9. /\ Ends(Exfil!Since(recs, t), Exfil!Since(all, t))
      /\ Ends(Exfil!Since(latest, t), Exfil!Since(recs, t))
  <2>1. ExfilMaxRecords \in 0 .. ExfilMaxRecords
    BY <1>4
  <2>2. Ends(Exfil!Since(TailOf(all, ExfilMaxRecords), t),
             Exfil!Since(TailOf(recs, ExfilMaxRecords), t))
    BY <1>8, <2>1 DEF KeptFrom
  <2> QED
    BY <1>6, <1>7, <1>8, <2>2 DEF KeptFrom
<1>10. /\ Exfil!Since(recs, t) \in Uploads /\ Exfil!Since(all, t) \in Uploads
       /\ Exfil!Since(latest, t) \in Uploads
  <2>1. latest \in Uploads
    BY <1>3, <1>4, <1>6, TailIs
  <2> QED
    BY <1>3, <1>5, <2>1, SinceType DEF YoungOf
<1>11. /\ Exfil!IsSuffix(Exfil!Since(latest, t), Exfil!Since(recs, t))
       /\ Exfil!IsSuffix(Exfil!Since(recs, t), Exfil!Since(all, t))
  BY <1>9, <1>10, EndsSuffix
<1>12. \A i \in DOMAIN recs : recs[i].obs >= newest - OutOfOrderness - ExfilWindow
  BY <1>3 DEF Uploads
<1>13. /\ state.ndst = Exfil!Cardinality(state.dsts)
       /\ state.dsts = Exfil!ToSet(first)
  <2> DEFINE h == history.dsts
             n == state.ndst
  <2>1. /\ h \in Seq(Dsts) /\ n = Lesser(Len(h), ExfilDstCap)
        /\ state.dsts = {h[i] : i \in 1 .. n} /\ Cardinality(state.dsts) = n
    BY <1>2 DEF FirstDsts
  <2>2. first = SubSeq(h, 1, Exfil!Min({Len(h), ExfilDstCap}))
    OBVIOUS
  <2> HIDE DEF h, n, first
  <2>3. Len(h) \in Nat /\ Exfil!Min({Len(h), ExfilDstCap}) = n
    <3>1. Len(h) \in Nat
      BY <2>1
    <3>2. Len(h) \in Int /\ ExfilDstCap \in Int
      BY <1>4, <3>1
    <3>3. Exfil!Min({Len(h), ExfilDstCap}) = Lesser(Len(h), ExfilDstCap)
      BY <3>2, ExfilMin, Zenon
    <3> QED
      BY <2>1, <3>1, <3>3, Zenon
  <2>4. n \in Nat /\ n <= Len(h)
    BY <1>4, <2>1, <2>3 DEF Lesser
  <2>5. \A i \in 1 .. n : h[i] \in Dsts
    BY <2>1, <2>4
  <2>6. /\ SubSeq(h, 1, n) \in Seq(Dsts)
        /\ Len(SubSeq(h, 1, n)) = IF 1 <= n THEN n - 1 + 1 ELSE 0
        /\ \A i \in 1 .. n - 1 + 1 : SubSeq(h, 1, n)[i] = h[1 + i - 1]
    BY <2>4, <2>5, SubSeqProperties
  <2>7. /\ DOMAIN first = 1 .. n
        /\ \A i \in 1 .. n : first[i] = h[i]
    <3>1. Len(first) = n /\ first \in Seq(Dsts)
      <4>1. first = SubSeq(h, 1, n)
        BY <2>2, <2>3, Zenon
      <4>2. Len(SubSeq(h, 1, n)) = n
        BY <2>4, <2>6
      <4> QED
        BY <2>6, <4>1, <4>2, Zenon
    <3>2. \A i \in 1 .. n : i \in 1 .. n - 1 + 1 /\ 1 + i - 1 = i
      BY <2>4
    <3>3. \A i \in 1 .. n : first[i] = h[i]
      BY <2>2, <2>3, <2>6, <3>2
    <3> QED
      BY <3>1, <3>3
  <2>8. Exfil!ToSet(first) = {h[i] : i \in 1 .. n}
    BY <2>7 DEF Exfil!ToSet
  <2>9. Exfil!Cardinality(state.dsts) = Cardinality(state.dsts)
    BY ExfilCardinality
  <2> QED
    BY <2>1, <2>8, <2>9 DEF n
<1>14. /\ Exfil!IsSuffix(Exfil!Since(latest, t), Exfil!Since(recs, t))
       /\ Exfil!IsSuffix(Exfil!Since(recs, t), Exfil!Since(all, t))
       /\ Len(recs) <= ExfilMaxRecords
       /\ \A i \in DOMAIN recs : recs[i].obs >= newest - OutOfOrderness - ExfilWindow
       /\ history.total = history.learned + history.spared + state.bytes
       /\ state.ndst = Exfil!Cardinality(state.dsts)
       /\ state.dsts = Exfil!ToSet(first)
  BY <1>2, <1>3, <1>11, <1>12, <1>13
<1> QED
  BY <1>14, Zenon DEF Exfil!WindowIsExact, recs, all, t, latest, first

-----------------------------------------------------------------------------
(***************************************************************************)
(* The windows of the detectors                                            *)
(***************************************************************************)

WindowsInv ==
  /\ op = "scan" => ScanCounts /\ ScanHorizons
  /\ op = "exfil" => ExfilCounts
  /\ op = "encrypted" => EncryptedCounts
  /\ op = "dns" => DnsCounts

LEMMA WindowsInit ==
  Init => WindowsInv
<1> SUFFICES ASSUME Init
             PROVE  WindowsInv
  OBVIOUS
<1>1. CASE op = "scan"
  <2>1. /\ state = None /\ timers = {} /\ watermark = -1
        /\ history = [seen |-> << >>, capped |-> {}]
    BY <1>1 DEF Init, Scan!Init, Scan!Start
  <2>2. ScanCounts
    BY <2>1 DEF ScanCounts
  <2>3. Scan!Current.pairs = << >> /\ history.seen = << >> /\ history.capped = {}
    BY <2>1 DEF Scan!Current, Scan!Empty
  <2>4. DOMAIN << >> = {} /\ << >> \in [DOMAIN << >> -> Nat]
    OBVIOUS
  <2>5. ScanHorizons
    BY <2>1, <2>3, <2>4 DEF ScanHorizons, Follows
  <2> QED
    BY <1>1, <2>2, <2>5 DEF WindowsInv
<1>2. CASE op = "exfil"
  <2>1. state = None /\ newest = -1 /\ history = Exfil!Nothing
    BY <1>2 DEF Init, Exfil!Init, Exfil!Start
  <2>2. Exfil!Current = Exfil!Empty
    BY <2>1 DEF Exfil!Current
  <2>3. SourceIs(Exfil!Empty, Exfil!Nothing, newest)
    BY <2>1, SourceStarts
  <2>4. ExfilCounts
    BY <2>1, <2>2, <2>3 DEF ExfilCounts
  <2> QED
    BY <1>2, <2>4 DEF WindowsInv
<1>3. CASE op = "encrypted"
  <2>1. state = None /\ newest = -1 /\ history = [run |-> << >>, before |-> -1]
    BY <1>3 DEF Init, Encrypted!Init, Encrypted!Start
  <2>2. << >> \in Seq(Encrypted!Session) /\ -1 \in Int
    OBVIOUS
  <2>3. EncryptedCounts
    BY <2>1, <2>2 DEF EncryptedCounts
  <2> QED
    BY <1>3, <2>3 DEF WindowsInv
<1>4. CASE op = "dns"
  <2>1. state = None /\ history = << >>
    BY <1>4 DEF Init, DnsDomain!Init, DnsDomain!Start
  <2>2. << >> \in Seq(Asked)
    OBVIOUS
  <2> QED
    BY <1>4, <2>1, <2>2 DEF DnsCounts, WindowsInv
<1>5. CASE op \notin {"scan", "exfil", "encrypted", "dns"}
  BY <1>5 DEF WindowsInv
<1> QED
  BY <1>1, <1>2, <1>3, <1>4, <1>5

LEMMA WindowsPreserved ==
  ASSUME Waits, WindowsInv, [Next]_<<vars, op, model>>
  PROVE  WindowsInv'
<1>0. op # "beacon" => TimersAhead
  BY DEF Waits
<1>1. CASE UNCHANGED <<vars, op, model>>
  <2>1. /\ state' = state /\ newest' = newest /\ history' = history /\ op' = op
        /\ timers' = timers /\ watermark' = watermark
    BY <1>1 DEF vars
  <2>2. (ScanCounts => ScanCounts') /\ (DnsCounts => DnsCounts')
    BY <2>1 DEF ScanCounts, DnsCounts, DnsDomain!Tunnel, DnsDomain!TunnelRank
  <2>3. ScanHorizons => ScanHorizons'
    BY <2>1 DEF ScanHorizons, Scan!Current
  <2>4. ExfilCounts => ExfilCounts'
    BY <2>1 DEF ExfilCounts, Exfil!Current
  <2>5. EncryptedCounts => EncryptedCounts'
    BY <2>1 DEF EncryptedCounts
  <2> QED
    BY <2>1, <2>2, <2>3, <2>4, <2>5 DEF WindowsInv
<1>2. CASE RunScan
  <2>1. op = "scan" /\ op' = op /\ Scan!Next
    BY <1>2 DEF RunScan
  <2>2. TimersAhead /\ ScanCounts /\ ScanHorizons
    BY <1>0, <2>1 DEF WindowsInv
  <2> QED
    BY <2>1, <2>2, ScanCounting, ScanHorizonKept DEF WindowsInv
<1>3. CASE RunExfil
  BY <1>3, ExfilCounting DEF RunExfil, WindowsInv
<1>4. CASE RunEncrypted
  <2>1. op = "encrypted" /\ op' = op /\ Encrypted!Next
    BY <1>4 DEF RunEncrypted
  <2>2. TimersAhead /\ EncryptedCounts
    BY <1>0, <2>1 DEF WindowsInv
  <2> QED
    BY <2>1, <2>2, EncryptedCounting DEF WindowsInv
<1>5. CASE RunDnsDomain
  <2>1. op = "dns" /\ op' = op /\ DnsDomain!Next
    BY <1>5 DEF RunDnsDomain
  <2>2. TimersAhead /\ DnsCounts
    BY <1>0, <2>1 DEF WindowsInv
  <2> QED
    BY <2>1, <2>2, DnsCounting DEF WindowsInv
<1>6. CASE RunFlowDelta \/ RunDdos \/ RunBeacon \/ RunDgaBurst
  BY <1>6 DEF RunFlowDelta, RunDdos, RunBeacon, RunDgaBurst, WindowsInv
<1> QED
  BY <1>1, <1>2, <1>3, <1>4, <1>5, <1>6 DEF Next

LEMMA WindowsCounted ==
  ASSUME Waits, WindowsInv
  PROVE  WindowsAreExact
<1>1. op = "scan" => Scan!HorizonIsExact
  <2> SUFFICES ASSUME op = "scan"
               PROVE  Scan!HorizonIsExact
    OBVIOUS
  <2>1. TimersAhead /\ ScanCounts /\ ScanHorizons
    BY DEF Waits, WindowsInv
  <2> QED
    BY <2>1, ScanHorizoned
<1> QED
  BY <1>1, ExfilCounted, EncryptedCounted, DnsCounted DEF WindowsInv, WindowsAreExact

\* A window holds what was observed within it, however the events come: a scan's pairs
\* between expiries, the latest uploads through the cap on records and windows that
\* late records reopen, sessions that follow one another; and the tumbling window of
\* names the queries since the last one of another window, for a late one discards it
\* (scan.py, exfil.py, encrypted.py, dns.py:99-102).
THEOREM WindowsExactEver ==
  Spec => []WindowsAreExact
<1>1. Init => Waits /\ WindowsInv
  BY WaitsInit, WindowsInit
<1>2. Waits /\ WindowsInv /\ [Next]_<<vars, op, model>> => (Waits /\ WindowsInv)'
  BY WaitsPreserved, WindowsPreserved
<1>3. Waits /\ WindowsInv => WindowsAreExact
  BY WindowsCounted
<1> QED
  BY <1>1, <1>2, <1>3, PTL DEF Spec

=============================================================================
