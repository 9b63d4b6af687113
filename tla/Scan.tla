-------------------------------- MODULE Scan --------------------------------
(***************************************************************************)
(* One source host: which hosts and ports it contacted first within a      *)
(* horizon, with running counts of hosts by port and ports by host         *)
(* (scan.py).                                                              *)
(***************************************************************************)
EXTENDS KeyedOperator

CONSTANTS
  Hosts, Ports,
  Outcomes,  \* of flows: "failed", "answered", "open" or with one direction "unseen"
  Authorized \* whether the inventory lists the source as a scanner

Flow == [host: Hosts, port: Ports, outcome: Outcomes, obs: 0 .. MaxTime]

Types == {"horizontal", "vertical"}

\* The history: when each pair was last contacted, and the pairs the cap kept out.
Init == Start([seen |-> << >>, capped |-> {}])

\* What is kept of a source.
ScanState ==
  [pairs: Maps(Hosts \X Ports, Nat), byPort: Maps(Ports, Nat), byHost: Maps(Hosts, Nat),
   n: Nat, hosts: Nat, ports: Nat, capped: BOOLEAN, failed: Nat, known: Nat,
   level: [Types -> Int], emitted: [Types -> Nat]]

Empty ==
  [pairs |-> << >>, byPort |-> << >>, byHost |-> << >>, n |-> 0, hosts |-> 0, ports |-> 0,
   capped |-> FALSE, failed |-> 0, known |-> 0,
   level |-> [t \in Types |-> -1], emitted |-> [t \in Types |-> 0]]

Current == IF state = None THEN Empty ELSE state

-----------------------------------------------------------------------------
(***************************************************************************)
(* on_event                                                                *)
(***************************************************************************)

Put(f, k, v) == [x \in DOMAIN f \cup {k} |-> IF x = k THEN v ELSE f[x]]
Except(f, k) == [x \in DOMAIN f \ {k} |-> f[x]]
CountOf(f, k) == IF k \in DOMAIN f THEN f[k] ELSE 0

Later(m, k, t) == IF k \in DOMAIN m /\ m[k] > t THEN m ELSE Put(m, k, t)

\* Mutation: every contact counts, a repeated one, too.
TrackAgain(m, e) ==
  LET pair == <<e.host, e.port>> IN
  [m EXCEPT !.pairs = Later(@, pair, e.obs), !.n = @ + 1,
            !.ports = IF e.port \in DOMAIN m.byPort THEN @ ELSE @ + 1,
            !.hosts = IF e.host \in DOMAIN m.byHost THEN @ ELSE @ + 1,
            !.byPort = Put(@, e.port, CountOf(@, e.port) + 1),
            !.byHost = Put(@, e.host, CountOf(@, e.host) + 1)]

\* A known pair is renewed, a new one counted, unless there is no room.
Track(m, e) ==
  LET pair == <<e.host, e.port>> IN
  IF pair \in DOMAIN m.pairs THEN [m EXCEPT !.pairs = Later(@, pair, e.obs)]
  ELSE IF m.n >= ScanPairCap THEN [m EXCEPT !.capped = TRUE]
  ELSE [m EXCEPT !.pairs = Put(@, pair, e.obs), !.n = @ + 1,
                 !.ports = IF e.port \in DOMAIN m.byPort THEN @ ELSE @ + 1,
                 !.hosts = IF e.host \in DOMAIN m.byHost THEN @ ELSE @ + 1,
                 !.byPort = Put(@, e.port, CountOf(@, e.port) + 1),
                 !.byHost = Put(@, e.host, CountOf(@, e.host) + 1)]

Outcome(m, e) ==
  [m EXCEPT !.known = IF e.outcome \in {"failed", "answered"} THEN @ + 1 ELSE @,
            !.failed = IF e.outcome = "failed" THEN @ + 1 ELSE @]

CountFor(m, e, t) == IF t = "horizontal" THEN CountOf(m.byPort, e.port) ELSE CountOf(m.byHost, e.host)
Threshold(t)      == IF t = "horizontal" THEN ScanHosts ELSE ScanPorts

\* SEVERITY_RANK of info, medium and high.
Rank(m, e, t) ==
  LET count == CountFor(m, e, t)
      mostlyFailed == e.outcome # "unseen" /\ m.known > 0 /\ 10 * m.failed >= 8 * m.known
  IN IF Authorized THEN 0
     ELSE IF \/ count >= 5 * Threshold(t)
             \/ mostlyFailed /\ count >= 2 * Threshold(t) THEN 3 ELSE 2

\* At the threshold; then if more severe, or twice what was last reported.
Reports(m, e, t) ==
  /\ CountFor(m, e, t) >= Threshold(t)
  /\ Rank(m, e, t) > m.level[t] \/ CountFor(m, e, t) >= 2 * m.emitted[t]

Noted(m, e) ==
  [m EXCEPT !.level = [t \in Types |-> IF Reports(m, e, t) THEN Rank(m, e, t) ELSE @[t]],
            !.emitted = [t \in Types |-> IF Reports(m, e, t) THEN CountFor(m, e, t) ELSE @[t]]]

Contact(e) ==
  LET pair == <<e.host, e.port>>
      m    == Outcome(Track(Current, e), e)
      h    == [seen |-> Later(history.seen, pair, e.obs),
               capped |-> IF pair \in DOMAIN m.pairs THEN history.capped ELSE history.capped \cup {pair}]
  IN Handle(e, Noted(m, e), {BucketUp(e.obs, ScanStep)}, h)

\* An update of a flow that was counted when it was new.
NotNew(t) == Ignore([obs |-> t], history)

-----------------------------------------------------------------------------
(***************************************************************************)
(* on_timer: the pairs last seen before the horizon go, one by one         *)
(***************************************************************************)

Less(f, k) == IF CountOf(f, k) <= 1 THEN Except(f, k) ELSE Put(f, k, CountOf(f, k) - 1)

Forget(m, pair) ==
  LET port == Less(m.byPort, pair[2])
      host == Less(m.byHost, pair[1])
  IN [m EXCEPT !.pairs = Except(@, pair), !.n = @ - 1, !.byPort = port, !.byHost = host,
               !.ports = IF pair[2] \in DOMAIN port THEN @ ELSE @ - 1,
               !.hosts = IF pair[1] \in DOMAIN host THEN @ ELSE @ - 1]

Expired(ts) == {pair \in DOMAIN state.pairs : state.pairs[pair] < ts - ScanHorizon}

AfterExpiry(ts) == FoldSet(LAMBDA pair, m : Forget(m, pair), state, Expired(ts))

\* An emptied state goes; otherwise the next timer is five seconds later.
OnTimer ==
  IF Due = {} \/ state = None THEN Tick(state, {}, history)
  ELSE LET m == AfterExpiry(Max(Due)) IN
       IF m.n <= 0 THEN Tick(None, {}, history)
       ELSE Tick([m EXCEPT !.capped = @ /\ m.n >= ScanPairCap], {Max(Due) + ScanStep}, history)

Next == (\E e \in Flow : Contact(e)) \/ (\E t \in 0 .. MaxTime : NotNew(t)) \/ OnTimer

Spec == Init /\ [][Next]_vars

-----------------------------------------------------------------------------
\* The running counts are what counting the pairs would give, through contacts,
\* renewals, expiry and the cap, and no entry of a map is left behind.
CountsAreExact ==
  state # None =>
    LET pairs == DOMAIN state.pairs
        Port(p) == {x \in pairs : x[2] = p}
        Host(h) == {x \in pairs : x[1] = h}
    IN /\ state.n = Cardinality(pairs) /\ state.n \in 1 .. ScanPairCap
       /\ DOMAIN state.byPort = {x[2] : x \in pairs} /\ DOMAIN state.byHost = {x[1] : x \in pairs}
       /\ state.ports = Cardinality(DOMAIN state.byPort)
       /\ state.hosts = Cardinality(DOMAIN state.byHost)
       /\ \A p \in DOMAIN state.byPort : state.byPort[p] = Cardinality(Port(p))
       /\ \A h \in DOMAIN state.byHost : state.byHost[h] = Cardinality(Host(h))

\* The pairs kept are those contacted within the horizon, as far as the timers
\* have come, but for the pairs that found no room.
HorizonIsExact ==
  LET kept == IF state = None THEN {} ELSE DOMAIN state.pairs
      seen(lag) == {pair \in DOMAIN history.seen : history.seen[pair] + ScanHorizon + lag >= watermark}
  IN /\ seen(0) \subseteq kept \cup history.capped
     /\ kept \subseteq seen(ScanStep)

=============================================================================
