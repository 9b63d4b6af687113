------------------------------- MODULE Beacon -------------------------------
(***************************************************************************)
(* One service pair: the starts of its latest connections, and how regular *)
(* they are (beacon.py).  Whether the intervals are regular enough is any  *)
(* answer once there are enough of them.                                   *)
(***************************************************************************)
EXTENDS KeyedOperator

CONSTANTS
  External, \* whether the destination is outside
  Periodic  \* whether the inventory knows the pair as periodic

Delta == {e \in [start: 0 .. MaxTime, obs: 0 .. MaxTime] : e.start <= e.obs}

\* The history: the starts of all connections since the pair was last forgotten.
Init == Start({})

\* What is kept of a pair.
PairState == [starts: SUBSET Nat, last: Nat, rank: Int, emitted: Nat]

Empty == [starts |-> {}, last |-> 0, rank |-> -1, emitted |-> 0]

Current == IF state = None THEN Empty ELSE state

-----------------------------------------------------------------------------
\* With no room left the earliest connection goes.
Latest(starts, t) ==
  LET all == starts \cup {t} IN
  IF Cardinality(all) > BeaconMaxEvents THEN all \ {Min(all)} ELSE all

\* Of each start but the last, the time to the next one.
Intervals(starts) == [t \in starts \ {Max(starts)} |-> Min({u \in starts : u > t}) - t]

\* The k-th smallest of the values of a function.
Ranked(f, k) == Min({d \in {f[t] : t \in DOMAIN f} : Cardinality({t \in DOMAIN f : f[t] <= d}) >= k})

\* Twice the median, which is the mean of the two in the middle of an even number.
TwiceMedian(f) ==
  LET n == Cardinality(DOMAIN f) IN Ranked(f, (n + 1) \div 2) + Ranked(f, (n + 2) \div 2)

Horizon(starts, enough) ==
  IF Cardinality(starts) < enough THEN BeaconIdle
  ELSE Max({2 * TwiceMedian(Intervals(starts)), BeaconIdle})

Regular(starts) ==
  /\ Cardinality(starts) >= BeaconMinEvents
  /\ 2 * (Max(starts) - Min(starts)) >= 3 * TwiceMedian(Intervals(starts))

\* Severities of an outside destination, the higher one of many, very regular
\* connections, and of one inside.
Ranks == IF External THEN {2, 3} ELSE {1}

Reports(b, rank) == rank > b.rank \/ Cardinality(b.starts) >= 2 * b.emitted

\* Mutation: the timer of a pair with few connections takes no account of the idle
\* time.
TimerEarly(b) == BucketUp(Max(b.starts) + Horizon(b.starts, BeaconMinEvents) - BeaconIdle, BeaconStep)

\* The timer of fewer connections than are looked at takes no account of their
\* intervals.
Timer(b) == BucketUp(Max(b.starts) + Horizon(b.starts, BeaconMinEvents), BeaconStep)

Connected(e) ==
  [Current EXCEPT !.starts = Latest(@, e.start), !.last = e.obs]

Fresh(e) == e.start \notin Current.starts

Connect(e) ==
  /\ Fresh(e)
  /\ Handle(e, Connected(e), {Timer(Connected(e))}, history \cup {e.start})

\* The pair is reported, unless it is known to be periodic.
Beaconing(e) ==
  LET b == Connected(e) IN
  /\ Fresh(e) /\ Regular(b.starts) /\ ~Periodic
  /\ \E rank \in Ranks :
       /\ Reports(b, rank)
       /\ Handle(e, [b EXCEPT !.rank = Max({@, rank}), !.emitted = Cardinality(b.starts)],
                 {Timer(b)}, history \cup {e.start})

\* An update of a connection, or a connection of a start that is known.
Known(t) == Ignore([obs |-> t], history)

\* Whenever the timer fires, two connections have an interval.
OnTimer == Expire(Max(state.starts) + Horizon(state.starts, 2) <= Max(Due), {})

Next == (\E e \in Delta : Connect(e) \/ Beaconing(e)) \/ (\E t \in 0 .. MaxTime : Known(t)) \/ OnTimer

Spec == Init /\ [][Next]_vars

-----------------------------------------------------------------------------
\* The connections kept are the latest of all, in whatever order they were told,
\* and no other is needed: one that was dropped and is told again is dropped again.
StartsAreLatest ==
  state # None =>
    /\ state.starts \subseteq history
    /\ Cardinality(state.starts) = Min({BeaconMaxEvents, Cardinality(history)})
    /\ \A t \in history \ state.starts, s \in state.starts : t < s

\* A pair with enough connections to be looked at has the timer that forgets it
\* (docs/feature-catalog.md:64).
PairsAreForgotten ==
  state # None /\ Cardinality(state.starts) >= BeaconMinEvents =>
    \E t \in timers : Max(state.starts) + Horizon(state.starts, 2) <= t

\* "State expires after max(4*median, 10 min) without a new connection"
\* (docs/feature-catalog.md:64): some timer is left to do that.
StateExpires == state # None => timers # {}

=============================================================================
