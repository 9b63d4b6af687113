-------------------------------- MODULE Ddos --------------------------------
(***************************************************************************)
(* One destination host: seconds of traffic, a baseline that learns from   *)
(* closed seconds, and episodes of flooding (ddos.py).  Times are seconds. *)
(* The loads that decide the subtype are flows, attempts without an answer *)
(* and amplified traffic; what the baseline makes of them, the numbers of  *)
(* sources and bytes, and by how much a threshold is exceeded are data     *)
(* that may have any value.                                                *)
(***************************************************************************)
EXTENDS KeyedOperator

CONSTANT Loads \* what a delta may add to its second

Delta == [load: Loads, obs: 0 .. MaxTime]

Kinds == {"flow", "syn", "amp"}

\* The history: what each second received, how often the baseline learned it, and
\* of the present episode the strongest evidence and the strongest finding.
NoEvidence == [rank |-> -1, prio |-> -1, flows |-> 0]
Init == Start([received |-> << >>, learned |-> << >>, peak |-> NoEvidence, found |-> NoEvidence])

\* What is kept of a destination.
SecondState  == [load: [Kinds -> Nat], anomalous: BOOLEAN, closed: BOOLEAN]
EpisodeState == [last: Nat, rank: Int, prio: Int, flows: Nat]
TargetState  ==
  [buckets: Maps(0 .. MaxTime, SecondState), warmth: Nat, episode: {None} \cup EpisodeState, last: Nat]

Empty == [buckets |-> << >>, warmth |-> 0, episode |-> None, last |-> 0]
Current == IF state = None THEN Empty ELSE state

-----------------------------------------------------------------------------
Put(f, k, v) == [x \in DOMAIN f \cup {k} |-> IF x = k THEN v ELSE f[x]]

NewBucket == [load |-> [k \in Kinds |-> 0], anomalous |-> FALSE, closed |-> FALSE]

Learns(s, sec) ==
  {k \in DOMAIN s.buckets : k < sec /\ ~s.buckets[k].closed /\ ~s.buckets[k].anomalous}

\* _close_old: earlier seconds are learned once, and the oldest dropped.
Closed(s, sec) ==
  [s EXCEPT !.warmth = @ + Cardinality(Learns(s, sec)),
            !.buckets = [k \in {k \in DOMAIN s.buckets : k >= sec - KeepBuckets} |->
                           [s.buckets[k] EXCEPT !.closed = @ \/ k < sec]]]

Bucket(s, sec) == IF sec \in DOMAIN s.buckets THEN s.buckets[sec] ELSE NewBucket

\* A new flow counts; an attempt without an answer and amplified traffic are flows, too.
Added(bucket, load) ==
  [bucket EXCEPT !.load = [k \in Kinds |-> IF load # "more" /\ k \in {"flow", load} THEN @[k] + 1 ELSE @[k]]]

WindowFlows(s, sec) ==
  FoldSet(LAMBDA k, n : n + s.buckets[k].load["flow"], 0, {k \in DOMAIN s.buckets : sec - DdosWindow <= k /\ k <= sec})

\* The least number of flows a second is anomalous with, once the baseline is warm.
Thresholds(s) == IF s.warmth >= DdosWarmup THEN {DdosMinFlows, 2 * DdosMinFlows} ELSE {DdosMinFlows}

\* PRIORITY of the subtypes a second can have, -1 for none.  Whether there are enough
\* sources for amplification or for spoofed ones, and too many bytes, is any answer.
Priorities(bucket, threshold) ==
  LET load == bucket.load
      attempts == load["syn"] >= DdosMinFlows /\ 10 * load["syn"] >= 8 * load["flow"]
  IN {p \in -1 .. 3 : CASE p = 3 -> load["amp"] >= DdosMinFlows
                        [] p = 2 -> 2 * load["flow"] >= threshold
                        [] p = 1 -> attempts
                        [] p = 0 -> ~attempts
                        [] p = -1 -> ~attempts /\ load["flow"] < threshold}

\* The episode goes on unless it has been quiet for the gap.
Ongoing(s, e) == s.episode # None /\ e.obs <= s.episode.last + DdosGap

Episode(s, e) ==
  IF Ongoing(s, e) THEN [s.episode EXCEPT !.last = e.obs]
  ELSE [last |-> e.obs, rank |-> -1, prio |-> -1, flows |-> 0]

\* Mutation: only a rise in severity is reported.
ReportsRank(ep, rank, prio, flows) == rank > ep.rank

Reports(ep, rank, prio, flows) == rank > ep.rank \/ prio > ep.prio \/ flows >= 2 * Max({1, ep.flows})

Stronger(x, rank, prio, flows) ==
  [rank |-> Max({x.rank, rank}), prio |-> Max({x.prio, prio}), flows |-> Max({x.flows, flows})]

-----------------------------------------------------------------------------
\* What is left after the event's second has got its load.
Counted(e) ==
  LET s == Closed(Current, e.obs) IN
  [s EXCEPT !.buckets = Put(@, e.obs, Added(Bucket(s, e.obs), e.load)), !.last = e.obs]

Noted(e) ==
  LET learned == Learns(Current, e.obs)
      again   == history.learned
      Times(k) == IF k \in DOMAIN again THEN again[k] ELSE 0
  IN [history EXCEPT
        !.received = Put(@, e.obs, (IF e.obs \in DOMAIN @ THEN @[e.obs] ELSE 0)
                                   + (IF e.load = "more" THEN 0 ELSE 1)),
        !.learned = [k \in learned \cup DOMAIN again |-> Times(k) + (IF k \in learned THEN 1 ELSE 0)]]

Registered(e) == {BucketUp(e.obs + DdosIdle, DdosStep)}

Possible(e, s) == UNION {Priorities(s.buckets[e.obs], threshold) : threshold \in Thresholds(s)}

Calm(e, s) ==
  /\ -1 \in Possible(e, s)
  /\ Handle(e, s, Registered(e), Noted(e))

\* An anomalous second; the finding goes out if it says more than the last one.
Flood(e, s) ==
  LET flows == WindowFlows(s, e.obs)
      ep    == Episode(s, e)
      peak  == IF Ongoing(s, e) THEN history.peak ELSE NoEvidence
      found == IF Ongoing(s, e) THEN history.found ELSE NoEvidence
  IN \E rank \in {3, 4}, prio \in Possible(e, s) \ {-1} :
      LET out == Reports(ep, rank, prio, flows) IN
      Handle(e, [s EXCEPT
                   !.buckets[e.obs].anomalous = TRUE,
                   !.episode = IF out THEN [ep EXCEPT !.rank = Max({@, rank}), !.prio = Max({@, prio}),
                                                      !.flows = flows]
                               ELSE ep],
             Registered(e),
             [Noted(e) EXCEPT !.peak = Stronger(peak, rank, prio, flows),
                              !.found = IF out THEN Stronger(found, rank, prio, flows) ELSE found])

OnTimer ==
  Expire(state.last + DdosIdle <= Max(Due),
         [history EXCEPT !.learned = << >>, !.received = << >>, !.peak = NoEvidence, !.found = NoEvidence])

Next == (\E e \in Delta : \E s \in {Counted(e)} : Calm(e, s) \/ Flood(e, s)) \/ OnTimer

Spec == Init /\ [][Next]_vars

-----------------------------------------------------------------------------
\* No second is folded into the baseline twice, and the seconds that the next
\* event's window needs hold every flow they received, those that came late and
\* those that found the second gone included.
SecondsAreExact ==
  state # None =>
    /\ \A k \in DOMAIN history.learned : history.learned[k] = 1
    /\ \A k \in DOMAIN history.received :
         k >= newest - DdosWindow =>
           /\ k \in DOMAIN state.buckets
           /\ state.buckets[k].load["flow"] = history.received[k]

\* What an episode's findings say falls short of its evidence by no severity and no
\* priority, and by less than half its flows.
EpisodeShown ==
  /\ history.found.rank >= history.peak.rank /\ history.found.prio >= history.peak.prio
  /\ history.peak.flows < 2 * Max({1, history.found.flows})

=============================================================================
