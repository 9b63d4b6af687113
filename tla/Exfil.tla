-------------------------------- MODULE Exfil --------------------------------
(***************************************************************************)
(* One local source host: what it uploaded within a sliding window, which  *)
(* destinations it had, and a baseline of tumbling windows (exfil.py).     *)
(* What the baseline makes of its samples is any threshold.                *)
(***************************************************************************)
EXTENDS KeyedOperator, SequencesExt

CONSTANTS
  Dsts,   \* external destinations that are no known bulk transfers
  Amounts \* of bytes

Delta == [dst: Dsts, bytes: Amounts, obs: 0 .. MaxTime]

\* The history: all records, what they add up to, what the baseline learned and
\* what it was spared, and the destinations in the order of their first upload.
Nothing == [received |-> << >>, total |-> 0, learned |-> 0, spared |-> 0, dsts |-> << >>]
Init == Start(Nothing)

\* What is kept of a source.
SourceState ==
  [recs: Seq(Delta), base: Nat, win: {None} \cup Nat, bytes: Nat, anomalous: BOOLEAN,
   dsts: SUBSET Dsts, ndst: Nat, rank: Int, emitted: Nat, last: Nat]

\* ("base" counts the samples, as long as that matters.)
Empty ==
  [recs |-> << >>, base |-> 0, win |-> None, bytes |-> 0, anomalous |-> FALSE,
   dsts |-> {}, ndst |-> 0, rank |-> -1, emitted |-> 0, last |-> 0]

Current == IF state = None THEN Empty ELSE state

-----------------------------------------------------------------------------
Total(recs) == FoldSeq(LAMBDA r, n : n + r.bytes, 0, recs)

NewWindow(x, e) == x.win # None /\ e.obs \div ExfilWindow # x.win

\* A window that ended is a sample of the baseline, unless it was anomalous.
Rolled(x, e) ==
  [x EXCEPT !.win = e.obs \div ExfilWindow,
            !.bytes = IF NewWindow(x, e) THEN 0 ELSE @,
            !.anomalous = @ /\ ~NewWindow(x, e),
            !.base = IF NewWindow(x, e) /\ ~x.anomalous THEN Min({@ + 1, ExfilWarmup}) ELSE @]

\* The records from an instant on, in their order.
Since(recs, t) ==
  LET young[i \in 0 .. Len(recs)] ==
        IF i = 0 THEN << >>
        ELSE IF recs[i].obs >= t THEN Append(young[i - 1], recs[i]) ELSE young[i - 1]
  IN young[Len(recs)]

\* The records within the window before this one, the last of them.
Recent(recs, now) ==
  LET young == Since(recs, now - ExfilWindow) IN
  SubSeq(young, Max({1, Len(young) - ExfilMaxRecords + 1}), Len(young))

Added(x, e) ==
  LET kept == e.dst \notin x.dsts /\ x.ndst < ExfilDstCap IN
  [x EXCEPT !.recs = Recent(Append(@, e), e.obs), !.bytes = @ + e.bytes, !.last = e.obs,
            !.dsts = IF kept THEN @ \cup {e.dst} ELSE @, !.ndst = IF kept THEN @ + 1 ELSE @]

Thresholds(x) == IF x.base >= ExfilWarmup THEN {ExfilMinBytes, 2 * ExfilMinBytes} ELSE {ExfilMinBytes}

\* Volume, duration between the first and the last to arrive, and records.
Sustained(x, threshold) ==
  /\ Total(x.recs) >= threshold /\ Len(x.recs) >= ExfilMinRecords
  /\ Last(x.recs).obs - Head(x.recs).obs >= ExfilMinSpan

Rank(out, threshold, newDst) ==
  IF out >= 5 * threshold \/ (newDst /\ out >= 2 * threshold) THEN 3 ELSE 2

Reports(x, rank, out) == rank > x.rank \/ out >= 2 * Max({1, x.emitted})

Shown(x, threshold, newDst) ==
  LET out  == Total(x.recs)
      rank == Rank(out, threshold, newDst)
  IN IF ~Sustained(x, threshold) THEN x
     ELSE IF Reports(x, rank, out) THEN [x EXCEPT !.anomalous = TRUE, !.rank = Max({@, rank}), !.emitted = out]
     ELSE [x EXCEPT !.anomalous = TRUE]

Noted(e) ==
  LET x    == Current
      ends == NewWindow(x, e)
  IN [history EXCEPT
        !.received = Append(@, e), !.total = @ + e.bytes,
        !.learned = IF ends /\ ~x.anomalous THEN @ + x.bytes ELSE @,
        !.spared = IF ends /\ x.anomalous THEN @ + x.bytes ELSE @,
        !.dsts = IF Contains(@, e.dst) THEN @ ELSE Append(@, e.dst)]

Upload(e) ==
  LET x == Added(Rolled(Current, e), e) IN
  \E threshold \in Thresholds(x) :
    Handle(e, Shown(x, threshold, e.dst \notin Current.dsts), {BucketUp(e.obs + ExfilIdle, ExfilStep)}, Noted(e))

OnTimer == Expire(state.last + ExfilIdle <= Max(Due), Nothing)

Next == (\E e \in Delta : Upload(e)) \/ OnTimer

Spec == Init /\ [][Next]_vars

-----------------------------------------------------------------------------
\* What the window holds are records in the order of their arrival, as many as fit,
\* and none is lost that a window ending with the youngest record needs; every byte
\* is in one sample, whichever windows late records reopen; and the destinations
\* kept are the first ones (exfil.py:3-5).
WindowIsExact ==
  state # None =>
    LET all == history.received
        Young(recs) == Since(recs, newest - ExfilWindow)
        latest == SubSeq(all, Max({1, Len(all) - ExfilMaxRecords + 1}), Len(all))
    IN /\ IsSuffix(Young(latest), Young(state.recs)) /\ IsSuffix(Young(state.recs), Young(all))
       /\ Len(state.recs) <= ExfilMaxRecords
       /\ \A i \in DOMAIN state.recs : state.recs[i].obs >= newest - OutOfOrderness - ExfilWindow
       /\ history.total = history.learned + history.spared + state.bytes
       /\ state.ndst = Cardinality(state.dsts)
       /\ state.dsts = ToSet(SubSeq(history.dsts, 1, Min({Len(history.dsts), ExfilDstCap})))

=============================================================================
