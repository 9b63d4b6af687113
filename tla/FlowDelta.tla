------------------------------ MODULE FlowDelta ------------------------------
(***************************************************************************)
(* One flow's counters: snapshots and the terminal record carry totals,    *)
(* the operator hands on what each adds (flowdelta.py).  One counter       *)
(* stands for the four.                                                    *)
(***************************************************************************)
EXTENDS KeyedOperator

CONSTANT Flows \* sets of records that a flow may send

\* A record that counts nothing has count None, a terminal one seq 0.
Record == [terminal: BOOLEAN, seq: Nat, count: Nat \cup {None}, obs: Nat]

\* What is kept of a flow.
FlowState == [count: Nat \cup {None}, seq: Nat, term: BOOLEAN, last: Nat]

\* The history: the flow, all that was ever counted of it, how much of that when it
\* was last announced as new, the highest count since then and the highest dropped,
\* how often it was announced and how often it ended without leaving a trace, and
\* until when it must be known.
Init ==
  \E flow \in Flows :
    Start([flow |-> flow, counted |-> 0, earlier |-> 0, peak |-> 0, dropped |-> 0,
           announced |-> 0, ended |-> 0, known |-> -1])

-----------------------------------------------------------------------------
OrZero(n) == IF n = None THEN 0 ELSE n

Before == IF state = None THEN 0 ELSE OrZero(state.count)

\* Mutation: a counter that moved backwards counts in full.
DeltaSigned(r) == IF OrZero(r.count) < Before THEN OrZero(r.count) ELSE OrZero(r.count) - Before

\* What the record adds; nothing if its counter is unavailable or moved backwards.
Delta(r) == Max({0, OrZero(r.count) - Before})

Merged(r) ==
  IF r.count # None THEN Max({Before, r.count}) ELSE IF state = None THEN None ELSE state.count

\* The record goes out with its delta; new_flow says that no state was there.
Counted(r) ==
  LET h == IF state = None THEN [history EXCEPT !.earlier = history.counted, !.peak = 0]
           ELSE history IN
  [h EXCEPT !.counted = @ + Delta(r), !.peak = Max({@, OrZero(r.count)}),
            !.announced = IF state = None THEN @ + 1 ELSE @]

Dropped(r) == Ignore(r, [history EXCEPT !.dropped = Max({@, OrZero(r.count)})])

Late(r)     == state # None /\ state.term /\ Dropped(r)
Repeated(r) == /\ state # None /\ ~state.term
               /\ ~r.terminal /\ r.seq <= state.seq /\ Dropped(r)

Snapshot(r) ==
  /\ ~r.terminal /\ (state # None => ~state.term /\ r.seq > state.seq)
  /\ Handle(r, [count |-> Merged(r), seq |-> r.seq, term |-> FALSE, last |-> r.obs],
            {BucketUp(r.obs + FlowIdle, FlowStep)},
            [Counted(r) EXCEPT !.known = r.obs + FlowIdle])

Terminal(r) ==
  /\ r.terminal /\ state # None /\ ~state.term
  /\ Handle(r, [state EXCEPT !.term = TRUE, !.last = r.obs],
            {BucketUp(r.obs + FlowTombstone, FlowStep)},
            [Counted(r) EXCEPT !.known = r.obs + FlowTombstone])

\* A terminal record without state before it keeps none.
ShortFlow(r) ==
  /\ r.terminal /\ state = None
  /\ Handle(r, None, {}, [Counted(r) EXCEPT !.ended = @ + 1])

Limit == IF state.term THEN FlowTombstone ELSE FlowIdle

OnTimer == Expire(state.last + Limit <= Max(Due), [history EXCEPT !.ended = @ + 1])

Receive(r) == Late(r) \/ Repeated(r) \/ Snapshot(r) \/ Terminal(r) \/ ShortFlow(r)

Next == (\E r \in history.flow : Receive(r)) \/ OnTimer

Spec == Init /\ [][Next]_vars

-----------------------------------------------------------------------------
\* A flow whose counters only grow, the terminal record's last; of a record that is
\* written again they are the same.
Grows(flow) ==
  \A r, q \in flow :
    q.terminal \/ (~r.terminal /\ r.seq <= q.seq) => OrZero(r.count) <= OrZero(q.count)

\* What was handed on of a flow is its highest count, once for each time it was
\* announced: once for good as long as it did not end without a trace, for then
\* nothing that was dropped was more.  It is announced again only after it was
\* short or forgotten, and it is not forgotten before its idle period, or that of
\* its tombstone, is over (flowdelta.py:1-6).
CountedOnce ==
  /\ history.counted = history.earlier + history.peak
  /\ history.ended = 0 => history.earlier = 0
  /\ Grows(history.flow) /\ history.ended = 0 => history.dropped <= history.counted
  /\ history.announced = history.ended + (IF state = None THEN 0 ELSE 1)
  /\ watermark < history.known => state # None

=============================================================================
