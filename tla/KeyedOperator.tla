---------------------------- MODULE KeyedOperator ----------------------------
(***************************************************************************)
(* What the job gives to the logic of one key (harness.py, flink_ops.py):  *)
(* a value state, event-time timers and a watermark.  Events are out of    *)
(* order by at most the configured allowance and never behind the          *)
(* watermark.  A detector's module extends this one and says what its      *)
(* on_event and on_timer do.                                               *)
(***************************************************************************)
EXTENDS DetectConfig, Sequences, FiniteSetsExt

CONSTANTS
  MaxTime,   \* bound on times
  MaxEvents, \* bound on the number of events
  None       \* no state, no value

ASSUME BoundsAssumption == MaxTime \in Nat /\ MaxEvents \in Nat /\ None \notin Int

VARIABLES
  state,     \* the value state of the key, with its map states, or None
  timers,    \* the registered event-time timers
  watermark, \* the watermark
  newest,    \* the time of the youngest event so far
  events,    \* how many events there were
  history    \* what the detector's properties refer to

vars == <<state, timers, watermark, newest, events, history>>

\* The maps from some of S to T.
Maps(S, T) == UNION {[D -> T] : D \in SUBSET S}

BucketUp(t, step) == (t \div step + 1) * step

Start(h) ==
  /\ state = None /\ timers = {} /\ watermark = -1
  /\ newest = -1 /\ events = 0 /\ history = h

\* process_element: the event leaves the state s and registers timers.
Handle(e, s, registered, h) ==
  /\ events < MaxEvents /\ e.obs > watermark /\ e.obs + OutOfOrderness >= newest
  /\ events' = events + 1 /\ newest' = Max({newest, e.obs})
  /\ state' = s /\ timers' = timers \cup registered /\ history' = h
  /\ UNCHANGED watermark

\* The handler returns early.
Ignore(e, h) == Handle(e, state, {}, h)

\* The watermark reaches the next instant and the timers that are due fire, in
\* their order; what a timer does here depends on the last of them.
Due == {t \in timers : t <= watermark + 1}

Tick(s, registered, h) ==
  /\ watermark < MaxTime /\ watermark' = watermark + 1
  /\ timers' = (timers \ Due) \cup registered
  /\ state' = s /\ history' = h
  /\ UNCHANGED <<newest, events>>

\* on_timer of the detectors that only expire.
Expire(clears, h) ==
  IF Due # {} /\ state # None /\ clears THEN Tick(None, {}, h) ELSE Tick(state, {}, history)

-----------------------------------------------------------------------------
\* State never stays behind without a timer that is still to come: a key that
\* falls silent is forgotten (docs/architecture.md:121).
NothingLeaks == state # None => \E t \in timers : t > watermark

=============================================================================
