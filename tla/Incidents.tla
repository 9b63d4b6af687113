------------------------------ MODULE Incidents ------------------------------
(***************************************************************************)
(* The incidents of one key (threat class and entity): the findings of the *)
(* detectors open, escalate and update an incident, a timer in event time  *)
(* resolves it, and every change is an alert identified by the incident    *)
(* and an update number (incidents.py).  The operator runs in a Flink job  *)
(* that checkpoints its state and reads its input again from there after a *)
(* failure; the alerts go out at least once (job.py).                      *)
(***************************************************************************)
EXTENDS Integers, SequencesExt, FiniteSetsExt

CONSTANTS
  Partitions,  \* of the topic whose events trigger the findings
  Kinds,       \* what tells findings apart: severity, subtype, evidence, window
  Idle,        \* incident_idle_ms or incident_idle_beacon_ms, by the key's class
  Cooldown,    \* incident_cooldown_ms
  Step,        \* the grid of the timers, 10 s
  Epoch,       \* the grid of the identifiers, 1 s
  MaxObs,      \* bound on the times of findings
  MaxTime,     \* bound on the watermark
  MaxFindings, \* bound on the number of findings
  MaxCrashes,  \* bound on the failures of the job
  None         \* no incident is open

ASSUME IncidentsAssumption ==
  /\ Kinds \subseteq [rank: 0 .. 4, subtype: STRING, count: Nat, span: Nat]
  /\ Idle \in Nat /\ Cooldown \in Nat /\ Step \in Nat \ {0} /\ Epoch \in Nat \ {0}
  /\ MaxObs \in Nat /\ MaxTime \in Nat /\ MaxFindings \in Nat /\ MaxCrashes \in Nat

VARIABLES
  log,     \* the findings that the events of each partition lead to
  pos,     \* how many of them have been processed
  member,  \* history: the incidents they became part of
  st,      \* the value state: the open incident or None
  timers,  \* the registered event-time timers
  wm,      \* the watermark
  high,    \* the highest watermark so far: later findings are younger
  buffer,  \* the alerts since the checkpoint, which the producer may have delivered
  topic,   \* the alerts that are in the topic for certain
  ckpt,    \* the last completed checkpoint
  crashes  \* how often the job failed

vars == <<log, pos, member, st, timers, wm, high, buffer, topic, ckpt, crashes>>

\* finding(): a window that ends at the observation.
Reported ==
  {f \in {[obs |-> o, start |-> o - k.span, rank |-> k.rank, subtype |-> k.subtype,
           count |-> k.count] : o \in 0 .. MaxObs, k \in Kinds} : f.start >= 0}

Init ==
  /\ log = [p \in Partitions |-> << >>] /\ member = log /\ pos = [p \in Partitions |-> 0]
  /\ st = None /\ timers = {} /\ wm = -1 /\ high = -1 /\ buffer = << >> /\ topic = {}
  /\ ckpt = [pos |-> pos, st |-> None, timers |-> {}] /\ crashes = 0

-----------------------------------------------------------------------------
(***************************************************************************)
(* Incidents and alerts                                                    *)
(***************************************************************************)

BucketUp(t) == (t \div Step + 1) * Step

\* The identifier, within the key: the start of the opening finding's window.
IncidentId(f) == (f.start \div Epoch) * Epoch

\* alert_record(): what an update says of the incident s and its finding f.
Alert(s, f, status) ==
  [id |-> s.id, seq |-> s.seq, status |-> status, rank |-> s.rank,
   subtype |-> f.subtype, count |-> s.count, obs |-> f.obs]

\* _resolve: one update more, with the last finding merged.
Resolved(s) == <<Alert([s EXCEPT !.seq = @ + 1], s.last, "resolved")>>

\* Mutation: update numbers start at zero.
OpenedAtZero(f) ==
  [id |-> IncidentId(f), seq |-> 0, rank |-> f.rank, emit |-> f.obs, obs |-> f.obs,
   count |-> f.count, emitted |-> f.count, subtypes |-> {f.subtype}, last |-> f]

Opened(f) ==
  [id |-> IncidentId(f), seq |-> 1, rank |-> f.rank, emit |-> f.obs, obs |-> f.obs,
   count |-> f.count, emitted |-> f.count, subtypes |-> {f.subtype}, last |-> f]

\* What every further finding adds to the open incident.
Merged(f) ==
  [st EXCEPT !.obs = Max({@, f.obs}), !.count = Max({@, f.count}),
             !.subtypes = @ \cup {f.subtype}, !.last = f]

\* The merged incident after one more update.
Updated(f) ==
  [Merged(f) EXCEPT !.seq = @ + 1, !.rank = Max({@, f.rank}), !.emit = f.obs,
                    !.emitted = Merged(f).count]

\* Mutations: an overdue incident goes on; a stronger finding waits for the
\* cooldown; only the opening finding sets a timer.
LapsedNever(f) == FALSE
EscalatesLate(f) == f.rank > st.rank /\ f.obs - st.emit >= Cooldown
RegisteredOnce(s) == IF st = None THEN timers \cup {BucketUp(s.obs + Idle)} ELSE timers

\* The watermark lags behind the timer that should have resolved the incident.
Lapsed(f) == st # None /\ f.obs > st.obs + Idle

Escalates(f) == f.rank > st.rank
Refines(f)   == f.subtype \notin st.subtypes
IsDue(f)     == f.obs - st.emit >= Cooldown /\ Merged(f).count > st.emitted

Registered(s) == timers \cup {BucketUp(s.obs + Idle)}

-----------------------------------------------------------------------------
(***************************************************************************)
(* on_event                                                                *)
(***************************************************************************)

Findings == FoldFunction(LAMBDA s, n : Len(s) + n, 0, log)

\* The next finding of a partition: after a restart one that was there before.
Arrives(p, f) ==
  \/ /\ pos[p] < Len(log[p]) /\ f = log[p][pos[p] + 1]
     /\ UNCHANGED log
  \/ /\ pos[p] = Len(log[p]) /\ Findings < MaxFindings
     /\ f.obs > high
     /\ log' = [log EXCEPT ![p] = Append(@, f)]

\* The finding leaves the incident s behind and sends the alerts out.
Becomes(p, s, out) ==
  /\ st' = s /\ timers' = Registered(s) /\ buffer' = buffer \o out
  /\ pos' = [pos EXCEPT ![p] = @ + 1]
  /\ member' = [member EXCEPT ![p] = Append(@, s.id)]
  /\ UNCHANGED <<wm, high, topic, ckpt, crashes>>

\* The first finding, or the first after the idle period.
Open(p, f) ==
  /\ Arrives(p, f) /\ (st = None \/ Lapsed(f))
  /\ Becomes(p, Opened(f),
             (IF st = None THEN << >> ELSE Resolved(st)) \o <<Alert(Opened(f), f, "new")>>)

Joins(p, f) == Arrives(p, f) /\ st # None /\ ~Lapsed(f)

Escalate(p, f) ==
  /\ Joins(p, f) /\ Escalates(f)
  /\ Becomes(p, Updated(f), <<Alert(Updated(f), f, "escalated")>>)

\* A new subtype is reported at once, more evidence after the cooldown.
Update(p, f) ==
  /\ Joins(p, f) /\ ~Escalates(f) /\ (Refines(f) \/ IsDue(f))
  /\ Becomes(p, Updated(f), <<Alert(Updated(f), f, "updated")>>)

\* Mutation: suppressed findings take update numbers, too.
SuppressCounting(p, f) ==
  /\ Joins(p, f) /\ ~Escalates(f) /\ ~Refines(f) /\ ~IsDue(f)
  /\ Becomes(p, [Merged(f) EXCEPT !.seq = @ + 1], << >>)

Suppress(p, f) ==
  /\ Joins(p, f) /\ ~Escalates(f) /\ ~Refines(f) /\ ~IsDue(f)
  /\ Becomes(p, Merged(f), << >>)

-----------------------------------------------------------------------------
(***************************************************************************)
(* on_timer, checkpoints and failures                                      *)
(***************************************************************************)

Unread(p) == {log[p][i] : i \in pos[p] + 1 .. Len(log[p])}

\* A timer that is due resolves the incident unless it was merely postponed.
Expires(w) == st # None /\ \E t \in timers : t <= w /\ st.obs + Idle <= t

\* The watermark advances, with any events of the job, and the timers fire.
Advance(w) ==
  /\ w > wm
  /\ \A p \in Partitions : \A f \in Unread(p) : f.obs > w
  /\ wm' = w /\ high' = Max({high, w}) /\ timers' = {t \in timers : t > w}
  /\ IF Expires(w) THEN st' = None /\ buffer' = buffer \o Resolved(st)
                   ELSE UNCHANGED <<st, buffer>>
  /\ UNCHANGED <<log, pos, member, topic, ckpt, crashes>>

\* A checkpoint holds the state and completes once the sink has flushed.
Checkpoint ==
  /\ crashes < MaxCrashes
  /\ ckpt' = [pos |-> pos, st |-> st, timers |-> timers]
  /\ topic' = topic \cup ToSet(buffer) /\ buffer' = << >>
  /\ UNCHANGED <<log, pos, member, st, timers, wm, high, crashes>>

\* The job fails and starts again from the checkpoint; the producer has
\* delivered some of its alerts, in order.
Restart ==
  /\ crashes < MaxCrashes /\ crashes' = crashes + 1
  /\ pos' = ckpt.pos /\ st' = ckpt.st /\ timers' = ckpt.timers
  /\ member' = [p \in Partitions |-> SubSeq(member[p], 1, ckpt.pos[p])]
  /\ \E n \in 0 .. Len(buffer) : topic' = topic \cup ToSet(SubSeq(buffer, 1, n))
  /\ wm' = -1 /\ buffer' = << >>
  /\ UNCHANGED <<log, high, ckpt>>

Process ==
  \E p \in Partitions, f \in Reported :
    Open(p, f) \/ Escalate(p, f) \/ Update(p, f) \/ Suppress(p, f)

Next == Process \/ (\E w \in 0 .. MaxTime : Advance(w)) \/ Checkpoint \/ Restart

Spec == Init /\ [][Next]_vars

-----------------------------------------------------------------------------
(***************************************************************************)
(* Properties                                                              *)
(***************************************************************************)

Alerts == topic \cup ToSet(buffer)

Incident ==
  [id: Nat, seq: Nat \ {0}, rank: 0 .. 4, emit: Nat, obs: Nat, count: Nat, emitted: Nat,
   subtypes: SUBSET {k.subtype : k \in Kinds}, last: Reported]

TypeOK ==
  /\ log \in [Partitions -> Seq(Reported)]
  /\ pos \in [Partitions -> Nat] /\ \A p \in Partitions : pos[p] <= Len(log[p])
  /\ member \in [Partitions -> Seq(Nat)]
  /\ st \in Incident \cup {None} /\ timers \subseteq Nat /\ high \in -1 .. MaxTime
  /\ wm \in -1 .. high
  /\ buffer \in Seq(Alerts)
  /\ \A a \in Alerts :
       a.seq \in Nat \ {0} /\ a.status \in {"new", "escalated", "updated", "resolved"}
  /\ ckpt.pos \in [Partitions -> Nat] /\ ckpt.st \in Incident \cup {None}
  /\ crashes \in 0 .. MaxCrashes

\* Alerts with one update identifier are one alert: consumers, which deduplicate
\* on it (incidents.py:5-6), lose nothing, after a replay either.
UpdateIdsIdentify == \A a, b \in Alerts : a.id = b.id /\ a.seq = b.seq => a = b

\* An update that reached the topic was preceded there by all updates before it.
NoUpdateMissing ==
  \A a \in topic : \A n \in 1 .. a.seq - 1 : \E b \in topic : b.id = a.id /\ b.seq = n

\* Every finding shows in the alerts of its incident, with its severity at least
\* and its subtype; of those before the checkpoint nothing depends on the producer.
Shows(alerts, p, i) ==
  LET of == {a \in alerts : a.id = member[p][i]} IN
  /\ \E a \in of : a.rank >= log[p][i].rank
  /\ \E a \in of : a.subtype = log[p][i].subtype

EveryFindingShown ==
  \A p \in Partitions :
    /\ \A i \in 1 .. pos[p] : Shows(Alerts, p, i)
    /\ \A i \in 1 .. ckpt.pos[p] : i <= pos[p] => Shows(topic, p, i)

\* The watermark never passes the timer of an incident that stays open.
NoneOverstays ==
  [][wm' > wm => st' = None \/ wm' < BucketUp(st'.obs + Idle)]_vars

=============================================================================
